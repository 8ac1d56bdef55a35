------------------------ MODULE SFSClientToolProofs ------------------------
(***************************************************************************)
(* Proofs about SFSClientTool, for any command lines and any answers of    *)
(* the library.  What a status of zero tells is stated for any number of   *)
(* bits that a system keeps, for all of them and for eight.  The parser is *)
(* taken option by option: what it holds after the arguments of the first  *)
(* n options is what these say, unless it has complained, or the last of   *)
(* all lacks its value.                                                    *)
(***************************************************************************)
EXTENDS SFSClientTool, Integers, SequenceTheorems, WellFoundedInduction, TLAPS

-----------------------------------------------------------------------------
(* Induction and recursion. *)

\* Any numbers have a least one, since < is well-founded.
LEMMA LeastNumber ==
  ASSUME NEW S, S \subseteq Nat, S # {}
  PROVE  \E i \in S : \A j \in S : i <= j
  <1>1. PICK i \in S : \A j \in S : <<j, i>> \notin OpToRel(<, Nat)
    BY NatLessThanWellFounded, WFMin
  <1>2. ASSUME NEW j \in S PROVE i <= j
    <2>1. ~(j < i)
      BY <1>1 DEF OpToRel
    <2> QED
      BY <2>1
  <1> QED
    BY <1>2

(* A set of numbers that has 0, and with any number the next, has all of them:  *)
(* induction, for one set at a time.                                           *)
LEMMA Induction ==
  ASSUME NEW S, 0 \in S, \A n \in Nat : n \in S => n + 1 \in S
  PROVE  \A n \in Nat : n \in S
  <1> SUFFICES ASSUME Nat \ S # {} PROVE FALSE
    OBVIOUS
  <1>1. PICK m \in Nat \ S : \A n \in Nat \ S : m <= n
    BY LeastNumber
  <1>2. m - 1 \in Nat /\ m - 1 \notin S
    BY <1>1
  <1> QED
    BY <1>1, <1>2

\* Of the numbers up to n there is a greatest: the one with the least distance to n.
LEMMA GreatestNumber ==
  ASSUME NEW n \in Nat, NEW S, S \subseteq 1 .. n, S # {}
  PROVE  \E i \in S : \A j \in S : j <= i
  <1> DEFINE T == {n - i : i \in S}
  <1>1. T \subseteq Nat /\ T # {}
    <2>1. PICK i \in S : TRUE
      OBVIOUS
    <2>2. n - i \in T
      BY <2>1
    <2>3. T \subseteq Nat
      OBVIOUS
    <2> QED
      BY <2>2, <2>3
  <1>2. PICK t \in T : \A u \in T : t <= u
    BY <1>1, LeastNumber
  <1>3. PICK i \in S : t = n - i
    BY <1>2
  <1>4. ASSUME NEW j \in S PROVE j <= i
    <2>1. n - j \in T
      OBVIOUS
    <2>2. t <= n - j
      BY <1>2, <2>1
    <2> QED
      BY <1>3, <2>2
  <1> QED
    BY <1>4

(* The recursion of Readers has a solution, step by step.                      *)
LEMMA ReadersEquation ==
  ASSUME NEW args \in Seq(AllStrings)
  PROVE  Args!Readers(args) = [i \in 0 .. Len(args) |->
                                 IF i = 0 THEN Args!Start
                                 ELSE Args!ReadOn(Args!Readers(args)[i - 1], args[i])]
  <1> DEFINE Solves(f, n) == f = [i \in 0 .. n |->
                                    IF i = 0 THEN Args!Start ELSE Args!ReadOn(f[i - 1], args[i])]
             S == {n \in Nat : \E f : Solves(f, n)}
  <1>0. Args!Readers(args) = CHOOSE f : Solves(f, Len(args))
    BY DEF Args!Readers
  <1>1. 0 \in S
    <2>1. Solves([i \in 0 .. 0 |-> Args!Start], 0)
      OBVIOUS
    <2> QED
      BY <2>1
  <1>2. ASSUME NEW n \in Nat, n \in S PROVE n + 1 \in S
    <2>1. PICK f : Solves(f, n)
      BY <1>2
    <2> DEFINE g == [i \in 0 .. n + 1 |-> IF i <= n THEN f[i] ELSE Args!ReadOn(f[n], args[n + 1])]
    <2>2. ASSUME NEW i \in 0 .. n + 1
          PROVE  g[i] = IF i = 0 THEN Args!Start ELSE Args!ReadOn(g[i - 1], args[i])
      <3>1. CASE i = 0
        BY <2>1, <3>1
      <3>2. CASE i \in 1 .. n
        <4>1. g[i] = f[i] /\ g[i - 1] = f[i - 1]
          BY <3>2
        <4>2. f[i] = Args!ReadOn(f[i - 1], args[i])
          BY <2>1, <3>2
        <4> QED
          BY <3>2, <4>1, <4>2
      <3>3. CASE i = n + 1
        BY <3>3
      <3> QED
        BY <3>1, <3>2, <3>3
    <2>3. Solves(g, n + 1)
      BY <2>2
    <2> HIDE DEF g, Solves
    <2> QED
      BY <2>3
  <1>3. \A n \in Nat : n \in S
    <2> HIDE DEF S
    <2> QED
      BY <1>1, <1>2, Induction
  <1>4. \E f : Solves(f, Len(args))
    BY <1>3, LenProperties
  <1>5. Solves(Args!Readers(args), Len(args))
    <2> HIDE DEF Solves
    <2> QED
      BY <1>0, <1>4
  <1> QED
    BY <1>5

(* So has the recursion of Lines.                                              *)
LEMMA LinesEquation ==
  ASSUME NEW S, NEW line \in Seq(S)
  PROVE  Args!Lines(line) = [i \in 0 .. Len(line) |->
                               IF i = 0 THEN <<>>
                               ELSE Args!Lines(line)[i - 1] \o Args!Arguments(line[i])]
  <1> DEFINE Longer(l, i) == l \o Args!Arguments(line[i])
             Solves(f, n) == f = [i \in 0 .. n |-> IF i = 0 THEN <<>> ELSE Longer(f[i - 1], i)]
             N == {n \in Nat : \E f : Solves(f, n)}
  <1>0. Args!Lines(line) = CHOOSE f : Solves(f, Len(line))
    BY DEF Args!Lines
  <1> HIDE DEF Longer
  <1>1. 0 \in N
    <2>1. Solves([i \in 0 .. 0 |-> <<>>], 0)
      OBVIOUS
    <2> QED
      BY <2>1
  <1>2. ASSUME NEW n \in Nat, n \in N PROVE n + 1 \in N
    <2>1. PICK f : Solves(f, n)
      BY <1>2
    <2> DEFINE g == [i \in 0 .. n + 1 |-> IF i <= n THEN f[i] ELSE Longer(f[n], n + 1)]
    <2>2. ASSUME NEW i \in 0 .. n + 1
          PROVE  g[i] = IF i = 0 THEN <<>> ELSE Longer(g[i - 1], i)
      <3>1. CASE i = 0
        BY <2>1, <3>1
      <3>2. CASE i \in 1 .. n
        <4>1. g[i] = f[i] /\ g[i - 1] = f[i - 1]
          BY <3>2
        <4>2. f[i] = Longer(f[i - 1], i)
          BY <2>1, <3>2
        <4> QED
          BY <3>2, <4>1, <4>2
      <3>3. CASE i = n + 1
        BY <3>3
      <3> QED
        BY <3>1, <3>2, <3>3
    <2>3. Solves(g, n + 1)
      BY <2>2
    <2> HIDE DEF g, Solves
    <2> QED
      BY <2>3
  <1>3. \A n \in Nat : n \in N
    <2> HIDE DEF N
    <2> QED
      BY <1>1, <1>2, Induction
  <1>4. \E f : Solves(f, Len(line))
    BY <1>3, LenProperties
  <1>5. Solves(Args!Lines(line), Len(line))
    <2> HIDE DEF Solves
    <2> QED
      BY <1>0, <1>4
  <1> QED
    BY <1>5 DEF Longer

-----------------------------------------------------------------------------
(* Reading. *)

\* The reader after all of the arguments.
Reading(args) == Args!Readers(args)[Len(args)]

\* So the reader starts with nothing, and each argument is read after those before.
LEMMA ReadersSteps ==
  ASSUME NEW args \in Seq(AllStrings)
  PROVE  /\ Args!Readers(args)[0] = Args!Start
         /\ \A i \in 1 .. Len(args) :
              Args!Readers(args)[i] = Args!ReadOn(Args!Readers(args)[i - 1], args[i])
  <1> DEFINE f == Args!Readers(args)
  <1>1. f = [i \in 0 .. Len(args) |-> IF i = 0 THEN Args!Start ELSE Args!ReadOn(f[i - 1], args[i])]
    BY ReadersEquation
  <1>2. Len(args) \in Nat
    BY LenProperties
  <1> HIDE DEF f
  <1>3. \A i \in 0 .. Len(args) :
          f[i] = IF i = 0 THEN Args!Start ELSE Args!ReadOn(f[i - 1], args[i])
    BY <1>1, Zenon
  <1>4. 0 \in 0 .. Len(args) /\ \A i \in 1 .. Len(args) : i \in 0 .. Len(args) /\ i # 0
    BY <1>2
  <1>5. f[0] = Args!Start /\ \A i \in 1 .. Len(args) : f[i] = Args!ReadOn(f[i - 1], args[i])
    BY <1>3, <1>4, Zenon
  <1> QED
    BY <1>5 DEF f

(* One more argument is read after the others.                                 *)
LEMMA ReadingOneMore ==
  ASSUME NEW args \in Seq(AllStrings), NEW arg \in AllStrings
  PROVE  Reading(Append(args, arg)) = Args!ReadOn(Reading(args), arg)
  <1> DEFINE more == Append(args, arg)
  <1>1. /\ more \in Seq(AllStrings) /\ Len(args) \in Nat /\ Len(more) = Len(args) + 1
        /\ more[Len(args) + 1] = arg
        /\ \A i \in 1 .. Len(args) : more[i] = args[i]
    OBVIOUS
  <1> DEFINE S == {n \in Nat : n <= Len(args) => Args!Readers(more)[n] = Args!Readers(args)[n]}
  <1> HIDE DEF more
  <1>2. 0 \in S
    BY <1>1, ReadersSteps
  <1>3. ASSUME NEW n \in Nat, n \in S PROVE n + 1 \in S
    <2> SUFFICES ASSUME n + 1 <= Len(args)
                 PROVE  Args!Readers(more)[n + 1] = Args!Readers(args)[n + 1]
      OBVIOUS
    <2>1. n + 1 \in 1 .. Len(args) /\ n + 1 \in 1 .. Len(more) /\ n + 1 - 1 = n
      BY <1>1
    <2>2. Args!Readers(more)[n] = Args!Readers(args)[n] /\ more[n + 1] = args[n + 1]
      BY <1>1, <1>3, <2>1
    <2>0. /\ \A i \in 1 .. Len(more) :
               Args!Readers(more)[i] = Args!ReadOn(Args!Readers(more)[i - 1], more[i])
          /\ \A i \in 1 .. Len(args) :
               Args!Readers(args)[i] = Args!ReadOn(Args!Readers(args)[i - 1], args[i])
      BY <1>1, ReadersSteps
    <2>3. Args!Readers(more)[n + 1] = Args!ReadOn(Args!Readers(more)[n + 1 - 1], more[n + 1])
      BY <2>0, <2>1
    <2>4. Args!Readers(args)[n + 1] = Args!ReadOn(Args!Readers(args)[n + 1 - 1], args[n + 1])
      BY <2>0, <2>1
    <2> QED
      BY <2>1, <2>2, <2>3, <2>4
  <1>4. \A n \in Nat : n \in S
    <2> HIDE DEF S
    <2> QED
      BY <1>2, <1>3, Induction
  <1>5. Args!Readers(more)[Len(args)] = Args!Readers(args)[Len(args)]
    BY <1>1, <1>4
  <1>6. Args!Readers(more)[Len(args) + 1]
          = Args!ReadOn(Args!Readers(more)[Len(args) + 1 - 1], more[Len(args) + 1])
    <2>1. Len(args) + 1 \in 1 .. Len(more)
      BY <1>1
    <2>2. \A i \in 1 .. Len(more) :
            Args!Readers(more)[i] = Args!ReadOn(Args!Readers(more)[i - 1], more[i])
      BY <1>1, ReadersSteps
    <2> QED
      BY <2>1, <2>2
  <1>7. Len(args) + 1 - 1 = Len(args)
    BY <1>1
  <1>8. Reading(more) = Args!ReadOn(Reading(args), arg)
    BY <1>1, <1>5, <1>6, <1>7 DEF Reading
  <1> QED
    BY <1>8 DEF more

\* A reader that has not complained.
Reader(given, awaiting) == [settings |-> given, awaiting |-> awaiting, refused |-> FALSE]


\* An option is a flag or a switch, not both, and Nothing is neither.
LEMMA Options ==
  /\ Flags \cap Switches = {}
  /\ Nothing \notin Flags /\ Nothing \notin Switches
  /\ "help" \in Flags
  /\ {"outputFile", "product", "accountId", "instanceId", "namespace", "customUrl"} \subseteq Switches
  /\ {"help", "version", "isApp"} \subseteq Flags
  <1>1. Flags \cap Switches = {}
    BY DEF Flags, Switches
  <1>2. Nothing \notin Flags /\ Nothing \notin Switches
    BY NothingAssumption
  <1> QED
    BY <1>1, <1>2, Zenon DEF Flags, Switches

\* What gives each flag a truth value and each switch a string are settings,
LEMMA SettingsType ==
  ASSUME NEW given \in [Flags \cup Switches -> BOOLEAN \cup AllStrings],
         \A option \in Flags : given[option] \in BOOLEAN,
         \A option \in Switches : given[option] \in AllStrings
  PROVE  given \in Settings
  BY DEF Flags, Switches, Settings

\* and settings give no more than that.
LEMMA SettingsFields ==
  ASSUME NEW given \in Settings
  PROVE  /\ given \in [Flags \cup Switches -> BOOLEAN \cup AllStrings]
         /\ \A option \in Flags : given[option] \in BOOLEAN
         /\ \A option \in Switches : given[option] \in AllStrings
  BY DEF Flags, Switches, Settings

(* What reading an argument makes of a reader that has not complained: a flag   *)
(* is noted, a switch without a value so far is waited for, and anything else  *)
(* is a complaint; the argument after a switch is its value.                   *)
LEMMA ReadFlag ==
  ASSUME NEW given \in Settings, NEW arg, OptionOf(arg) \in Flags
  PROVE  Args!ReadOn(Reader(given, Nothing), arg)
           = Reader([given EXCEPT ![OptionOf(arg)] = TRUE], Nothing)
  <1> DEFINE option == OptionOf(arg)
  <1> HIDE DEF option
  <1> QED
    BY Options, SettingsFields DEF Args!ReadOn, Args!Read, Reader, option

\* A switch is waited for as long as it has no value.
LEMMA ReadSwitch ==
  ASSUME NEW given \in Settings, NEW arg, OptionOf(arg) \in Switches,
         given[OptionOf(arg)] = ""
  PROVE  Args!ReadOn(Reader(given, Nothing), arg) = Reader(given, OptionOf(arg))
  <1> DEFINE option == OptionOf(arg)
  <1>1. option \notin Flags /\ option \in Switches /\ given[option] = ""
    BY Options
  <1> HIDE DEF option
  <1> QED
    BY <1>1, SettingsFields DEF Args!ReadOn, Args!Read, Reader, option

\* What is no option is refused, and so is a switch that has its value.
LEMMA ReadOther ==
  ASSUME NEW given \in Settings, NEW arg, OptionOf(arg) \notin Flags,
         OptionOf(arg) \notin Switches \/ given[OptionOf(arg)] # ""
  PROVE  Args!ReadOn(Reader(given, Nothing), arg).refused
  <1> DEFINE option == OptionOf(arg)
  <1>1. option \notin Flags /\ (option \notin Switches \/ given[option] # "")
    OBVIOUS
  <1> HIDE DEF option
  <1> QED
    BY <1>1, SettingsFields DEF Args!ReadOn, Args!Read, Reader, option

\* The argument after a switch is its value, whatever it looks like.
LEMMA ReadValue ==
  ASSUME NEW given \in Settings, NEW option \in Switches, NEW arg
  PROVE  Args!ReadOn(Reader(given, option), arg) = Reader([given EXCEPT ![option] = arg], Nothing)
  BY Options, SettingsFields DEF Args!ReadOn, Args!Read, Reader

\* Nothing is read after a complaint.
LEMMA ReadNoMore ==
  ASSUME NEW reader, reader.refused, NEW arg
  PROVE  Args!ReadOn(reader, arg).refused
  BY DEF Args!ReadOn

-----------------------------------------------------------------------------
(* Lines. *)

Pieces == [typed : AllStrings, option : Flags \cup Switches \cup {Nothing},
           value : AllStrings \cup {Nothing}]

\* What is said of a line is said of its pieces.
LEMMA LinePieces ==
  ASSUME NEW line \in CommandLines
  PROVE  /\ line \in Seq(Pieces)
         /\ Len(line) \in Nat
         /\ \A i \in 1 .. Len(line) :
              /\ line[i] \in Pieces
              /\ line[i].option = OptionOf(line[i].typed)
              /\ line[i].option \in Switches => i = Len(line) \/ line[i].value # Nothing
              /\ line[i].option \notin Switches => line[i].value = Nothing
  <1>1. line \in Seq(Pieces) /\ Args!IsLine(line)
    BY LineAssumption DEF Pieces
  <1>2. Len(line) \in Nat /\ \A i \in 1 .. Len(line) : line[i] \in Pieces
    BY <1>1, LenProperties, ElementOfSeq
  <1> QED
    BY <1>1, <1>2 DEF Args!IsLine

(* An option and its value are arguments, and are read one after the other.    *)
LEMMA PieceRead ==
  ASSUME NEW args \in Seq(AllStrings), NEW piece \in Pieces
  PROVE  /\ args \o Args!Arguments(piece) \in Seq(AllStrings)
         /\ piece.value = Nothing =>
              Reading(args \o Args!Arguments(piece)) = Args!ReadOn(Reading(args), piece.typed)
         /\ piece.value # Nothing =>
              Reading(args \o Args!Arguments(piece))
                = Args!ReadOn(Args!ReadOn(Reading(args), piece.typed), piece.value)
  <1>1. piece.typed \in AllStrings /\ (piece.value = Nothing \/ piece.value \in AllStrings)
    BY DEF Pieces
  <1>2. CASE piece.value = Nothing
    <2>1. Args!Arguments(piece) = <<piece.typed>>
      BY <1>2 DEF Args!Arguments
    <2>2. args \o <<piece.typed>> = Append(args, piece.typed)
      BY <1>1
    <2>3. Append(args, piece.typed) \in Seq(AllStrings)
      BY <1>1
    <2>4. Reading(Append(args, piece.typed)) = Args!ReadOn(Reading(args), piece.typed)
      BY <1>1, ReadingOneMore
    <2> QED
      BY <1>2, <2>1, <2>2, <2>3, <2>4
  <1>3. CASE piece.value # Nothing
    <2> DEFINE one == Append(args, piece.typed)
    <2>1. Args!Arguments(piece) = <<piece.typed, piece.value>>
      BY <1>3 DEF Args!Arguments
    <2>2. args \o <<piece.typed, piece.value>> = Append(one, piece.value)
      BY <1>1, <1>3
    <2>3. one \in Seq(AllStrings) /\ Append(one, piece.value) \in Seq(AllStrings)
      BY <1>1, <1>3
    <2>4. Reading(one) = Args!ReadOn(Reading(args), piece.typed)
      BY <1>1, ReadingOneMore
    <2> HIDE DEF one
    <2>5. Reading(Append(one, piece.value)) = Args!ReadOn(Reading(one), piece.value)
      BY <1>1, <1>3, <2>3, ReadingOneMore
    <2> QED
      BY <1>3, <2>1, <2>2, <2>3, <2>4, <2>5
  <1> QED
    BY <1>2, <1>3

(* The arguments of the first options of a line, one option more each time.    *)
LEMMA LinesSteps ==
  ASSUME NEW line \in Seq(Pieces)
  PROVE  /\ Args!Lines(line)[0] = <<>>
         /\ \A i \in 1 .. Len(line) :
              Args!Lines(line)[i] = Args!Lines(line)[i - 1] \o Args!Arguments(line[i])
         /\ \A i \in 0 .. Len(line) : Args!Lines(line)[i] \in Seq(AllStrings)
  <1> DEFINE f == Args!Lines(line)
             Longer(l, i) == l \o Args!Arguments(line[i])
  <1>1. Len(line) \in Nat /\ \A i \in 1 .. Len(line) : line[i] \in Pieces
    BY LenProperties, ElementOfSeq
  <1>2. f = [i \in 0 .. Len(line) |-> IF i = 0 THEN <<>> ELSE Longer(f[i - 1], i)]
    BY <1>1, LinesEquation
  <1>3. \A i \in 1 .. Len(line) : \A l \in Seq(AllStrings) : Longer(l, i) \in Seq(AllStrings)
    BY <1>1, PieceRead
  <1> HIDE DEF f, Longer
  <1>4. f[0] = <<>> /\ \A i \in 1 .. Len(line) : f[i] = Longer(f[i - 1], i)
    <2>1. \A i \in 0 .. Len(line) : f[i] = IF i = 0 THEN <<>> ELSE Longer(f[i - 1], i)
      BY <1>2, Zenon
    <2>2. 0 \in 0 .. Len(line) /\ \A i \in 1 .. Len(line) : i \in 0 .. Len(line) /\ i # 0
      BY <1>1
    <2> QED
      BY <2>1, <2>2, Zenon
  <1>5. \A i \in 0 .. Len(line) : f[i] \in Seq(AllStrings)
    <2> DEFINE S == {n \in Nat : n <= Len(line) => f[n] \in Seq(AllStrings)}
    <2>1. 0 \in S
      BY <1>4, EmptySeq
    <2>2. ASSUME NEW n \in Nat, n \in S PROVE n + 1 \in S
      <3> SUFFICES ASSUME n + 1 <= Len(line) PROVE f[n + 1] \in Seq(AllStrings)
        OBVIOUS
      <3>1. n + 1 \in 1 .. Len(line) /\ f[n] \in Seq(AllStrings) /\ n + 1 - 1 = n
        BY <1>1, <2>2
      <3>2. f[n + 1] = Longer(f[n], n + 1)
        BY <1>4, <3>1
      <3> QED
        BY <1>3, <3>1, <3>2
    <2>3. \A n \in Nat : n \in S
      <3> HIDE DEF S
      <3> QED
        BY <2>1, <2>2, Induction
    <2> QED
      BY <1>1, <2>3
  <1> QED
    BY <1>4, <1>5 DEF f, Longer

\* A line with one option more has the arguments of this option at its end.
LEMMA LineOneMore ==
  ASSUME NEW line \in Seq(Pieces), NEW piece \in Pieces
  PROVE  Args!Line(Append(line, piece)) = Args!Line(line) \o Args!Arguments(piece)
  <1> DEFINE more == Append(line, piece)
             f == Args!Lines(more)
             g == Args!Lines(line)
             Longer(l, p) == l \o Args!Arguments(p)
  <1>1. /\ more \in Seq(Pieces) /\ Len(line) \in Nat /\ Len(more) = Len(line) + 1
        /\ more[Len(line) + 1] = piece
        /\ \A i \in 1 .. Len(line) : more[i] = line[i]
    OBVIOUS
  <1> HIDE DEF more
  <1>2. /\ f[0] = <<>> /\ \A i \in 1 .. Len(more) : f[i] = Longer(f[i - 1], more[i])
        /\ g[0] = <<>> /\ \A i \in 1 .. Len(line) : g[i] = Longer(g[i - 1], line[i])
    BY <1>1, LinesSteps
  <1> DEFINE S == {n \in Nat : n <= Len(line) => f[n] = g[n]}
  <1>3. Args!Line(more) = f[Len(line) + 1] /\ Args!Line(line) = g[Len(line)]
    BY <1>1 DEF Args!Line
  <1> HIDE DEF f, g, Longer
  <1>4. 0 \in S
    BY <1>2
  <1>5. ASSUME NEW n \in Nat, n \in S PROVE n + 1 \in S
    <2> SUFFICES ASSUME n + 1 <= Len(line) PROVE f[n + 1] = g[n + 1]
      OBVIOUS
    <2>1. n + 1 \in 1 .. Len(line) /\ n + 1 \in 1 .. Len(more) /\ n + 1 - 1 = n
      BY <1>1
    <2>2. f[n] = g[n] /\ more[n + 1] = line[n + 1]
      BY <1>1, <1>5, <2>1
    <2>3. f[n + 1] = Longer(f[n], more[n + 1]) /\ g[n + 1] = Longer(g[n], line[n + 1])
      BY <1>2, <2>1
    <2> QED
      BY <2>2, <2>3
  <1>6. \A n \in Nat : n \in S
    <2> HIDE DEF S
    <2> QED
      BY <1>4, <1>5, Induction
  <1>7. f[Len(line)] = g[Len(line)]
    BY <1>1, <1>6
  <1>8. f[Len(line) + 1] = Longer(f[Len(line)], piece)
    <2>1. Len(line) + 1 \in 1 .. Len(more) /\ Len(line) + 1 - 1 = Len(line)
      BY <1>1
    <2> QED
      BY <1>1, <1>2, <2>1
  <1> QED
    BY <1>3, <1>7, <1>8 DEF Longer, more

\* A sequence that is not empty has a last element, and others before it.
LEMMA FrontAndLast ==
  ASSUME NEW S, NEW seq \in Seq(S), seq # <<>>
  PROVE  \E front \in Seq(S), last \in S : seq = Append(front, last)
  <1> DEFINE n == Len(seq) - 1
             front == [i \in 1 .. n |-> seq[i]]
             last == seq[n + 1]
  <1>1. Len(seq) \in Nat \ {0} /\ n \in Nat
    BY EmptySeq
  <1>2. /\ last \in S /\ \A i \in 1 .. n : seq[i] \in S
        /\ \A i : i \in 1 .. n + 1 <=> i \in 1 .. n \/ i = n + 1
    BY <1>1, ElementOfSeq
  <1>3. front \in Seq(S) /\ Len(front) = n /\ \A i \in 1 .. n : front[i] = seq[i]
    BY <1>1, <1>2
  <1> HIDE DEF front, last
  <1>4. /\ Append(front, last) \in Seq(S) /\ Len(Append(front, last)) = n + 1
        /\ \A i \in 1 .. n : Append(front, last)[i] = front[i]
        /\ Append(front, last)[n + 1] = last
    BY <1>1, <1>2, <1>3
  <1>5. Len(seq) = n + 1
    BY <1>1
  <1> HIDE DEF n
  <1>6. \A i \in 1 .. Len(seq) : seq[i] = Append(front, last)[i]
    BY <1>2, <1>3, <1>4, <1>5 DEF last
  <1>7. seq = Append(front, last)
    BY <1>4, <1>5, <1>6, SeqEqual
  <1> QED
    BY <1>2, <1>3, <1>7

\* An argument that has the name of an option is that option, and others are none.
LEMMA OptionIsNamed ==
  ASSUME NEW arg
  PROVE  OptionOf(arg) \in Flags \cup Switches \cup {Nothing}
  <1> DEFINE options == {option \in DOMAIN LongNames :
                           \/ AreEqualI(arg, LongNames[option])
                           \/ option \in DOMAIN ShortNames /\ AreEqualI(arg, ShortNames[option])}
  <1>1. DOMAIN LongNames = Flags \cup Switches
    BY DEF LongNames, Flags, Switches
  <1>2. options \subseteq Flags \cup Switches
    BY <1>1
  <1>3. OptionOf(arg) = IF options = {} THEN Nothing ELSE CHOOSE option \in options : TRUE
    BY DEF OptionOf
  <1> HIDE DEF options
  <1> QED
    BY <1>2, <1>3

(* Whatever arguments a program is called with are a line of options with and  *)
(* without values: what is said of lines is said of all arguments.             *)
THEOREM ArgumentsAreLines ==
  \A args \in Seq(AllStrings) :
    \E line \in Seq(Pieces) : Args!IsLine(line) /\ Args!Line(line) = args
  <1> DEFINE Told(args) == \E line \in Seq(Pieces) : Args!IsLine(line) /\ Args!Line(line) = args
             S == {n \in Nat : \A args \in Seq(AllStrings) : Len(args) = n => Told(args)}
  <1>1. 0 \in S
    <2>1. ASSUME NEW args \in Seq(AllStrings), Len(args) = 0 PROVE Told(args)
      <3>1. args = <<>> /\ <<>> \in Seq(Pieces) /\ Len(<<>>) = 0
        BY <2>1, EmptySeq
      <3>2. Args!IsLine(<<>>)
        BY DEF Args!IsLine
      <3>3. Args!Line(<<>>) = <<>>
        BY <3>1, LinesSteps DEF Args!Line
      <3> QED
        BY <3>1, <3>2, <3>3
    <2> QED
      BY <2>1
  <1>2. ASSUME NEW n \in Nat, n \in S PROVE n + 1 \in S
    <2> SUFFICES ASSUME NEW args \in Seq(AllStrings), Len(args) = n + 1 PROVE Told(args)
      OBVIOUS
    <2>1. PICK front \in Seq(AllStrings), last \in AllStrings : args = Append(front, last)
      <3>1. args # <<>>
        BY EmptySeq
      <3> QED
        BY <3>1, FrontAndLast
    <2>2. Len(front) = n
      BY <2>1, LenProperties
    <2>3. PICK line \in Seq(Pieces) : Args!IsLine(line) /\ Args!Line(line) = front
      BY <1>2, <2>2
    <2> DEFINE m == Len(line)
    <2>4. m \in Nat
      BY LenProperties
    <2>5. CASE line # <<>> /\ line[m].option \in Switches /\ line[m].value = Nothing
      <3>1. PICK start \in Seq(Pieces), piece \in Pieces : line = Append(start, piece)
        BY <2>5, FrontAndLast
      <3> DEFINE given == [piece EXCEPT !.value = last]
                 new == Append(start, given)
      <3>2. /\ given \in Pieces /\ given.value = last /\ given.typed = piece.typed
            /\ given.option = piece.option
        BY DEF Pieces
      <3>3. Len(start) \in Nat /\ m = Len(start) + 1 /\ line[m] = piece
            /\ \A i \in 1 .. Len(start) : line[i] = start[i] /\ i # m /\ i \in 1 .. m
            /\ m \in 1 .. m
        BY <3>1
      <3> HIDE DEF given
      <3>4. /\ new \in Seq(Pieces) /\ Len(new) = m /\ new[m] = given
            /\ \A i \in 1 .. Len(start) : new[i] = start[i]
        BY <3>2, <3>3
      <3>5. \A i \in 1 .. m : i \in 1 .. Len(start) \/ i = m
        BY <3>3
      <3> HIDE DEF new, m
      <3>6. Args!IsLine(new)
        <4>1. ASSUME NEW i \in 1 .. Len(start)
              PROVE  /\ new[i].option = OptionOf(new[i].typed)
                     /\ new[i].option \in Switches => i = m \/ new[i].value # Nothing
                     /\ new[i].option \notin Switches => new[i].value = Nothing
          BY <2>3, <3>3, <3>4 DEF Args!IsLine, m
        <4>2. /\ given.option = OptionOf(given.typed)
              /\ given.option \in Switches
          BY <2>3, <2>5, <3>2, <3>3 DEF Args!IsLine, m
        <4> QED
          BY <3>4, <3>5, <4>1, <4>2 DEF Args!IsLine
      <3>7. Args!Line(new) = args
        <4>1. /\ Args!Line(line) = Args!Line(start) \o Args!Arguments(piece)
              /\ Args!Line(new) = Args!Line(start) \o Args!Arguments(given)
          BY <3>1, <3>2, LineOneMore DEF new
        <4>2. Args!Arguments(piece) = <<piece.typed>>
          BY <2>5, <3>3 DEF Args!Arguments
        <4>3. Args!Arguments(given) = <<piece.typed, last>>
          <5>1. last # Nothing
            BY NothingAssumption
          <5> QED
            BY <3>2, <5>1 DEF Args!Arguments
        <4>4. Args!Line(start) \in Seq(AllStrings) /\ piece.typed \in AllStrings
          <5>1. piece.typed \in AllStrings
            BY <3>1 DEF Pieces
          <5>2. Len(start) \in 0 .. Len(start)
            BY <3>3
          <5> QED
            BY <5>1, <5>2, LinesSteps DEF Args!Line
        <4>5. ASSUME NEW l \in Seq(AllStrings), NEW a \in AllStrings, NEW b \in AllStrings
              PROVE  l \o <<a, b>> = Append(l \o <<a>>, b)
          OBVIOUS
        <4> QED
          BY <2>1, <2>3, <4>1, <4>2, <4>3, <4>4, <4>5
      <3> QED
        BY <3>4, <3>6, <3>7
    <2>6. CASE ~(line # <<>> /\ line[m].option \in Switches /\ line[m].value = Nothing)
      <3> DEFINE piece == [typed |-> last, option |-> OptionOf(last), value |-> Nothing]
                 new == Append(line, piece)
      <3>1. /\ piece \in Pieces /\ piece.typed = last /\ piece.option = OptionOf(last)
            /\ piece.value = Nothing
        BY OptionIsNamed DEF Pieces
      <3> HIDE DEF piece
      <3>2. /\ new \in Seq(Pieces) /\ Len(new) = m + 1 /\ new[m + 1] = piece
            /\ \A i \in 1 .. m : new[i] = line[i]
        BY <3>1
      <3>3. \A i \in 1 .. m + 1 : i \in 1 .. m \/ i = m + 1
        BY <2>4
      <3>4. \A i \in 1 .. m : line # <<>>
        BY <2>4
      <3> HIDE DEF new, m
      <3>5. Args!IsLine(new)
        <4>1. ASSUME NEW i \in 1 .. m
              PROVE  /\ new[i].option = OptionOf(new[i].typed)
                     /\ new[i].option \in Switches => new[i].value # Nothing
                     /\ new[i].option \notin Switches => new[i].value = Nothing
          BY <2>3, <2>6, <3>2, <3>4 DEF Args!IsLine, m
        <4> QED
          BY <3>1, <3>2, <3>3, <4>1 DEF Args!IsLine
      <3>6. Args!Line(new) = args
        <4>1. Args!Line(new) = front \o Args!Arguments(piece)
          BY <2>3, <3>1, LineOneMore DEF new
        <4>2. Args!Arguments(piece) = <<last>>
          BY <3>1 DEF Args!Arguments
        <4> QED
          BY <2>1, <4>1, <4>2
      <3> QED
        BY <3>2, <3>5, <3>6
    <2> QED
      BY <2>5, <2>6
  <1>3. \A n \in Nat : n \in S
    <2> HIDE DEF S
    <2> QED
      BY <1>1, <1>2, Induction
  <1> QED
    BY <1>3, LenProperties

-----------------------------------------------------------------------------
(* What the first n options of a line say. *)

Good(line, n) ==
  /\ \A i \in 1 .. n :
       /\ line[i].option \in Flags \cup Switches
       /\ line[i].option \in Switches => line[i].value # Nothing
  /\ \A i, j \in 1 .. n :
       i < j /\ line[i].option \in Switches /\ line[i].option = line[j].option =>
         line[i].value = ""

\* A flag is set when it is there, and a switch to its last value.
FlagFits(value, option, line, n) ==
  value = TRUE <=> \E i \in 1 .. n : line[i].option = option

SwitchFits(value, option, line, n) ==
  \/ /\ value = ""
     /\ \A i \in 1 .. n : line[i].option = option => line[i].value = ""
  \/ /\ value # ""
     /\ \E i \in 1 .. n :
          /\ line[i].option = option /\ line[i].value = value
          /\ \A j \in 1 .. n : line[j].option = option => j <= i

Fits(given, line, n) ==
  /\ given \in Settings
  /\ \A option \in Flags : FlagFits(given[option], option, line, n)
  /\ \A option \in Switches : SwitchFits(given[option], option, line, n)

\* The reader holds what the options say, or has complained, or waits at the end of
\* the line for the value that is missing.
ReadSoFar(line, n) ==
  IF Good(line, n)
  THEN \E given : Fits(given, line, n) /\ Reading(Args!Lines(line)[n]) = Reader(given, Nothing)
  ELSE \/ Reading(Args!Lines(line)[n]).refused
       \/ n = Len(line) /\ Reading(Args!Lines(line)[n]).awaiting # Nothing

\* The numbers up to n + 1 are those up to n, and n + 1 after all of them.
LEMMA OneMore ==
  ASSUME NEW n \in Nat
  PROVE  /\ \A i : i \in 1 .. n + 1 <=> i \in 1 .. n \/ i = n + 1
         /\ \A i \in 1 .. n + 1 : i <= n + 1
         /\ \A i \in 1 .. n : i < n + 1 /\ ~(n + 1 < i)
         /\ ~(n + 1 < n + 1)
  OBVIOUS

\* An option that is not the next is as before.
LEMMA FitsStay ==
  ASSUME NEW line, NEW n \in Nat, NEW option, option # line[n + 1].option, NEW value
  PROVE  /\ FlagFits(value, option, line, n) => FlagFits(value, option, line, n + 1)
         /\ SwitchFits(value, option, line, n) => SwitchFits(value, option, line, n + 1)
  <1>1. \A i : i \in 1 .. n + 1 <=> i \in 1 .. n \/ i = n + 1
    BY OneMore
  <1>2. FlagFits(value, option, line, n) => FlagFits(value, option, line, n + 1)
    BY <1>1, Zenon DEF FlagFits
  <1>3. ASSUME SwitchFits(value, option, line, n) PROVE SwitchFits(value, option, line, n + 1)
    <2>1. CASE value = ""
      BY <1>1, <1>3, <2>1, Zenon DEF SwitchFits
    <2>2. CASE value # ""
      <3>1. PICK i \in 1 .. n :
              /\ line[i].option = option /\ line[i].value = value
              /\ \A j \in 1 .. n : line[j].option = option => j <= i
        BY <1>3, <2>2, Zenon DEF SwitchFits
      <3>2. i \in 1 .. n + 1 /\ \A j \in 1 .. n + 1 : line[j].option = option => j <= i
        BY <1>1, <3>1, Zenon
      <3> QED
        BY <2>2, <3>1, <3>2, Zenon DEF SwitchFits
    <2> QED
      BY <2>1, <2>2
  <1> QED
    BY <1>2, <1>3

\* A line stays good when its next option is one, and repeats no switch with a value.
LEMMA GoodStep ==
  ASSUME NEW line \in CommandLines, NEW n \in Nat, n < Len(line)
  PROVE  Good(line, n + 1) <=>
           /\ Good(line, n)
           /\ line[n + 1].option \in Flags \cup Switches
           /\ line[n + 1].option \in Switches =>
                /\ line[n + 1].value # Nothing
                /\ \A i \in 1 .. n : line[i].option = line[n + 1].option => line[i].value = ""
  <1> DEFINE All(i) == /\ line[i].option \in Flags \cup Switches
                       /\ line[i].option \in Switches => line[i].value # Nothing
             Pair(i, j) == line[i].option \in Switches /\ line[i].option = line[j].option =>
                             line[i].value = ""
  <1>1. \A m : Good(line, m) <=> /\ \A i \in 1 .. m : All(i)
                                 /\ \A i, j \in 1 .. m : i < j => Pair(i, j)
    BY DEF Good
  <1> SUFFICES Good(line, n + 1) <=> /\ Good(line, n) /\ All(n + 1)
                                     /\ \A i \in 1 .. n : Pair(i, n + 1)
    OBVIOUS
  <1> HIDE DEF All, Pair
  <1>2. (\A i \in 1 .. n + 1 : All(i)) <=> (\A i \in 1 .. n : All(i)) /\ All(n + 1)
    BY OneMore
  <1>3. (\A i, j \in 1 .. n + 1 : i < j => Pair(i, j))
          <=> (\A i, j \in 1 .. n : i < j => Pair(i, j)) /\ \A i \in 1 .. n : Pair(i, n + 1)
    BY OneMore
  <1> QED
    BY <1>1, <1>2, <1>3

\* The defaults fit a line of which nothing has been read.
LEMMA FitsNone == ASSUME NEW line PROVE Fits(Args!Defaults, line, 0)
  <1>1. Args!Defaults \in [Flags \cup Switches -> BOOLEAN \cup AllStrings]
    BY NothingAssumption DEF Args!Defaults
  <1>2. /\ \A option \in Flags : Args!Defaults[option] = FALSE
        /\ \A option \in Switches : Args!Defaults[option] = ""
    BY Options DEF Args!Defaults
  <1>3. Args!Defaults \in Settings
    BY <1>1, <1>2, NothingAssumption, SettingsType
  <1>4. \A i \in 1 .. 0 : FALSE
    OBVIOUS
  <1>5. \A option : FlagFits(FALSE, option, line, 0) /\ SwitchFits("", option, line, 0)
    BY <1>4 DEF FlagFits, SwitchFits
  <1> QED
    BY <1>2, <1>3, <1>5 DEF Fits

\* Setting the flag that comes next keeps the settings fitting.
LEMMA FitsFlag ==
  ASSUME NEW line, NEW n \in Nat, NEW given, Fits(given, line, n), line[n + 1].option \in Flags
  PROVE  Fits([given EXCEPT ![line[n + 1].option] = TRUE], line, n + 1)
  <1> DEFINE o == line[n + 1].option
             new == [given EXCEPT ![o] = TRUE]
  <1>1. o \in Flags /\ o \notin Switches /\ line[n + 1].option = o
    BY Options
  <1>2. given \in Settings
    BY DEF Fits
  <1> HIDE DEF o
  <1>3. /\ new[o] = TRUE
        /\ \A option \in (Flags \cup Switches) \ {o} : new[option] = given[option]
    BY <1>1, <1>2, SettingsFields
  <1>4. new \in Settings
    <2>1. new \in [Flags \cup Switches -> BOOLEAN \cup AllStrings]
      BY <1>1, <1>2, SettingsFields
    <2>2. /\ \A option \in Flags : new[option] \in BOOLEAN
          /\ \A option \in Switches : new[option] \in AllStrings
      BY <1>1, <1>2, <1>3, SettingsFields
    <2> QED
      BY <2>1, <2>2, SettingsType
  <1> HIDE DEF new
  <1>5. FlagFits(TRUE, o, line, n + 1)
    BY <1>1, OneMore DEF FlagFits
  <1>6. ASSUME NEW option \in Flags PROVE FlagFits(new[option], option, line, n + 1)
    <2>1. CASE option = o
      BY <1>3, <1>5, <2>1
    <2>2. CASE option # o
      BY <1>1, <1>3, <2>2, FitsStay DEF Fits
    <2> QED
      BY <2>1, <2>2
  <1>7. ASSUME NEW option \in Switches PROVE SwitchFits(new[option], option, line, n + 1)
    BY <1>1, <1>3, FitsStay DEF Fits
  <1> QED
    BY <1>4, <1>6, <1>7 DEF Fits, new, o

\* So does giving the switch that comes next its value.
LEMMA FitsSwitch ==
  ASSUME NEW line, NEW n \in Nat, NEW given, Fits(given, line, n),
         line[n + 1].option \in Switches, line[n + 1].value \in AllStrings,
         given[line[n + 1].option] = ""
  PROVE  Fits([given EXCEPT ![line[n + 1].option] = line[n + 1].value], line, n + 1)
  <1> DEFINE o == line[n + 1].option
             v == line[n + 1].value
             new == [given EXCEPT ![o] = v]
  <1>1. /\ o \in Switches /\ o \notin Flags /\ v \in AllStrings
        /\ line[n + 1].option = o /\ line[n + 1].value = v
    BY Options
  <1>2. given \in Settings /\ given[o] = ""
    BY DEF Fits
  <1> HIDE DEF o, v
  <1>3. /\ new[o] = v
        /\ \A option \in (Flags \cup Switches) \ {o} : new[option] = given[option]
    BY <1>1, <1>2, SettingsFields
  <1>4. new \in Settings
    <2>1. new \in [Flags \cup Switches -> BOOLEAN \cup AllStrings]
      BY <1>1, <1>2, SettingsFields
    <2>2. /\ \A option \in Flags : new[option] \in BOOLEAN
          /\ \A option \in Switches : new[option] \in AllStrings
      BY <1>1, <1>2, <1>3, SettingsFields
    <2> QED
      BY <2>1, <2>2, SettingsType
  <1> HIDE DEF new
  <1>5. SwitchFits(v, o, line, n + 1)
    <2>1. \A i \in 1 .. n : line[i].option = o => line[i].value = ""
      BY <1>1, <1>2 DEF Fits, SwitchFits
    <2>2. CASE v = ""
      BY <1>1, <2>1, <2>2, OneMore DEF SwitchFits
    <2>3. CASE v # ""
      <3>1. n + 1 \in 1 .. n + 1 /\ \A j \in 1 .. n + 1 : j <= n + 1
        BY OneMore
      <3> QED
        BY <1>1, <2>3, <3>1, Zenon DEF SwitchFits
    <2> QED
      BY <2>2, <2>3
  <1>6. ASSUME NEW option \in Flags PROVE FlagFits(new[option], option, line, n + 1)
    BY <1>1, <1>3, FitsStay DEF Fits
  <1>7. ASSUME NEW option \in Switches PROVE SwitchFits(new[option], option, line, n + 1)
    <2>1. CASE option = o
      BY <1>3, <1>5, <2>1
    <2>2. CASE option # o
      BY <1>1, <1>3, <2>2, FitsStay DEF Fits
    <2> QED
      BY <2>1, <2>2
  <1> QED
    BY <1>4, <1>6, <1>7 DEF Fits, new, o, v

(* Nothing has been read at first, and each option is read as it says.         *)
LEMMA ReadNothing == ASSUME NEW line \in CommandLines PROVE ReadSoFar(line, 0)
  <1>1. Args!Lines(line)[0] = <<>> /\ <<>> \in Seq(AllStrings) /\ Len(<<>>) = 0
    BY LinePieces, LinesSteps, EmptySeq
  <1>2. Args!Readers(<<>>)[0] = Args!Start
    BY <1>1, ReadersSteps
  <1>3. Reading(Args!Lines(line)[0]) = Reader(Args!Defaults, Nothing)
    BY <1>1, <1>2 DEF Reading, Args!Start, Reader
  <1>4. Good(line, 0)
    <2>1. \A i \in 1 .. 0 : FALSE
      OBVIOUS
    <2> QED
      BY <2>1 DEF Good
  <1> QED
    BY <1>3, <1>4, FitsNone DEF ReadSoFar

\* The next option is read as it says, by the lemmas about single arguments.
LEMMA ReadStep ==
  ASSUME NEW line \in CommandLines, NEW n \in Nat, n < Len(line), ReadSoFar(line, n)
  PROVE  ReadSoFar(line, n + 1)
  <1> DEFINE piece == line[n + 1]
             old == Reading(Args!Lines(line)[n])
             new == Reading(Args!Lines(line)[n + 1])
  <1>1. /\ Len(line) \in Nat /\ n + 1 \in 1 .. Len(line) /\ n \in 0 .. Len(line)
        /\ n + 1 - 1 = n /\ n # Len(line)
    BY LinePieces
  <1>2. /\ piece \in Pieces
        /\ piece.option = OptionOf(piece.typed)
        /\ piece.option \in Switches => n + 1 = Len(line) \/ piece.value # Nothing
        /\ piece.option \notin Switches => piece.value = Nothing
    BY <1>1, LinePieces
  <1>3. piece.value = Nothing \/ piece.value \in AllStrings
    BY <1>2 DEF Pieces
  <1>4. Args!Lines(line)[n] \in Seq(AllStrings)
    BY <1>1, LinePieces, LinesSteps
  <1>5. Args!Lines(line)[n + 1] = Args!Lines(line)[n] \o Args!Arguments(piece)
    <2> DEFINE lines == Args!Lines(line)
               Longer(l, i) == l \o Args!Arguments(line[i])
    <2>1. \A i \in 1 .. Len(line) : lines[i] = Longer(lines[i - 1], i)
      BY LinePieces, LinesSteps
    <2> HIDE DEF lines, Longer
    <2>2. lines[n + 1] = Longer(lines[n], n + 1)
      BY <1>1, <2>1
    <2> QED
      BY <2>2 DEF lines, Longer
  <1>6. /\ piece.value = Nothing => new = Args!ReadOn(old, piece.typed)
        /\ piece.value # Nothing => new = Args!ReadOn(Args!ReadOn(old, piece.typed), piece.value)
    BY <1>2, <1>4, <1>5, PieceRead
  <1>7. Good(line, n + 1) <=>
          /\ Good(line, n)
          /\ piece.option \in Flags \cup Switches
          /\ piece.option \in Switches =>
               /\ piece.value # Nothing
               /\ \A i \in 1 .. n : line[i].option = piece.option => line[i].value = ""
    BY GoodStep
  <1> HIDE DEF old, new
  <1>8. CASE ~Good(line, n)
    <2>1. old.refused
      BY <1>1, <1>8 DEF ReadSoFar, old
    <2>2. new.refused
      BY <1>6, <2>1, ReadNoMore
    <2>3. ~Good(line, n + 1)
      BY <1>7, <1>8
    <2> QED
      BY <2>2, <2>3 DEF ReadSoFar, new
  <1>9. CASE Good(line, n)
    <2>1. PICK given : Fits(given, line, n) /\ old = Reader(given, Nothing)
      BY <1>9 DEF ReadSoFar, old
    <2>2. given \in Settings
      BY <2>1 DEF Fits
    <2>3. CASE piece.option \in Flags
      <3>1. piece.value = Nothing
        BY <1>2, <2>3, Options
      <3>2. new = Reader([given EXCEPT ![piece.option] = TRUE], Nothing)
        BY <1>2, <1>6, <2>1, <2>2, <2>3, <3>1, ReadFlag
      <3>3. Fits([given EXCEPT ![piece.option] = TRUE], line, n + 1)
        BY <2>1, <2>3, FitsFlag
      <3>4. Good(line, n + 1)
        BY <1>7, <1>9, <2>3, Options
      <3> QED
        BY <3>2, <3>3, <3>4 DEF ReadSoFar, new
    <2>4. CASE piece.option \in Switches /\ given[piece.option] = ""
      <3>1. Args!ReadOn(old, piece.typed) = Reader(given, piece.option)
        BY <1>2, <2>1, <2>2, <2>4, ReadSwitch
      <3>2. CASE piece.value = Nothing
        <4>1. new.awaiting # Nothing
          <5>1. new = Reader(given, piece.option)
            BY <1>6, <3>1, <3>2
          <5>2. piece.option # Nothing
            BY <2>4, Options
          <5> QED
            BY <5>1, <5>2 DEF Reader
        <4>2. ~Good(line, n + 1) /\ n + 1 = Len(line)
          BY <1>2, <1>7, <2>4, <3>2
        <4> QED
          BY <4>1, <4>2 DEF ReadSoFar, new
      <3>3. CASE piece.value # Nothing
        <4>1. new = Reader([given EXCEPT ![piece.option] = piece.value], Nothing)
          BY <1>6, <2>2, <2>4, <3>1, <3>3, ReadValue
        <4>2. Fits([given EXCEPT ![piece.option] = piece.value], line, n + 1)
          BY <1>3, <2>1, <2>4, <3>3, FitsSwitch
        <4>3. \A i \in 1 .. n : line[i].option = piece.option => line[i].value = ""
          BY <2>1, <2>4 DEF Fits, SwitchFits
        <4>4. Good(line, n + 1)
          BY <1>7, <1>9, <2>4, <3>3, <4>3
        <4> QED
          BY <4>1, <4>2, <4>4 DEF ReadSoFar, new
      <3> QED
        BY <3>2, <3>3
    <2>5. CASE piece.option \in Switches /\ given[piece.option] # ""
      <3>1. Args!ReadOn(old, piece.typed).refused
        BY <1>2, <2>1, <2>2, <2>5, Options, ReadOther
      <3>2. new.refused
        BY <1>6, <3>1, ReadNoMore
      <3>3. \E i \in 1 .. n : line[i].option = piece.option /\ line[i].value # ""
        BY <2>1, <2>5 DEF Fits, SwitchFits
      <3>4. ~Good(line, n + 1)
        BY <1>7, <2>5, <3>3
      <3> QED
        BY <3>2, <3>4 DEF ReadSoFar, new
    <2>6. CASE piece.option \notin Flags \cup Switches
      <3>1. Args!ReadOn(old, piece.typed).refused
        BY <1>2, <2>1, <2>2, <2>6, ReadOther
      <3>2. new.refused
        BY <1>6, <3>1, ReadNoMore
      <3>3. ~Good(line, n + 1)
        BY <1>7, <2>6
      <3> QED
        BY <3>2, <3>3 DEF ReadSoFar, new
    <2> QED
      BY <2>3, <2>4, <2>5, <2>6
  <1> QED
    BY <1>8, <1>9

(* So the whole line is read as all of its options say.                        *)
LEMMA ReadAll == ASSUME NEW line \in CommandLines PROVE ReadSoFar(line, Len(line))
  <1> DEFINE S == {n \in Nat : n <= Len(line) => ReadSoFar(line, n)}
  <1>1. Len(line) \in Nat
    BY LinePieces
  <1>2. 0 \in S
    BY ReadNothing
  <1>3. ASSUME NEW n \in Nat, n \in S PROVE n + 1 \in S
    <2> SUFFICES ASSUME n + 1 <= Len(line) PROVE ReadSoFar(line, n + 1)
      OBVIOUS
    <2>1. n < Len(line) /\ ReadSoFar(line, n)
      BY <1>1, <1>3
    <2> QED
      BY <2>1, ReadStep
  <1>4. \A n \in Nat : n \in S
    <2> HIDE DEF S
    <2> QED
      BY <1>2, <1>3, Induction
  <1> QED
    BY <1>1, <1>4

\* All of a line is well-formed exactly when its settings can be told.
LEMMA GoodIsWellFormed ==
  ASSUME NEW line \in CommandLines
  PROVE  Good(line, Len(line)) <=> Args!WellFormed(line)
  <1>1. ASSUME Good(line, Len(line)) PROVE Args!WellFormed(line)
    BY <1>1 DEF Good, Args!WellFormed, Args!Given
  <1>2. ASSUME Args!WellFormed(line) PROVE Good(line, Len(line))
    BY <1>2 DEF Good, Args!WellFormed, Args!Given
  <1> QED
    BY <1>1, <1>2

(* The settings that fit a line are those that it means.                       *)
LEMMA FittingSettings ==
  ASSUME NEW line \in CommandLines, NEW given, Fits(given, line, Len(line))
  PROVE  given = Args!SettingsOf(line)
  <1>1. given \in [Flags \cup Switches -> BOOLEAN \cup AllStrings] /\ Len(line) \in Nat
    BY SettingsFields, LinePieces DEF Fits
  <1>2. ASSUME NEW option \in Flags PROVE given[option] = (Args!Given(line, option) # {})
    <2>1. given[option] \in BOOLEAN
      BY SettingsFields DEF Fits
    <2>2. given[option] = TRUE <=> \E i \in 1 .. Len(line) : line[i].option = option
      BY DEF Fits, FlagFits
    <2>3. (Args!Given(line, option) # {}) <=> \E i \in 1 .. Len(line) : line[i].option = option
      BY DEF Args!Given
    <2> QED
      BY <2>1, <2>2, <2>3
  <1>3. ASSUME NEW option \in Switches
        PROVE  given[option] = IF Args!Given(line, option) = {} THEN "" ELSE Args!LastValue(line, option)
    <2> DEFINE G == Args!Given(line, option)
    <2>0. SwitchFits(given[option], option, line, Len(line))
      BY DEF Fits
    <2>1. G \subseteq 1 .. Len(line) /\ \A i \in 1 .. Len(line) : i \in G <=> line[i].option = option
      BY DEF Args!Given
    <2>2. CASE G = {}
      <3>1. given[option] = ""
        BY <2>0, <2>1, <2>2 DEF SwitchFits
      <3> QED
        BY <2>2, <3>1, Zenon
    <2>3. CASE G # {}
      <3> DEFINE last == CHOOSE i \in G : \A j \in G : j <= i
      <3>1. Args!LastValue(line, option) = line[last].value
        BY DEF Args!LastValue
      <3> HIDE DEF G
      <3>2. \E i \in G : \A j \in G : j <= i
        BY <1>1, <2>1, <2>3, GreatestNumber
      <3>3. last \in G /\ \A j \in G : j <= last
        BY <3>2
      <3> HIDE DEF last
      <3>4. given[option] = line[last].value
        <4>1. CASE given[option] = ""
          BY <2>0, <2>1, <3>3, <4>1 DEF SwitchFits
        <4>2. CASE given[option] # ""
          <5>1. PICK i \in 1 .. Len(line) :
                  /\ line[i].option = option /\ line[i].value = given[option]
                  /\ \A j \in 1 .. Len(line) : line[j].option = option => j <= i
            BY <2>0, <4>2 DEF SwitchFits
          <5>2. i \in G /\ i <= last /\ last <= i /\ last \in 1 .. Len(line)
            BY <2>1, <3>3, <5>1
          <5>3. i = last
            BY <1>1, <5>2
          <5> QED
            BY <5>1, <5>3
        <4> QED
          BY <4>1, <4>2
      <3> QED
        BY <2>3, <3>1, <3>4, Zenon DEF G
    <2> QED
      BY <2>2, <2>3
  <1> DEFINE Meant(option) ==
               IF option \in Flags THEN Args!Given(line, option) # {}
               ELSE IF Args!Given(line, option) = {} THEN "" ELSE Args!LastValue(line, option)
  <1>4. Args!SettingsOf(line) = [option \in Flags \cup Switches |-> Meant(option)]
    BY DEF Args!SettingsOf
  <1>5. \A option \in Flags \cup Switches : given[option] = Meant(option)
    BY <1>2, <1>3, Options
  <1> HIDE DEF Meant
  <1> QED
    BY <1>1, <1>4, <1>5

(* The parser understands every line: it refuses what is not well-formed, and  *)
(* of the rest it makes the settings that the options and values mean.         *)
LEMMA ParseIsMeaning ==
  ASSUME NEW line \in CommandLines
  PROVE  /\ Args!Parse(Args!Line(line)) = Args!MeaningOf(line)
         /\ Args!MeaningOf(line) = Nothing \/ Args!MeaningOf(line) \in Settings
  <1>1. Args!Line(line) = Args!Lines(line)[Len(line)]
    BY DEF Args!Line
  <1> DEFINE end == Reading(Args!Lines(line)[Len(line)])
  <1>2. Args!Parse(Args!Line(line))
          = IF end.refused \/ end.awaiting # Nothing THEN Nothing ELSE end.settings
    BY <1>1 DEF Args!Parse, Reading
  <1> HIDE DEF end
  <1>3. CASE Good(line, Len(line))
    <2>1. PICK given : Fits(given, line, Len(line)) /\ end = Reader(given, Nothing)
      BY <1>3, ReadAll DEF ReadSoFar, end
    <2>2. Args!Parse(Args!Line(line)) = given
      BY <1>2, <2>1 DEF Reader
    <2>3. given = Args!SettingsOf(line)
      BY <2>1, FittingSettings
    <2>4. given \in Settings
      BY <2>1 DEF Fits
    <2> QED
      BY <1>3, <2>2, <2>3, <2>4, GoodIsWellFormed DEF Args!MeaningOf
  <1>4. CASE ~Good(line, Len(line))
    <2>1. end.refused \/ end.awaiting # Nothing
      BY <1>4, ReadAll DEF ReadSoFar, end
    <2> QED
      BY <1>2, <1>4, <2>1, GoodIsWellFormed DEF Args!MeaningOf
  <1> QED
    BY <1>3, <1>4

\* Only a line without options has no arguments.
LEMMA EmptyLine == ASSUME NEW line \in CommandLines PROVE Args!Line(line) = <<>> <=> line = <<>>
  <1>1. line \in Seq(Pieces) /\ Len(line) \in Nat
    BY LinePieces
  <1>2. ASSUME line = <<>> PROVE Args!Line(line) = <<>>
    <2>1. Len(line) = 0
      BY <1>2
    <2> QED
      BY <1>1, <2>1, LinesSteps DEF Args!Line
  <1>3. ASSUME line # <<>> PROVE Args!Line(line) # <<>>
    <2> DEFINE n == Len(line)
               start == Args!Lines(line)[n - 1]
               end == Args!Arguments(line[n])
    <2>1. n \in 1 .. Len(line) /\ n - 1 \in 0 .. Len(line)
      BY <1>1, <1>3, EmptySeq
    <2>2. Args!Line(line) = start \o end
      BY <1>1, <2>1, LinesSteps DEF Args!Line
    <2>3. start \in Seq(AllStrings)
      BY <1>1, <2>1, LinesSteps
    <2>4. line[n] \in Pieces
      BY <2>1, LinePieces
    <2>5. end \in Seq(AllStrings) /\ end # <<>>
      <3>1. line[n].typed \in AllStrings /\ (line[n].value = Nothing \/ line[n].value \in AllStrings)
        BY <2>4 DEF Pieces
      <3> QED
        BY <3>1 DEF Args!Arguments
    <2> HIDE DEF start, end
    <2> QED
      BY <2>2, <2>3, <2>5, ConcatEqualIffEmpty
  <1> QED
    BY <1>2, <1>3

\* What the program makes of a line.
Understood(line) ==
  LET meaning == Args!MeaningOf(line)
  IN  IF \/ meaning = Nothing
         \/ line # <<>> /\ ~meaning.help /\ "" \in {meaning.product, meaning.accountId}
      THEN Nothing
      ELSE [meaning EXCEPT !.help = @ \/ line = <<>>]

(* A line is refused when it means nothing, or needs a product or an account   *)
(* that is missing; no option at all asks for help.                            *)
LEMMA LineUnderstood ==
  ASSUME NEW line \in CommandLines
  PROVE  /\ ParseArguments(Args!Line(line)) = Understood(line)
         /\ Understood(line) # Nothing =>
              /\ Args!MeaningOf(line) \in Settings
              /\ Understood(line) = [Args!MeaningOf(line) EXCEPT !.help = @ \/ line = <<>>]
  <1> DEFINE meaning == Args!MeaningOf(line)
             given == [meaning EXCEPT !.help = @ \/ line = <<>>]
  <1>1. Args!Parse(Args!Line(line)) = meaning /\ (meaning = Nothing \/ meaning \in Settings)
    BY ParseIsMeaning
  <1>2. Args!Line(line) = <<>> <=> line = <<>>
    BY EmptyLine
  <1>3. ParseArguments(Args!Line(line))
          = IF meaning = Nothing THEN Nothing
            ELSE IF ~given.help /\ "" \in {given.product, given.accountId} THEN Nothing ELSE given
    BY <1>1, <1>2 DEF ParseArguments
  <1>4. Understood(line)
          = IF \/ meaning = Nothing
               \/ line # <<>> /\ ~meaning.help /\ "" \in {meaning.product, meaning.accountId}
            THEN Nothing ELSE given
    BY DEF Understood
  <1> HIDE DEF meaning
  <1>5. CASE meaning = Nothing
    BY <1>3, <1>4, <1>5
  <1>6. CASE meaning \in Settings /\ meaning # Nothing
    <2>1. /\ given.help <=> (meaning.help \/ line = <<>>)
          /\ given.product = meaning.product /\ given.accountId = meaning.accountId
      BY <1>6 DEF Settings
    <2> HIDE DEF given
    <2>2. ParseArguments(Args!Line(line)) = Understood(line)
      <3>1. (~given.help /\ "" \in {given.product, given.accountId})
              <=> (line # <<>> /\ ~meaning.help /\ "" \in {meaning.product, meaning.accountId})
        BY <2>1, Zenon
      <3>2. CASE ~given.help /\ "" \in {given.product, given.accountId}
        <4>1. ParseArguments(Args!Line(line)) = Nothing
          BY <1>3, <1>6, <3>2, Zenon
        <4>2. Understood(line) = Nothing
          BY <1>4, <3>1, <3>2, Zenon
        <4> QED
          BY <4>1, <4>2
      <3>3. CASE ~(~given.help /\ "" \in {given.product, given.accountId})
        <4>1. ParseArguments(Args!Line(line)) = given
          BY <1>3, <1>6, <3>3, Zenon
        <4>2. Understood(line) = given
          <5>1. ~(\/ meaning = Nothing
                  \/ line # <<>> /\ ~meaning.help /\ "" \in {meaning.product, meaning.accountId})
            BY <1>6, <3>1, <3>3, Zenon
          <5> QED
            BY <1>4, <5>1
        <4> QED
          BY <4>1, <4>2
      <3> QED
        BY <3>2, <3>3
    <2>3. Understood(line) # Nothing => Understood(line) = given
      BY <1>4
    <2> QED
      BY <1>6, <2>2, <2>3 DEF given, meaning
  <1> QED
    BY <1>1, <1>5, <1>6 DEF meaning

-----------------------------------------------------------------------------
(* The JSON of a content, read as the library reads the service's.             *)

\* The identity of a content is read back as it was.
LEMMA IdIsRead ==
  ASSUME NEW id \in ContentIds
  PROVE  /\ ContentIdToJson(id).kind = "object"
         /\ IsContentId(ContentIdToJson(id))
         /\ ContentIdOf(ContentIdToJson(id)) = id
  BY DEF ContentIds, ContentIdToJson, IsContentId, HasStrings, Has, ContentIdOf, Text,
         JsonObject, JsonString

\* The hashes of a file are read back, whichever types there are.
LEMMA HashesAreRead ==
  ASSUME NEW hashes \in HashMaps
  PROVE  /\ HashesToJson(hashes).kind = "object"
         /\ HasStrings(HashesToJson(hashes), DOMAIN HashesToJson(hashes).members)
         /\ [name \in DOMAIN HashesToJson(hashes).members |->
               HashesToJson(hashes).members[name].text] = hashes
  <1> DEFINE members == [type \in DOMAIN hashes |-> JsonString(hashes[type])]
  <1>1. hashes = [type \in DOMAIN hashes |-> hashes[type]]
    BY DEF HashMaps
  <1>2. HashesToJson(hashes).kind = "object" /\ HashesToJson(hashes).members = members
    BY DEF HashesToJson, JsonObject
  <1>3. /\ DOMAIN members = DOMAIN hashes
        /\ \A name \in DOMAIN hashes : members[name].kind = "string" /\ members[name].text = hashes[name]
    BY DEF JsonString
  <1> HIDE DEF members
  <1>4. HasStrings(HashesToJson(hashes), DOMAIN members)
    BY <1>2, <1>3 DEF HasStrings, Has
  <1>5. [name \in DOMAIN members |-> members[name].text] = hashes
    BY <1>1, <1>3
  <1> QED
    BY <1>2, <1>4, <1>5

\* Strings are read back in their order.
LEMMA StringsAreRead ==
  ASSUME NEW S, NEW texts \in Seq(S)
  PROVE  /\ Strings(texts).kind = "array"
         /\ \A i \in DOMAIN Strings(texts).elements : Strings(texts).elements[i].kind = "string"
         /\ [i \in DOMAIN Strings(texts).elements |-> Strings(texts).elements[i].text] = texts
  <1> DEFINE elements == [i \in DOMAIN texts |-> JsonString(texts[i])]
  <1>1. texts = [i \in DOMAIN texts |-> texts[i]]
    BY LenProperties
  <1>2. Strings(texts).kind = "array" /\ Strings(texts).elements = elements
    BY DEF Strings, JsonArray
  <1>3. /\ DOMAIN elements = DOMAIN texts
        /\ \A i \in DOMAIN texts : elements[i].kind = "string" /\ elements[i].text = texts[i]
    BY DEF JsonString
  <1> HIDE DEF elements
  <1>4. [i \in DOMAIN elements |-> elements[i].text] = texts
    BY <1>1, <1>3
  <1> QED
    BY <1>2, <1>3, <1>4

\* A file is read back with all it says,
LEMMA FileIsRead ==
  ASSUME NEW f \in Files
  PROVE  IsFile(FileToJson(f)) /\ FileOf(FileToJson(f)) = f
  <1> DEFINE members == [FileId      |-> JsonString(f.fileId),
                         Url         |-> JsonString(f.url),
                         SizeInBytes |-> JsonUnsigned(f.sizeInBytes),
                         Hashes      |-> HashesToJson(f.hashes)]
  <1>1. /\ f.hashes \in HashMaps
        /\ f = [type |-> "Generic", fileId |-> f.fileId, url |-> f.url,
                sizeInBytes |-> f.sizeInBytes, hashes |-> f.hashes]
    BY DEF Files
  <1>2. FileToJson(f) = [kind |-> "object", members |-> members]
    BY DEF FileToJson, JsonObject
  <1>3. /\ DOMAIN members = {"FileId", "Url", "SizeInBytes", "Hashes"}
        /\ members["FileId"].kind = "string" /\ members["FileId"].text = f.fileId
        /\ members["Url"].kind = "string" /\ members["Url"].text = f.url
        /\ members["SizeInBytes"].kind = "unsigned" /\ members["SizeInBytes"].number = f.sizeInBytes
        /\ members["Hashes"] = HashesToJson(f.hashes)
    BY DEF JsonString, JsonUnsigned
  <1> HIDE DEF members
  <1>4. FileToJson(f).kind = "object" /\ FileToJson(f).members = members
    BY <1>2
  <1>5. IsFile(FileToJson(f))
    BY <1>1, <1>3, <1>4, HashesAreRead DEF IsFile, Has, HasStrings
  <1>6. FileOf(FileToJson(f))
          = [type |-> "Generic", fileId |-> f.fileId, url |-> f.url, sizeInBytes |-> f.sizeInBytes,
             hashes |-> [name \in DOMAIN members["Hashes"].members |-> members["Hashes"].members[name].text]]
    BY <1>3, <1>4 DEF FileOf, Text
  <1>7. [name \in DOMAIN members["Hashes"].members |-> members["Hashes"].members[name].text] = f.hashes
    BY <1>1, <1>3, HashesAreRead
  <1> QED
    BY <1>1, <1>5, <1>6, <1>7

\* and so is the file of an app, with its details.
LEMMA AppFileIsRead ==
  ASSUME NEW f \in AppFiles
  PROVE  IsFile(AppFileToJson(f)) /\ FileOf(AppFileToJson(f)) = f
  <1> DEFINE members == [FileId               |-> JsonString(f.fileId),
                         Url                  |-> JsonString(f.url),
                         SizeInBytes          |-> JsonUnsigned(f.sizeInBytes),
                         FileMoniker          |-> JsonString(f.fileMoniker),
                         Hashes               |-> HashesToJson(f.hashes),
                         ApplicabilityDetails |-> DetailsToJson(f.architectures, f.platforms)]
             details == DetailsToJson(f.architectures, f.platforms)
  <1>1. /\ f.hashes \in HashMaps
        /\ f.architectures \in Seq(Architectures) /\ f.platforms \in Seq(AllStrings)
        /\ f = [type |-> "App", fileId |-> f.fileId, url |-> f.url,
                sizeInBytes |-> f.sizeInBytes, hashes |-> f.hashes,
                fileMoniker |-> f.fileMoniker, architectures |-> f.architectures,
                platforms |-> f.platforms]
    BY DEF AppFiles
  <1>2. AppFileToJson(f) = [kind |-> "object", members |-> members]
    BY DEF AppFileToJson, JsonObject
  <1>3. /\ DOMAIN members = {"FileId", "Url", "SizeInBytes", "FileMoniker", "Hashes", "ApplicabilityDetails"}
        /\ members["FileId"].kind = "string" /\ members["FileId"].text = f.fileId
        /\ members["Url"].kind = "string" /\ members["Url"].text = f.url
        /\ members["SizeInBytes"].kind = "unsigned" /\ members["SizeInBytes"].number = f.sizeInBytes
        /\ members["FileMoniker"].kind = "string" /\ members["FileMoniker"].text = f.fileMoniker
        /\ members["Hashes"] = HashesToJson(f.hashes)
        /\ members["ApplicabilityDetails"] = details
    BY DEF JsonString, JsonUnsigned
  <1>4. /\ details.kind = "object"
        /\ DOMAIN details.members = {"Architectures", "PlatformApplicabilityForPackage"}
        /\ details.members["Architectures"] = Strings(f.architectures)
        /\ details.members["PlatformApplicabilityForPackage"] = Strings(f.platforms)
    BY DEF DetailsToJson, JsonObject
  <1> HIDE DEF members, details
  <1>5. AppFileToJson(f).kind = "object" /\ AppFileToJson(f).members = members
    BY <1>2
  <1>6. IsApplicabilityDetails(details)
    <2>1. HasStringArray(details, "Architectures")
      BY <1>1, <1>4, StringsAreRead DEF HasStringArray, Has, Elements
    <2>2. HasStringArray(details, "PlatformApplicabilityForPackage")
      BY <1>1, <1>4, StringsAreRead DEF HasStringArray, Has, Elements
    <2> QED
      BY <1>4, <2>1, <2>2 DEF IsApplicabilityDetails
  <1>7. IsFile(AppFileToJson(f))
    BY <1>1, <1>3, <1>5, <1>6, HashesAreRead DEF IsFile, Has, HasStrings
  <1>8. /\ Texts(details, "Architectures") = f.architectures
        /\ Texts(details, "PlatformApplicabilityForPackage") = f.platforms
    BY <1>1, <1>4, StringsAreRead DEF Texts, Elements
  <1>9. FileOf(AppFileToJson(f))
          = [type |-> "App", fileId |-> f.fileId, url |-> f.url, sizeInBytes |-> f.sizeInBytes,
             hashes |-> [name \in DOMAIN members["Hashes"].members |-> members["Hashes"].members[name].text],
             fileMoniker |-> f.fileMoniker,
             architectures |-> Texts(details, "Architectures"),
             platforms |-> Texts(details, "PlatformApplicabilityForPackage")]
    BY <1>3, <1>5 DEF FileOf, Text
  <1>10. [name \in DOMAIN members["Hashes"].members |-> members["Hashes"].members[name].text] = f.hashes
    BY <1>1, <1>3, HashesAreRead
  <1> QED
    BY <1>1, <1>7, <1>8, <1>9, <1>10

\* All files of a content are of the same type, and are read back in their order.
LEMMA FilesAreRead ==
  ASSUME NEW fs, fs \in Seq(Files) \/ fs \in Seq(AppFiles)
  PROVE  /\ FilesToJson(fs).kind = "array"
         /\ IsFileList(FilesToJson(fs))
         /\ FilesOf(FilesToJson(fs)) = fs
  <1> DEFINE FileJson(f) == IF f.type = "App" THEN AppFileToJson(f) ELSE FileToJson(f)
             elements == [i \in DOMAIN fs |-> FileJson(fs[i])]
  <1>1. fs = [i \in DOMAIN fs |-> fs[i]] /\ \A i \in DOMAIN fs : fs[i] \in Files \/ fs[i] \in AppFiles
    BY LenProperties, ElementOfSeq
  <1>2. \A f : f \in Files \/ f \in AppFiles => IsFile(FileJson(f)) /\ FileOf(FileJson(f)) = f
    <2>1. \A f \in Files : f.type = "Generic"
      BY DEF Files
    <2>2. \A f \in AppFiles : f.type = "App"
      BY DEF AppFiles
    <2> QED
      BY <2>1, <2>2, FileIsRead, AppFileIsRead
  <1>3. FilesToJson(fs).kind = "array" /\ FilesToJson(fs).elements = elements
    BY DEF FilesToJson, JsonArray
  <1> HIDE DEF FileJson
  <1>4. DOMAIN elements = DOMAIN fs /\ \A i \in DOMAIN fs : elements[i] = FileJson(fs[i])
    OBVIOUS
  <1> HIDE DEF elements
  <1>5. IsFileList(FilesToJson(fs))
    BY <1>1, <1>2, <1>3, <1>4 DEF IsFileList
  <1>6. FilesOf(FilesToJson(fs)) = [i \in DOMAIN fs |-> FileOf(elements[i])]
    BY <1>3, <1>4 DEF FilesOf
  <1>7. \A i \in DOMAIN fs : FileOf(elements[i]) = fs[i]
    BY <1>1, <1>2, <1>4
  <1>8. FilesOf(FilesToJson(fs)) = fs
    BY <1>1, <1>6, <1>7
  <1> QED
    BY <1>3, <1>5, <1>8

\* An object with these members describes the part, whatever other members it has.
LEMMA Described ==
  ASSUME NEW part, part.contentId \in ContentIds,
         part.files \in Seq(Files) \/ part.files \in Seq(AppFiles),
         NEW json, json.kind = "object", {"ContentId", "Files"} \subseteq DOMAIN json.members,
         json.members["ContentId"] = ContentIdToJson(part.contentId),
         json.members["Files"] = FilesToJson(part.files)
  PROVE  Describes(json, part)
  <1>1. Has(json, "ContentId", "object") /\ Has(json, "Files", "array")
    BY IdIsRead, FilesAreRead DEF Has
  <1> QED
    BY <1>1, IdIsRead, FilesAreRead DEF Describes

\* The JSON of a part describes its identity and its files.
LEMMA PartDescribed ==
  ASSUME NEW part, part.contentId \in ContentIds,
         part.files \in Seq(Files) \/ part.files \in Seq(AppFiles)
  PROVE  Describes(PartToJson(part), part)
  <1>1. /\ PartToJson(part).kind = "object"
        /\ DOMAIN PartToJson(part).members = {"ContentId", "Files"}
        /\ PartToJson(part).members["ContentId"] = ContentIdToJson(part.contentId)
        /\ PartToJson(part).members["Files"] = FilesToJson(part.files)
    BY DEF PartToJson, JsonObject
  <1> QED
    BY <1>1, Described

(* The JSON of a content describes it, with its prerequisites when it is of an *)
(* app.                                                                        *)
LEMMA ContentDescribed ==
  ASSUME NEW content \in Answers
  PROVE  /\ content.type = "App" => DescribesApp(ContentToJson(content), content)
         /\ content.type # "App" => Describes(ContentToJson(content), content)
  <1>1. content \in Contents \/ content \in AppContents
    BY AnswersAssumption
  <1>2. CASE content \in Contents
    <2>1. /\ content.type = "Generic"
          /\ content.contentId \in ContentIds /\ content.files \in Seq(Files)
      BY <1>2 DEF Contents
    <2>2. ContentToJson(content) = PartToJson(content)
      BY <2>1 DEF ContentToJson
    <2> QED
      BY <2>1, <2>2, PartDescribed
  <1>3. CASE content \in AppContents
    <2> DEFINE json == ContentToJson(content)
               ps == content.prerequisites
               elements == [i \in DOMAIN ps |-> PartToJson(ps[i])]
    <2>1. /\ content.type = "App"
          /\ content.contentId \in ContentIds /\ content.files \in Seq(AppFiles)
          /\ ps \in Seq(AppPrerequisites)
      BY <1>3 DEF AppContents
    <2>2. /\ json.kind = "object"
          /\ DOMAIN json.members = {"ContentId", "UpdateId", "Files", "Prerequisites"}
          /\ json.members["ContentId"] = ContentIdToJson(content.contentId)
          /\ json.members["UpdateId"] = JsonString(content.updateId)
          /\ json.members["Files"] = FilesToJson(content.files)
          /\ json.members["Prerequisites"] = JsonArray(elements)
      BY <2>1 DEF ContentToJson, JsonObject
    <2>3. \A i \in DOMAIN ps : ps[i].contentId \in ContentIds /\ ps[i].files \in Seq(AppFiles)
      <3>1. \A i \in DOMAIN ps : ps[i] \in AppPrerequisites
        BY <2>1, LenProperties, ElementOfSeq
      <3> QED
        BY <3>1 DEF AppPrerequisites
    <2>4. DOMAIN elements = DOMAIN ps /\ \A i \in DOMAIN ps : elements[i] = PartToJson(ps[i])
      OBVIOUS
    <2> HIDE DEF json, ps, elements
    <2>5. Describes(json, content)
      BY <2>1, <2>2, Described
    <2>6. HasStrings(json, {"UpdateId"}) /\ Text(json, "UpdateId") = content.updateId
      BY <2>2 DEF HasStrings, Has, Text, JsonString
    <2>7. Has(json, "Prerequisites", "array") /\ Elements(json, "Prerequisites") = elements
      BY <2>2 DEF Has, Elements, JsonArray
    <2>8. \A i \in DOMAIN ps : Describes(elements[i], ps[i])
      BY <2>3, <2>4, PartDescribed
    <2>9. DescribesApp(json, content)
      BY <2>4, <2>5, <2>6, <2>7, <2>8 DEF DescribesApp, ps
    <2> QED
      BY <2>1, <2>9 DEF json
  <1> QED
    BY <1>1, <1>2, <1>3

-----------------------------------------------------------------------------
(* The program. *)

\* A number below the modulus is its own remainder.
LEMMA Remainder == ASSUME NEW m \in Nat, NEW status \in Nat, status < m PROVE status % m = status
  OBVIOUS

\* No code of a failure is zero, and none is above 12289.
LEMMA CodesAreSmall ==
  ASSUME NEW c \in Failures PROVE Value[c] \in Nat /\ 1 <= Value[c] /\ Value[c] <= 12289
  BY DEF Failures, Value

LEMMA SomeFailures ==
  {"ConnectionSetupFailed", "InvalidArg", "OutOfMemory", "Unexpected"} \subseteq Failures
  BY DEF Failures, Value

\* Every system sees that the arguments are wrong, or that the program was aborted.
LEMMA SmallStatuses == 1 % ExitModulus # 0 /\ 134 % ExitModulus # 0
  <1>1. ExitModulus \in Nat /\ ExitModulus >= 256
    BY ToolAssumption
  <1> QED
    BY <1>1, Remainder

\* The failures that a system takes for success.
Unseen == {c \in Failures : Value[c] % ExitModulus = 0}

\* There are none where all of a code is kept.
LEMMA WideStatuses == ASSUME ExitModulus > 12289 PROVE Unseen = {}
  <1>1. ASSUME NEW c \in Failures PROVE Value[c] % ExitModulus # 0
    BY CodesAreSmall, Remainder, ToolAssumption
  <1> QED
    BY <1>1 DEF Unseen

\* With eight bits they are the first codes of their groups, and HttpBadRequest.
LEMMA NarrowStatuses ==
  ASSUME ExitModulus = 256
  PROVE  Unseen = {"ConnectionSetupFailed", "HttpTimeout", "HttpBadRequest", "ServiceInvalidResponse"}
  <1>1. /\ 1 % 256 = 1 /\ 2 % 256 = 2 /\ 3 % 256 = 3 /\ 4 % 256 = 4 /\ 5 % 256 = 5
        /\ 4096 % 256 = 0 /\ 4097 % 256 = 1 /\ 4098 % 256 = 2
        /\ 8192 % 256 = 0 /\ 8193 % 256 = 1 /\ 9216 % 256 = 0 /\ 9220 % 256 = 4
        /\ 9221 % 256 = 5 /\ 9257 % 256 = 41 /\ 9475 % 256 = 3
        /\ 12288 % 256 = 0 /\ 12289 % 256 = 1
    OBVIOUS
  <1> QED
    BY <1>1 DEF Unseen, Failures, Value

\* Initially nothing has been read, asked, delivered or written.
LEMMA InitInv == Init => IInv
  <1> SUFFICES ASSUME Init PROVE IInv
    OBVIOUS
  <1>1. SettingsOK
    BY DEF Init, SettingsOK
  <1>2. RequestOK
    BY DEF Init, RequestOK
  <1>3. AnswerOK
    BY DEF Init, AnswerOK
  <1>4. FileOK
    BY DEF Init, FileOK, Over
  <1>5. GoingOnOK
    BY DEF Init, GoingOnOK
  <1> QED
    BY <1>1, <1>2, <1>3, <1>4, <1>5 DEF IInv

\* The settings come from the line in the first step, and no other step touches them.
LEMMA SettingsStep == IInv /\ [Next]_vars => SettingsOK'
  <1> USE DEF SettingsOK, Exit, Show, ReturnCode
  <1> SUFFICES ASSUME IInv, [Next]_vars PROVE SettingsOK'
    OBVIOUS
  <1>0. SettingsOK
    BY DEF IInv
  <1>1. CASE ParseStep
    BY <1>0, <1>1 DEF ParseStep
  <1>2. CASE Configure
    BY <1>0, <1>2 DEF Configure
  <1>3. CASE MakeClient
    BY <1>0, <1>3 DEF MakeClient
  <1>4. CASE GetLatestDownloadInfo
    BY <1>0, <1>4 DEF GetLatestDownloadInfo
  <1>5. CASE DisplayResults
    BY <1>0, <1>5 DEF DisplayResults
  <1>6. CASE OpenFile
    BY <1>0, <1>6 DEF OpenFile
  <1>7. CASE WriteFile
    BY <1>0, <1>7 DEF WriteFile
  <1>8. CASE UNCHANGED vars
    BY <1>0, <1>8 DEF vars
  <1> QED
    BY <1>1, <1>2, <1>3, <1>4, <1>5, <1>6, <1>7, <1>8 DEF Next

\* The environment and the request follow the settings.
LEMMA RequestStep == IInv /\ [Next]_vars => RequestOK'
  <1> USE DEF RequestOK, Exit, Show, ReturnCode, Request
  <1> SUFFICES ASSUME IInv, [Next]_vars PROVE RequestOK'
    OBVIOUS
  <1>0. RequestOK /\ SettingsOK /\ AnswerOK
    BY DEF IInv
  <1>1. CASE ParseStep
    BY <1>0, <1>1 DEF ParseStep, AnswerOK
  <1>2. CASE Configure
    BY <1>0, <1>2 DEF Configure, SettingsOK
  <1>3. CASE MakeClient
    BY <1>0, <1>3 DEF MakeClient
  <1>4. CASE GetLatestDownloadInfo
    BY <1>0, <1>4 DEF GetLatestDownloadInfo, SettingsOK
  <1>5. CASE DisplayResults
    BY <1>0, <1>5 DEF DisplayResults
  <1>6. CASE OpenFile
    BY <1>0, <1>6 DEF OpenFile
  <1>7. CASE WriteFile
    BY <1>0, <1>7 DEF WriteFile
  <1>8. CASE UNCHANGED vars
    BY <1>0, <1>8 DEF vars
  <1> QED
    BY <1>1, <1>2, <1>3, <1>4, <1>5, <1>6, <1>7, <1>8 DEF Next

\* The JSON is that of the answer, which has the type that was asked for.
LEMMA AnswerStep == IInv /\ [Next]_vars => AnswerOK'
  <1> USE DEF AnswerOK, Exit, Show, ReturnCode
  <1> SUFFICES ASSUME IInv, [Next]_vars PROVE AnswerOK'
    OBVIOUS
  <1>0. AnswerOK /\ RequestOK
    BY DEF IInv
  <1>1. CASE ParseStep
    BY <1>0, <1>1 DEF ParseStep
  <1>2. CASE Configure
    BY <1>0, <1>2 DEF Configure
  <1>3. CASE MakeClient
    BY <1>0, <1>3 DEF MakeClient
  <1>4. CASE GetLatestDownloadInfo
    BY <1>0, <1>4, NothingAssumption DEF GetLatestDownloadInfo, RequestOK
  <1>5. CASE DisplayResults
    BY <1>0, <1>5 DEF DisplayResults
  <1>6. CASE OpenFile
    BY <1>0, <1>6 DEF OpenFile
  <1>7. CASE WriteFile
    BY <1>0, <1>7 DEF WriteFile
  <1>8. CASE UNCHANGED vars
    BY <1>0, <1>8 DEF vars
  <1> QED
    BY <1>1, <1>2, <1>3, <1>4, <1>5, <1>6, <1>7, <1>8 DEF Next

\* The file is opened only with an answer at hand, and nothing fails after that.
LEMMA FileStep == IInv /\ [Next]_vars => FileOK'
  <1> USE DEF FileOK, Over, Exit, Show, ReturnCode
  <1> SUFFICES ASSUME IInv, [Next]_vars PROVE FileOK'
    OBVIOUS
  <1>0. FileOK
    BY DEF IInv
  <1>z. 0 % ExitModulus = 0
    BY ToolAssumption
  <1>1. CASE ParseStep
    BY <1>0, <1>1 DEF ParseStep
  <1>2. CASE Configure
    BY <1>0, <1>2 DEF Configure
  <1>3. CASE MakeClient
    BY <1>0, <1>3 DEF MakeClient
  <1>4. CASE GetLatestDownloadInfo
    BY <1>0, <1>4 DEF GetLatestDownloadInfo
  <1>5. CASE DisplayResults
    BY <1>0, <1>5 DEF DisplayResults
  <1>6. CASE OpenFile
    BY <1>0, <1>6 DEF OpenFile
  <1>7. CASE WriteFile
    BY <1>0, <1>7, <1>z DEF WriteFile
  <1>8. CASE UNCHANGED vars
    BY <1>0, <1>8 DEF vars
  <1> QED
    BY <1>1, <1>2, <1>3, <1>4, <1>5, <1>6, <1>7, <1>8 DEF Next

\* A failure ends the program, and the file is opened before it is written.
LEMMA GoingOnStep == IInv /\ [Next]_vars => GoingOnOK'
  <1> USE DEF GoingOnOK, Exit, Show, ReturnCode
  <1> SUFFICES ASSUME IInv, [Next]_vars PROVE GoingOnOK'
    OBVIOUS
  <1>0. GoingOnOK
    BY DEF IInv
  <1>1. CASE ParseStep
    BY <1>0, <1>1 DEF ParseStep
  <1>2. CASE Configure
    BY <1>0, <1>2 DEF Configure
  <1>3. CASE MakeClient
    BY <1>0, <1>3 DEF MakeClient
  <1>4. CASE GetLatestDownloadInfo
    BY <1>0, <1>4 DEF GetLatestDownloadInfo
  <1>5. CASE DisplayResults
    BY <1>0, <1>5 DEF DisplayResults
  <1>6. CASE OpenFile
    BY <1>0, <1>6 DEF OpenFile
  <1>7. CASE WriteFile
    BY <1>0, <1>7 DEF WriteFile
  <1>8. CASE UNCHANGED vars
    BY <1>0, <1>8 DEF vars
  <1> QED
    BY <1>1, <1>2, <1>3, <1>4, <1>5, <1>6, <1>7, <1>8 DEF Next

\* What a status of zero may mean: success, or a failure that the system does not see.
ZeroOrUnseen == (Over /\ exit = 0) => Done \/ code \in Unseen

\* Only the steps that print something, or that save it, end with a status of zero,
\* but for the failures that the system does not see.
LEMMA ZeroStep == IInv /\ ZeroOrUnseen /\ [Next]_vars => ZeroOrUnseen'
  <1> USE DEF ZeroOrUnseen, Done, Over, Exit, Show
  <1> SUFFICES ASSUME IInv, ZeroOrUnseen, [Next]_vars PROVE ZeroOrUnseen'
    OBVIOUS
  <1>0. ZeroOrUnseen /\ AnswerOK /\ GoingOnOK
    BY DEF IInv
  <1>f. {"ConnectionSetupFailed", "InvalidArg", "OutOfMemory", "Unexpected"} \subseteq Failures
    BY SomeFailures
  <1>r. ASSUME NEW c \in Failures, ReturnCode(c) PROVE ZeroOrUnseen'
    <2>1. pc' = "over" /\ code' = c /\ exit' = Value[c] % ExitModulus
      BY <1>r DEF ReturnCode
    <2>2. exit' = 0 => c \in Unseen
      BY <2>1 DEF Unseen
    <2>3. exit' = 0 => code' \in Unseen'
      BY <2>1, <2>2 DEF Unseen
    <2> QED
      BY <2>3
  <1>1. CASE ParseStep
    <2>1. \/ shown' \cap {"help", "version"} # {}
          \/ pc' = "over" /\ exit' = 1 % ExitModulus
          \/ pc' = "configure"
      BY <1>1 DEF ParseStep
    <2>2. 1 % ExitModulus # 0
      BY SmallStatuses
    <2> QED
      BY <2>1, <2>2
  <1>2. CASE Configure
    BY <1>0, <1>2 DEF Configure
  <1>3. CASE MakeClient
    BY <1>0, <1>3, <1>r, <1>f DEF MakeClient
  <1>4. CASE GetLatestDownloadInfo
    BY <1>0, <1>4, <1>r DEF GetLatestDownloadInfo
  <1>5. CASE DisplayResults
    BY <1>0, <1>5 DEF DisplayResults, AnswerOK, GoingOnOK
  <1>6. CASE OpenFile
    <2>1. \/ exit' = 134 % ExitModulus
          \/ ReturnCode("Unexpected")
          \/ pc' = "write"
      BY <1>6 DEF OpenFile
    <2>2. 134 % ExitModulus # 0
      BY SmallStatuses
    <2> QED
      BY <2>1, <2>2, <1>r, <1>f
  <1>7. CASE WriteFile
    <2>1. /\ contents' = contents /\ contents # Nothing
          /\ code' = code /\ code = "Success"
          /\ settings' = settings /\ settings.outputFile # ""
      BY <1>0, <1>7 DEF WriteFile, AnswerOK, GoingOnOK
    <2>2. "saved" \in shown' /\ file' \notin {"absent", "old"}
      BY <1>7 DEF WriteFile
    <2> QED
      BY <2>1, <2>2
  <1>8. CASE UNCHANGED vars
    <2>1. UNCHANGED <<pc, exit, code, settings, file, shown, contents>>
      BY <1>8 DEF vars
    <2> QED
      BY <1>0, <2>1 DEF Unseen
  <1> QED
    BY <1>1, <1>2, <1>3, <1>4, <1>5, <1>6, <1>7, <1>8 DEF Next

-----------------------------------------------------------------------------
(* What holds of every run. *)

(* The settings are those of the line, the request is theirs, what is handled  *)
(* is the answer's JSON, and the file is touched by a program that can no      *)
(* longer fail, in every reachable state.                                      *)
THEOREM InductiveInvariant == Spec => []IInv
  <1>1. IInv /\ [Next]_vars => IInv'
    BY SettingsStep, RequestStep, AnswerStep, FileStep, GoingOnStep DEF IInv
  <1> QED
    BY InitInv, <1>1, PTL DEF Spec

(* The arguments mean what the options and values on the line are: the parser  *)
(* of main takes no value for an option and loses none.                        *)
THEOREM EveryLineIsUnderstood == Spec => []LineIsUnderstood
  <1>1. ASSUME IInv PROVE LineIsUnderstood
    <2>1. pieces \in CommandLines /\ (pc # "start" => settings = Understood(pieces))
      BY <1>1, LineUnderstood DEF IInv, SettingsOK
    <2>2. pc # "start" /\ settings = Nothing => "usage" \in shown
      BY <1>1 DEF IInv, SettingsOK
    <2> DEFINE meaning == Args!MeaningOf(pieces)
               refused == \/ meaning = Nothing
                          \/ pieces # <<>> /\ ~meaning.help /\ "" \in {meaning.product, meaning.accountId}
               given == [meaning EXCEPT !.help = @ \/ pieces = <<>>]
    <2>3. Understood(pieces) = IF refused THEN Nothing ELSE given
      BY DEF Understood
    <2>4. LineIsUnderstood <=> (pc # "start" => IF refused THEN "usage" \in shown ELSE settings = given)
      BY DEF LineIsUnderstood
    <2> HIDE DEF refused, given
    <2> QED
      BY <2>1, <2>2, <2>3, <2>4
  <1> QED
    BY InductiveInvariant, <1>1, PTL

(* The library is asked for what the line says, at the custom URL only if the  *)
(* line gives one.                                                             *)
THEOREM TheLineIsAsked == Spec => []AsksWhatTheLineSays
  <1>1. ASSUME IInv PROVE AsksWhatTheLineSays
    <2> SUFFICES ASSUME asked # Nothing PROVE AsksWhatTheLineSays
      BY DEF AsksWhatTheLineSays
    <2> DEFINE meaning == Args!MeaningOf(pieces)
    <2>1. /\ settings # Nothing /\ asked = Request(IF settings.isApp THEN "App" ELSE "Generic")
          /\ env \in (IF settings.customUrl = "" THEN {inherited} ELSE {inherited, settings.customUrl})
      BY <1>1 DEF IInv, RequestOK
    <2>2. pieces \in CommandLines /\ settings = Understood(pieces)
      BY <1>1, <2>1, LineUnderstood DEF IInv, SettingsOK
    <2>3. meaning \in Settings /\ settings = [meaning EXCEPT !.help = @ \/ pieces = <<>>]
      BY <2>1, <2>2, LineUnderstood
    <2> HIDE DEF meaning
    <2>4. /\ settings.product = meaning.product /\ settings.accountId = meaning.accountId
          /\ settings.instanceId = meaning.instanceId /\ settings.namespace = meaning.namespace
          /\ settings.isApp = meaning.isApp /\ settings.customUrl = meaning.customUrl
      BY <2>3 DEF Settings
    <2>5. /\ asked.product = meaning.product /\ asked.account = meaning.accountId
          /\ asked.instance = meaning.instanceId /\ asked.nameSpace = meaning.namespace
          /\ asked.type = (IF meaning.isApp THEN "App" ELSE "Generic")
          /\ asked.service = IF AllowOverrides THEN env ELSE Nothing
      BY <2>1, <2>4 DEF Request
    <2> QED
      BY <2>1, <2>4, <2>5 DEF AsksWhatTheLineSays, meaning
  <1> QED
    BY InductiveInvariant, <1>1, PTL

(* What is printed or saved describes the content that was delivered, in the   *)
(* form that the library itself reads.                                         *)
THEOREM AnswersAreDescribed == Spec => []OutputIsTheAnswer
  <1>1. ASSUME IInv PROVE OutputIsTheAnswer
    <2> SUFFICES ASSUME contents # Nothing PROVE OutputIsTheAnswer
      BY DEF OutputIsTheAnswer
    <2>1. answer \in Answers /\ answer.type = asked.type /\ contents = ContentsToJson(<<answer>>)
      BY <1>1 DEF IInv, AnswerOK
    <2>2. Len(contents.elements) = 1 /\ contents.elements[1] = ContentToJson(answer)
      BY <2>1 DEF ContentsToJson, JsonArray
    <2> QED
      BY <2>1, <2>2, ContentDescribed DEF OutputIsTheAnswer
  <1> QED
    BY InductiveInvariant, <1>1, PTL

(* A program that fails, or that prints help or its version, leaves the output *)
(* file alone.                                                                 *)
THEOREM FilesAreKept == Spec => []FailureKeepsTheFile
  <1>1. IInv => FailureKeepsTheFile
    BY DEF IInv, FileOK, FailureKeepsTheFile, Over
  <1> QED
    BY InductiveInvariant, <1>1, PTL

(* Whatever a system keeps of an exit status, zero means that nothing main     *)
(* looks at has failed, or that the program ended with the code of a failure   *)
(* that the system does not see: no other path through main ends with zero.    *)
THEOREM ZeroMeansSuccessOrUnseen ==
  Spec => [](Over /\ exit = 0 => Done \/ code \in Unseen)
  <1>1. Init => ZeroOrUnseen
    BY DEF Init, ZeroOrUnseen, Over
  <1>2. ZeroOrUnseen <=> (Over /\ exit = 0 => Done \/ code \in Unseen)
    BY DEF ZeroOrUnseen
  <1> QED
    BY InductiveInvariant, ZeroStep, <1>1, <1>2, PTL DEF Spec

(* Where all of a code is kept, zero means that nothing main looks at failed.  *)
THEOREM ZeroMeansSuccess == ASSUME ExitModulus > 12289 PROVE Spec => []ZeroIsSuccess
  <1>1. (Over /\ exit = 0 => Done \/ code \in Unseen) => ZeroIsSuccess
    BY WideStatuses DEF ZeroIsSuccess
  <1> QED
    BY ZeroMeansSuccessOrUnseen, <1>1, PTL

(* Where eight bits are kept, as on POSIX systems, zero means that, or one of  *)
(* four failures.                                                              *)
THEOREM ZeroMayHideFourFailures ==
  ASSUME ExitModulus = 256
  PROVE  Spec => [](Over /\ exit = 0 =>
                      \/ Done
                      \/ code \in {"ConnectionSetupFailed", "HttpTimeout", "HttpBadRequest",
                                   "ServiceInvalidResponse"})
  <1>1. (Over /\ exit = 0 => Done \/ code \in Unseen) =>
          (Over /\ exit = 0 =>
             \/ Done
             \/ code \in {"ConnectionSetupFailed", "HttpTimeout", "HttpBadRequest",
                          "ServiceInvalidResponse"})
    BY NarrowStatuses
  <1> QED
    BY ZeroMeansSuccessOrUnseen, <1>1, PTL

=============================================================================
