---------------------------- MODULE CommandLine ----------------------------
(***************************************************************************)
(* ParseArguments of the samples: arguments are read one by one; a switch  *)
(* takes the argument after it as its value, whatever that is, and a flag  *)
(* takes none.  Every complaint ends the reading in the same way.          *)
(***************************************************************************)
EXTENDS Naturals, Sequences

CONSTANTS
  Flags,        \* options without a value
  Switches,     \* options with one
  OptionOf(_),  \* the option that an argument is, if any
  Nothing       \* no option, no settings

Defaults == [option \in Flags \cup Switches |-> IF option \in Flags THEN FALSE ELSE ""]

Start == [settings |-> Defaults, awaiting |-> Nothing, refused |-> FALSE]

BugRead(reader, arg) ==
  CASE reader.awaiting # Nothing ->
         [reader EXCEPT !.settings[reader.awaiting] = arg, !.awaiting = Nothing]
    [] reader.awaiting = Nothing /\ OptionOf(arg) \in Flags ->
         [reader EXCEPT !.settings[OptionOf(arg)] = TRUE]
    [] reader.awaiting = Nothing /\ OptionOf(arg) \in Switches ->
         [reader EXCEPT !.awaiting = OptionOf(arg)]
    [] OTHER -> [reader EXCEPT !.refused = TRUE]

\* A switch may come again only as long as its value is empty.
Read(reader, arg) ==
  LET option == OptionOf(arg)
  IN  CASE reader.awaiting # Nothing ->
             [reader EXCEPT !.settings[reader.awaiting] = arg, !.awaiting = Nothing]
        [] reader.awaiting = Nothing /\ option \in Flags ->
             [reader EXCEPT !.settings[option] = TRUE]
        [] reader.awaiting = Nothing /\ option \in Switches /\ reader.settings[option] = "" ->
             [reader EXCEPT !.awaiting = option]
        [] OTHER -> [reader EXCEPT !.refused = TRUE]

\* A complaint ends the reading.
ReadOn(reader, arg) == IF reader.refused THEN reader ELSE Read(reader, arg)

\* The reader after each number of arguments.
Readers(args) ==
  LET reader[i \in 0 .. Len(args)] ==
        IF i = 0 THEN Start ELSE ReadOn(reader[i - 1], args[i])
  IN  reader

\* The settings that the arguments ask for, or Nothing when they are refused.
Parse(args) ==
  LET end == Readers(args)[Len(args)]
  IN  IF end.refused \/ end.awaiting # Nothing THEN Nothing ELSE end.settings

-----------------------------------------------------------------------------
(* What a command line says, put together from the options that it is made    *)
(* of: the reference that Parse is compared with.                             *)

\* An option as it is typed, with its value or with none.
Arguments(piece) == IF piece.value = Nothing THEN <<piece.typed>> ELSE <<piece.typed, piece.value>>

\* Of the arguments, those of each number of options.
Lines(pieces) ==
  LET line[i \in 0 .. Len(pieces)] ==
        IF i = 0 THEN <<>> ELSE line[i - 1] \o Arguments(pieces[i])
  IN  line
Line(pieces) == Lines(pieces)[Len(pieces)]

\* Every argument is an option or the value of a switch before it: only a switch at
\* the end has none.
IsLine(pieces) ==
  \A i \in 1 .. Len(pieces) :
    /\ pieces[i].option = OptionOf(pieces[i].typed)
    /\ pieces[i].option \in Switches => i = Len(pieces) \/ pieces[i].value # Nothing
    /\ pieces[i].option \notin Switches => pieces[i].value = Nothing

Given(pieces, option) == {i \in 1 .. Len(pieces) : pieces[i].option = option}

\* Nothing but empty values may be given before the last.
WellFormed(pieces) ==
  /\ \A i \in 1 .. Len(pieces) :
       /\ pieces[i].option \in Flags \cup Switches
       /\ pieces[i].option \in Switches => pieces[i].value # Nothing
  /\ \A option \in Switches :
       \A i, j \in Given(pieces, option) : i < j => pieces[i].value = ""

LastValue(pieces, option) ==
  LET last == CHOOSE i \in Given(pieces, option) : \A j \in Given(pieces, option) : j <= i
  IN  pieces[last].value

SettingsOf(pieces) ==
  [option \in Flags \cup Switches |->
     IF option \in Flags THEN Given(pieces, option) # {}
     ELSE IF Given(pieces, option) = {} THEN "" ELSE LastValue(pieces, option)]

MeaningOf(pieces) == IF WellFormed(pieces) THEN SettingsOf(pieces) ELSE Nothing

=============================================================================
