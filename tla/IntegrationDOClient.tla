------------------------ MODULE IntegrationDOClient ------------------------
(***************************************************************************)
(* IntegrationDOClient: a program that asks the library for the latest     *)
(* version of a product and has Delivery Optimization download its files,  *)
(* one after another, into a directory.  The program may be run again, by  *)
(* several processes at once, and may be killed; the directory stays, and  *)
(* so do the downloads, which happen in another process.  What that one    *)
(* does to a file is external.                                             *)
(***************************************************************************)
EXTENDS Naturals, Sequences, SequencesExt

CONSTANTS
  Processes,
  CommandLines,  \* what the program may be called with, as typed options and values
  Dirs,          \* directories to download to, the default one being ""
  FileIds,
  FilesOf,       \* the files of each version, in the service's order
  MaxRuns,       \* bound: how often the program is run
  Nothing        \* no settings, no content, no exit status

Versions == DOMAIN FilesOf

ASSUME ClientAssumption ==
  /\ FilesOf \in Seq(Seq(FileIds)) \ {<<>>}
  /\ "" \in Dirs
  /\ MaxRuns \in Nat
  /\ Nothing \notin Versions \cup {0}

VARIABLES
  latest,   \* the version that the service has
  disk,     \* what each directory holds under each file id
  pc,       \* where each process is
  settings,
  content,  \* the version that it was told of
  todo,     \* the files of that version still to be looked at
  exit,     \* its exit status
  leftover, \* the downloads that go on although their run is over
  runs,     \* how often the program has been run
  before,   \* history: the files that its directory held when it started
  touched   \* history: the files there that someone else was at while it ran

process == <<pc, settings, content, todo, exit>>
history == <<runs, before, touched>>
vars    == <<latest, disk, leftover, process, history>>

\* A file is of a version, and whole or not.
Absent     == [version |-> 0, whole |-> FALSE]
Partial(v) == [version |-> v, whole |-> FALSE]
Whole(v)   == [version |-> v, whole |-> TRUE]

-----------------------------------------------------------------------------
(* Arguments. *)

Flags    == {"help"}
Switches == {"product", "accountId", "outDir"}

OptionOf(arg) ==
  CASE arg \in {"-h", "--help"} -> "help"
    [] arg = "--product"        -> "product"
    [] arg = "--accountId"      -> "accountId"
    [] arg = "--outDir"         -> "outDir"
    [] OTHER                    -> Nothing

Args == INSTANCE CommandLine

\* A product is needed even for help.
ParseArguments(args) ==
  LET parsed == Args!Parse(args)
  IN  IF parsed = Nothing THEN Nothing
      ELSE IF parsed.product = "" THEN Nothing ELSE [parsed EXCEPT !.help = @ \/ args = <<>>]

ASSUME LineAssumption ==
  \A line \in CommandLines :
    ParseArguments(Args!Line(line)) = Nothing
      \/ ParseArguments(Args!Line(line)).outDir \in Dirs

-----------------------------------------------------------------------------
(* Runs. *)

Init ==
  /\ latest = 1
  /\ disk = [dir \in Dirs |-> [file \in FileIds |-> Absent]]
  /\ pc = [p \in Processes |-> "idle"]
  /\ settings = [p \in Processes |-> Nothing]
  /\ content = [p \in Processes |-> Nothing]
  /\ todo = [p \in Processes |-> <<>>]
  /\ exit = [p \in Processes |-> Nothing]
  /\ leftover = {}
  /\ runs = 0
  /\ before = [p \in Processes |-> {}]
  /\ touched = [p \in Processes |-> {}]

Running(p)     == pc[p] # "idle"
Downloading(p) == pc[p] \in {"create", "start", "wait", "grow"}
Dir(p)         == settings[p].outDir
Goto(p, label) == pc' = [pc EXCEPT ![p] = label]

\* The files of a directory that others than p are at.
Busy(p, dir) ==
  {Head(todo[q]) : q \in {r \in Processes \ {p} : Downloading(r) /\ Dir(r) = dir}}
    \cup {job.file : job \in {left \in leftover : left.dir = dir}}

\* A process that ends forgets what it had to do.
Exit(p, status) ==
  /\ Goto(p, "idle")
  /\ exit' = [exit EXCEPT ![p] = status]
  /\ todo' = [todo EXCEPT ![p] = <<>>]

Publish ==
  /\ latest + 1 \in Versions
  /\ latest' = latest + 1
  /\ UNCHANGED <<disk, leftover, process, history>>

Start(p, line) ==
  LET parsed == ParseArguments(Args!Line(line))
  IN  /\ ~Running(p)
      /\ runs < MaxRuns
      /\ runs' = runs + 1
      /\ settings' = [settings EXCEPT ![p] = parsed]
      /\ content' = [content EXCEPT ![p] = Nothing]
      /\ CASE parsed = Nothing               -> Exit(p, 1)
           [] parsed # Nothing /\ parsed.help -> Exit(p, 0)
           [] OTHER -> /\ Goto(p, "ask")
                       /\ exit' = [exit EXCEPT ![p] = Nothing]
                       /\ UNCHANGED todo
      /\ before' = [before EXCEPT ![p] =
                      IF pc'[p] = "idle" THEN {}
                      ELSE {file \in FileIds : disk[parsed.outDir][file] # Absent}]
      /\ touched' = [touched EXCEPT ![p] =
                       IF pc'[p] = "idle" THEN {} ELSE Busy(p, parsed.outDir)]
      /\ UNCHANGED <<latest, disk, leftover>>

\* No client or no content ends the run; there is never more than one content.
GetLatestDownloadInfo(p) ==
  /\ pc[p] = "ask"
  /\ \/ Exit(p, 1) /\ UNCHANGED content
     \/ /\ content' = [content EXCEPT ![p] = latest]
        /\ todo' = [todo EXCEPT ![p] = FilesOf[latest]]
        /\ Goto(p, "outDir")
        /\ UNCHANGED exit
  /\ UNCHANGED <<latest, disk, leftover, settings, history>>

\* The default directory is created, which may fail and is not caught.
GetOutDir(p) ==
  /\ pc[p] = "outDir"
  /\ \/ Dir(p) = "" /\ Exit(p, 134)
     \/ Goto(p, "files") /\ UNCHANGED <<todo, exit>>
  /\ UNCHANGED <<latest, disk, leftover, settings, content, history>>

\* The other runs in p's directory have p at their file too.
Disturb(p) ==
  touched' = [q \in Processes |->
                IF q # p /\ Running(q) /\ Dir(q) = Dir(p)
                THEN touched[q] \cup {Head(todo[p])} ELSE touched[q]]

BugCheckFile(p) ==
  /\ pc[p] = "files"
  /\ todo[p] # <<>>
  /\ Goto(p, "create")
  /\ Disturb(p)
  /\ UNCHANGED <<latest, disk, leftover, settings, content, todo, exit, runs, before>>

\* A file that is there already is skipped, whatever it is.  Whether it is there may
\* be impossible to tell, which is not caught.
CheckFile(p) ==
  /\ pc[p] = "files"
  /\ todo[p] # <<>>
  /\ \/ Exit(p, 134) /\ UNCHANGED touched
     \/ /\ disk[Dir(p)][Head(todo[p])] # Absent
        /\ todo' = [todo EXCEPT ![p] = Tail(@)]
        /\ UNCHANGED <<pc, exit, touched>>
     \/ /\ disk[Dir(p)][Head(todo[p])] = Absent
        /\ Goto(p, "create")
        /\ Disturb(p)
        /\ UNCHANGED <<todo, exit>>
  /\ UNCHANGED <<latest, disk, leftover, settings, content, runs, before>>

CreateDownload(p) ==
  /\ pc[p] = "create"
  /\ Exit(p, 1) \/ (Goto(p, "start") /\ UNCHANGED <<todo, exit>>)
  /\ UNCHANGED <<latest, disk, leftover, settings, content, history>>

\* The download is handed over to Delivery Optimization.
StartDownload(p) ==
  /\ pc[p] = "start"
  /\ Goto(p, "wait")
  /\ UNCHANGED <<latest, disk, leftover, settings, content, todo, exit, history>>

\* Delivery Optimization begins to write the file.
BeginDownload(p) ==
  /\ pc[p] = "wait"
  /\ Goto(p, "grow")
  /\ disk' = [disk EXCEPT ![Dir(p)][Head(todo[p])] = Partial(content[p])]
  /\ UNCHANGED <<latest, leftover, settings, content, todo, exit, history>>

CompleteDownload(p) ==
  /\ pc[p] = "grow"
  /\ disk' = [disk EXCEPT ![Dir(p)][Head(todo[p])] = Whole(content[p])]
  /\ todo' = [todo EXCEPT ![p] = Tail(@)]
  /\ Goto(p, "files")
  /\ UNCHANGED <<latest, leftover, settings, content, exit, history>>

\* The download that p waits for, as it goes on without p.
Left(p) ==
  [by |-> p, run |-> runs, dir |-> Dir(p), file |-> Head(todo[p]), version |-> content[p],
   begun |-> pc[p] = "grow"]

Leave(p) == leftover' = leftover \cup (IF pc[p] \in {"wait", "grow"} THEN {Left(p)} ELSE {})

BugFailDownload(p) ==
  /\ pc[p] \in {"start", "wait", "grow"}
  /\ todo' = [todo EXCEPT ![p] = Tail(@)]
  /\ Goto(p, "files")
  /\ UNCHANGED <<latest, disk, leftover, settings, content, exit, history>>

\* A download that is not taken, ends before the file is there or on the way, leaving
\* what it has or nothing, or that goes on though the program is told of a failure.
FailDownload(p) ==
  /\ pc[p] \in {"start", "wait", "grow"}
  /\ \/ UNCHANGED <<disk, leftover>>
     \/ /\ pc[p] = "grow"
        /\ disk' = [disk EXCEPT ![Dir(p)][Head(todo[p])] = Absent]
        /\ UNCHANGED leftover
     \/ Leave(p) /\ UNCHANGED disk
  /\ Exit(p, 1)
  /\ UNCHANGED <<latest, settings, content, history>>

Finish(p) ==
  /\ pc[p] = "files"
  /\ todo[p] = <<>>
  /\ Exit(p, 0)
  /\ UNCHANGED <<latest, disk, leftover, settings, content, history>>

\* The process is killed, but not the download that it has handed over.
Kill(p) ==
  /\ Running(p)
  /\ Exit(p, 137)
  /\ Leave(p)
  /\ UNCHANGED <<latest, disk, settings, content, history>>

\* A download that nobody waits for begins, completes or fails.
GoOn(job) ==
  /\ job \in leftover
  /\ \/ /\ ~job.begun
        /\ disk' = [disk EXCEPT ![job.dir][job.file] = Partial(job.version)]
        /\ leftover' = (leftover \ {job}) \cup {[job EXCEPT !.begun = TRUE]}
     \/ /\ job.begun
        /\ \E is \in {Whole(job.version), Absent} :
             disk' = [disk EXCEPT ![job.dir][job.file] = is]
        /\ leftover' = leftover \ {job}
     \/ UNCHANGED disk /\ leftover' = leftover \ {job}
  /\ UNCHANGED <<latest, process, history>>

Next ==
  \/ Publish
  \/ \E job \in leftover : GoOn(job)
  \/ \E p \in Processes :
       \/ \E line \in CommandLines : Start(p, line)
       \/ GetLatestDownloadInfo(p) \/ GetOutDir(p) \/ CheckFile(p) \/ CreateDownload(p)
       \/ StartDownload(p) \/ BeginDownload(p) \/ CompleteDownload(p) \/ FailDownload(p)
       \/ Finish(p) \/ Kill(p)

Spec == Init /\ [][Next]_vars

-----------------------------------------------------------------------------
(* Correctness. *)

Succeeded(p) == exit[p] = 0 /\ content[p] # Nothing

\* What a run cannot answer for: files that it found, and files that another run, or a
\* download that another run left, was at while it ran.
Foreign(p) == before[p] \cup touched[p]

(* After a run that succeeds every file of the version that the service named  *)
(* is there, whole and of that version, but for those that were there before   *)
(* or that someone else was at: what a failed or killed run, or one of an      *)
(* earlier version, has left is taken for the file.  No later run and no       *)
(* download that outlives its run changes it.                                  *)
UntouchedFilesAreWhole ==
  \A p \in Processes :
    Succeeded(p) =>
      \A i \in DOMAIN FilesOf[content[p]] :
        LET file == FilesOf[content[p]][i]
        IN  file \in Foreign(p) \/ disk[Dir(p)][file] = Whole(content[p])

(* While a run goes on nothing changes a file that was there when it began, but *)
(* a download of someone else that was at it before or came to it since.       *)
OldFilesStay ==
  [][\A p \in Processes :
       Running(p) =>
         \A file \in before[p] \ touched'[p] : disk'[Dir(p)][file] = disk[Dir(p)][file]]_vars

-----------------------------------------------------------------------------
(* The inductive invariant behind these properties.                            *)

TypeOK ==
  /\ latest \in Versions
  /\ disk \in [Dirs -> [FileIds -> {Absent} \cup [version : Versions, whole : BOOLEAN]]]
  /\ pc \in [Processes -> {"idle", "ask", "outDir", "files", "create", "start", "wait", "grow"}]
  /\ DOMAIN settings = Processes
  /\ \A p \in Processes : Running(p) \/ Succeeded(p) => Dir(p) \in Dirs
  /\ content \in [Processes -> Versions \cup {Nothing}]
  /\ todo \in [Processes -> Seq(FileIds)]
  /\ DOMAIN exit = Processes
  /\ leftover \subseteq [by : Processes, run : Nat, dir : Dirs, file : FileIds,
                         version : Versions, begun : BOOLEAN]
  /\ before \in [Processes -> SUBSET FileIds]
  /\ touched \in [Processes -> SUBSET FileIds]
  /\ runs \in Nat

(* Where a run is says what it knows.                                          *)
StageOK ==
  \A p \in Processes :
    /\ Running(p) => exit[p] # 0
    /\ Downloading(p) => todo[p] # <<>>
    /\ Downloading(p) \/ pc[p] \in {"files", "outDir"} => content[p] # Nothing
    /\ pc[p] = "outDir" => todo[p] = FilesOf[content[p]]

(* What others are at in the directory of a run is known to be touched.        *)
ClaimsOK ==
  \A p \in Processes : Running(p) => Busy(p, Dir(p)) \subseteq touched[p]

(* A run has left every file that it found, unless someone else was at it, has  *)
(* what it has done with whole, and the file it is at was not there.           *)
RunOf(p) ==
  /\ \A file \in FileIds : file \in before[p] \ touched[p] => disk[Dir(p)][file] # Absent
  /\ pc[p] \in {"ask", "outDir"} =>
       \A file \in FileIds : disk[Dir(p)][file] # Absent => file \in Foreign(p)
  /\ Downloading(p) => Head(todo[p]) \notin before[p] \ touched[p]
  /\ Downloading(p) \/ pc[p] = "files" =>
       /\ \A file \in FileIds :
            \/ file \in Foreign(p)
            \/ disk[Dir(p)][file] \in {Absent, Whole(content[p])}
            \/ pc[p] = "grow" /\ file = Head(todo[p])
       /\ \A i \in DOMAIN FilesOf[content[p]] :
            \/ FilesOf[content[p]][i] \in Foreign(p)
            \/ disk[Dir(p)][FilesOf[content[p]][i]] = Whole(content[p])
            \/ \E j \in DOMAIN todo[p] : todo[p][j] = FilesOf[content[p]][i]

RunOK == \A p \in Processes : Running(p) => RunOf(p)

(* Nobody is at a file that a run has made whole, or goes to download it.      *)
DoneOK ==
  \A p \in Processes :
    Succeeded(p) =>
      \A i \in DOMAIN FilesOf[content[p]] :
        FilesOf[content[p]][i] \in Foreign(p) \/ FilesOf[content[p]][i] \notin Busy(p, Dir(p))

IInv == TypeOK /\ StageOK /\ ClaimsOK /\ RunOK /\ UntouchedFilesAreWhole /\ DoneOK

=============================================================================
