--------------------- MODULE IntegrationDOClientProofs ---------------------
(***************************************************************************)
(* Proofs about IntegrationDOClient, for any processes, directories and    *)
(* versions with any lists of files, run any number of times.  A step of a *)
(* run, or of a download that has outlived its run, writes no file but the *)
(* one that it downloads; whoever is at a file while a run goes on is      *)
(* known to it as having touched the file, and a run goes to download only *)
(* what is not there.  So a run leaves every other file that it found, and *)
(* nobody spoils what it leaves behind.                                    *)
(***************************************************************************)
EXTENDS IntegrationDOClient, SequenceTheorems, TLAPS

\* A step of a run, but for its start.
Proceed(p) ==
  \/ GetLatestDownloadInfo(p) \/ GetOutDir(p) \/ CheckFile(p) \/ CreateDownload(p)
  \/ StartDownload(p) \/ BeginDownload(p) \/ CompleteDownload(p) \/ FailDownload(p)
  \/ Finish(p) \/ Kill(p)

\* The run finds that its next file is not there.
FindsNothing(p) ==
  /\ pc[p] = "files" /\ pc'[p] = "create"
  /\ disk[Dir(p)][Head(todo[p])] = Absent
  /\ \A q \in Processes \ {p} :
       Running(q) /\ Dir(q) = Dir(p) => Head(todo[p]) \in touched'[q]

(* The versions' files are files.                                              *)
LEMMA FilesAreFileIds ==
  ASSUME NEW v \in Versions
  PROVE  FilesOf[v] \in Seq(FileIds) /\ \A i \in DOMAIN FilesOf[v] : FilesOf[v][i] \in FileIds
  <1>1. FilesOf[v] \in Seq(FileIds)
    <2>1. FilesOf \in Seq(Seq(FileIds)) /\ v \in 1 .. Len(FilesOf)
      BY ClientAssumption, LenProperties DEF Versions
    <2> QED
      BY <2>1, ElementOfSeq
  <1> QED
    BY <1>1

LEMMA InitInv == Init => IInv
  <1> SUFFICES ASSUME Init PROVE IInv
    OBVIOUS
  <1>1. 1 \in Versions
    <2>1. FilesOf \in Seq(Seq(FileIds)) /\ FilesOf # <<>>
      BY ClientAssumption
    <2> QED
      BY <2>1, LenProperties, EmptySeq DEF Versions
  <1>2. \A p \in Processes : ~Running(p) /\ ~Succeeded(p) /\ ~Downloading(p)
    BY DEF Init, Running, Succeeded, Downloading
  <1>3. TypeOK
    BY <1>1, <1>2 DEF Init, TypeOK, Absent
  <1> QED
    BY <1>2, <1>3 DEF Init, IInv, StageOK, ClaimsOK, RunOK, UntouchedFilesAreWhole, DoneOK, Running

-----------------------------------------------------------------------------
(* What a step changes.                                                        *)

(* Writing one file leaves a disk.                                             *)
LEMMA WriteType ==
  ASSUME NEW S, NEW d \in [Dirs -> [FileIds -> S]], NEW dir, NEW file, NEW s \in S
  PROVE  [d EXCEPT ![dir][file] = s] \in [Dirs -> [FileIds -> S]]
  <1>1. ASSUME NEW x \in Dirs PROVE [d[x] EXCEPT ![file] = s] \in [FileIds -> S]
    OBVIOUS
  <1> QED
    BY <1>1

(* A step of a run leaves the other runs alone, and every file but its own.    *)
LEMMA ProceedFrame ==
  ASSUME TypeOK, NEW p \in Processes, Proceed(p)
  PROVE  /\ Running(p) /\ UNCHANGED <<latest, settings, before, runs>>
         /\ \A q \in Processes \ {p} :
              pc'[q] = pc[q] /\ content'[q] = content[q] /\ todo'[q] = todo[q] /\ exit'[q] = exit[q]
         /\ \A dir \in Dirs, file \in FileIds :
              \/ disk'[dir][file] = disk[dir][file]
              \/ Downloading(p) /\ dir = Dir(p) /\ file = Head(todo[p])
  <1> USE DEF TypeOK, Goto, Exit, history, Running, Dir, Downloading
  <1>1. CASE GetLatestDownloadInfo(p)
    BY <1>1 DEF GetLatestDownloadInfo
  <1>2. CASE GetOutDir(p)
    BY <1>2 DEF GetOutDir
  <1>3. CASE CheckFile(p)
    BY <1>3 DEF CheckFile
  <1>4. CASE CreateDownload(p) \/ StartDownload(p)
    BY <1>4 DEF CreateDownload, StartDownload
  <1>5. CASE BeginDownload(p)
    BY <1>5 DEF BeginDownload
  <1>6. CASE CompleteDownload(p)
    BY <1>6 DEF CompleteDownload
  <1>7. CASE FailDownload(p)
    BY <1>7 DEF FailDownload
  <1>8. CASE Finish(p)
    BY <1>8 DEF Finish
  <1>9. CASE Kill(p)
    BY <1>9 DEF Kill
  <1> QED
    BY <1>1, <1>2, <1>3, <1>4, <1>5, <1>6, <1>7, <1>8, <1>9 DEF Proceed

(* A step of a run adds to what others are said to have touched, and may leave  *)
(* its download behind, when it ends.                                          *)
LEMMA ProceedLeaves ==
  ASSUME TypeOK, NEW p \in Processes, Proceed(p)
  PROVE  /\ touched' \in [Processes -> SUBSET (FileIds \cup {Head(todo[p])})]
         /\ touched'[p] = touched[p] /\ \A q \in Processes : touched[q] \subseteq touched'[q]
         /\ \A job \in leftover' :
              job \in leftover \/ (pc[p] \in {"wait", "grow"} /\ ~Running(p)' /\ job = Left(p))
  <1> USE DEF TypeOK, history
  <1>1. CASE CheckFile(p)
    <2>1. UNCHANGED leftover /\ (UNCHANGED touched \/ Disturb(p))
      BY <1>1 DEF CheckFile
    <2>2. CASE UNCHANGED touched
      BY <2>1, <2>2
    <2>3. CASE Disturb(p)
      <3> DEFINE file == Head(todo[p])
      <3>1. touched' = [q \in Processes |->
                          IF q # p /\ Running(q) /\ Dir(q) = Dir(p)
                          THEN touched[q] \cup {file} ELSE touched[q]]
        BY <2>3 DEF Disturb
      <3> HIDE DEF file
      <3>2. /\ touched' \in [Processes -> SUBSET (FileIds \cup {file})]
            /\ touched'[p] = touched[p] /\ \A q \in Processes : touched[q] \subseteq touched'[q]
        BY <3>1
      <3> QED
        BY <2>1, <3>2 DEF file
    <2> QED
      BY <2>1, <2>2, <2>3
  <1>2. CASE FailDownload(p) \/ Kill(p)
    <2>1. UNCHANGED touched /\ pc'[p] = "idle" /\ (UNCHANGED leftover \/ Leave(p))
      BY <1>2 DEF FailDownload, Kill, Exit, Goto
    <2> QED
      BY <2>1 DEF Leave, Running
  <1>3. CASE ~CheckFile(p) /\ ~FailDownload(p) /\ ~Kill(p)
    <2>1. UNCHANGED <<touched, leftover>>
      BY <1>3 DEF Proceed, GetLatestDownloadInfo, GetOutDir, CreateDownload, StartDownload,
           BeginDownload, CompleteDownload, Finish
    <2> QED
      BY <2>1
  <1> QED
    BY <1>1, <1>2, <1>3

(* A run that is at a file was at it, or finds that it is not there.           *)
LEMMA ProceedsTo ==
  ASSUME TypeOK, NEW p \in Processes, Proceed(p), Downloading(p)'
  PROVE  todo'[p] = todo[p] /\ (Downloading(p) \/ FindsNothing(p))
  <1> USE DEF TypeOK, Goto, Downloading
  <1>1. CASE CheckFile(p)
    <2>1. /\ pc[p] = "files" /\ pc'[p] = "create" /\ disk[Dir(p)][Head(todo[p])] = Absent
          /\ Disturb(p) /\ UNCHANGED todo
      BY <1>1 DEF CheckFile, Exit
    <2>2. \A q \in Processes \ {p} :
            Running(q) /\ Dir(q) = Dir(p) => Head(todo[p]) \in touched'[q]
      BY <2>1 DEF Disturb
    <2> QED
      BY <2>1, <2>2 DEF FindsNothing
  <1>2. CASE CreateDownload(p) \/ StartDownload(p) \/ BeginDownload(p)
    BY <1>2 DEF CreateDownload, StartDownload, BeginDownload, Exit
  <1>3. ~(GetLatestDownloadInfo(p) \/ GetOutDir(p) \/ CompleteDownload(p) \/ FailDownload(p)
            \/ Finish(p) \/ Kill(p))
    BY DEF GetLatestDownloadInfo, GetOutDir, CompleteDownload, FailDownload, Finish, Kill, Exit
  <1> QED
    BY <1>1, <1>2, <1>3 DEF Proceed

(* A download that nobody waits for writes its own file.                       *)
LEMMA GoOnFrame ==
  ASSUME TypeOK, NEW job \in leftover, GoOn(job)
  PROVE  /\ UNCHANGED <<latest, process, history>>
         /\ job.dir \in Dirs /\ job.file \in FileIds
         /\ leftover' \subseteq [by : Processes, run : Nat, dir : Dirs, file : FileIds,
                                 version : Versions, begun : BOOLEAN]
         /\ \A left \in leftover' : \E old \in leftover : left.dir = old.dir /\ left.file = old.file
         /\ disk' \in [Dirs -> [FileIds -> {Absent} \cup [version : Versions, whole : BOOLEAN]]]
         /\ \A dir \in Dirs, file \in FileIds :
              disk'[dir][file] = disk[dir][file] \/ (dir = job.dir /\ file = job.file)
  <1> DEFINE Jobs == [by : Processes, run : Nat, dir : Dirs, file : FileIds,
                      version : Versions, begun : BOOLEAN]
             States == {Absent} \cup [version : Versions, whole : BOOLEAN]
             next == [job EXCEPT !.begun = TRUE]
  <1>1. job \in Jobs /\ leftover \subseteq Jobs /\ disk \in [Dirs -> [FileIds -> States]]
    BY DEF TypeOK
  <1>2. next \in Jobs /\ next.dir = job.dir /\ next.file = job.file
    BY <1>1
  <1>3. leftover' \subseteq leftover \cup {next}
    BY DEF GoOn
  <1>4. UNCHANGED disk \/ \E is \in States : disk' = [disk EXCEPT ![job.dir][job.file] = is]
    BY <1>1 DEF GoOn, Whole, Partial
  <1>5. disk' \in [Dirs -> [FileIds -> States]]
    <2> HIDE DEF States
    <2> QED
      BY <1>1, <1>4, WriteType
  <1>6. \A dir \in Dirs, file \in FileIds :
          disk'[dir][file] = disk[dir][file] \/ (dir = job.dir /\ file = job.file)
    BY <1>1, <1>4
  <1>7. \A left \in leftover' : \E old \in leftover : left.dir = old.dir /\ left.file = old.file
    BY <1>2, <1>3
  <1>8. leftover' \subseteq Jobs
    BY <1>1, <1>2, <1>3
  <1> QED
    BY <1>1, <1>5, <1>6, <1>7, <1>8 DEF GoOn

(* Every step is one of these.                                                 *)
LEMMA Steps ==
  ASSUME [Next]_vars
  PROVE  \/ Publish
         \/ \E job \in leftover : GoOn(job)
         \/ \E p \in Processes, line \in CommandLines : Start(p, line)
         \/ \E p \in Processes : Proceed(p)
         \/ UNCHANGED vars
  BY DEF Next, Proceed

(* A run that starts knows what is in its directory, and who else is at it.    *)
LEMMA StartFrame ==
  ASSUME TypeOK, NEW p \in Processes, NEW line \in CommandLines, Start(p, line)
  PROVE  /\ ~Running(p) /\ UNCHANGED <<latest, disk, leftover>> /\ runs' \in Nat
         /\ DOMAIN settings' = Processes /\ DOMAIN exit' = Processes
         /\ pc' \in [Processes -> {"idle", "ask", "outDir", "files", "create", "start", "wait", "grow"}]
         /\ content' = [content EXCEPT ![p] = Nothing]
         /\ todo' \in [Processes -> Seq(FileIds)]
         /\ before' \in [Processes -> SUBSET FileIds]
         /\ DOMAIN touched' = Processes
         /\ \A q \in Processes \ {p} :
              /\ pc'[q] = pc[q] /\ settings'[q] = settings[q] /\ exit'[q] = exit[q]
              /\ todo'[q] = todo[q] /\ before'[q] = before[q] /\ touched'[q] = touched[q]
         /\ pc'[p] \in {"idle", "ask"}
         /\ pc'[p] = "idle" => touched'[p] = {}
         /\ pc'[p] = "ask" =>
              /\ settings'[p].outDir \in Dirs /\ exit'[p] = Nothing
              /\ before'[p] = {file \in FileIds : disk[settings'[p].outDir][file] # Absent}
              /\ touched'[p] = Busy(p, settings'[p].outDir)
  <1> DEFINE parsed == ParseArguments(Args!Line(line))
             found  == IF pc'[p] = "idle" THEN {}
                       ELSE {file \in FileIds : disk[parsed.outDir][file] # Absent}
             busy   == IF pc'[p] = "idle" THEN {} ELSE Busy(p, parsed.outDir)
  <1>1. parsed = Nothing \/ parsed.outDir \in Dirs
    BY LineAssumption
  <1>2. /\ ~Running(p) /\ UNCHANGED <<latest, disk, leftover>> /\ runs' = runs + 1
        /\ settings' = [settings EXCEPT ![p] = parsed]
        /\ content' = [content EXCEPT ![p] = Nothing]
        /\ \/ Exit(p, 1) \/ Exit(p, 0)
           \/ /\ parsed # Nothing
              /\ Goto(p, "ask") /\ exit' = [exit EXCEPT ![p] = Nothing] /\ UNCHANGED todo
        /\ before' = [before EXCEPT ![p] = found]
        /\ touched' = [touched EXCEPT ![p] = busy]
    BY DEF Start
  <1>3. found \in SUBSET FileIds
    OBVIOUS
  <1> HIDE DEF parsed, found, busy
  <1>4. \E label \in {"idle", "ask"} : pc' = [pc EXCEPT ![p] = label]
    BY <1>2 DEF Exit, Goto
  <1>5. \E status : exit' = [exit EXCEPT ![p] = status]
    BY <1>2 DEF Exit
  <1>6. todo' \in [Processes -> Seq(FileIds)] /\ \A q \in Processes \ {p} : todo'[q] = todo[q]
    <2>1. <<>> \in Seq(FileIds)
      BY EmptySeq
    <2>2. UNCHANGED todo \/ todo' = [todo EXCEPT ![p] = <<>>]
      BY <1>2 DEF Exit
    <2> QED
      BY <2>1, <2>2 DEF TypeOK
  <1>7. before' \in [Processes -> SUBSET FileIds]
    BY <1>2, <1>3 DEF TypeOK
  <1>8. /\ pc' \in [Processes -> {"idle", "ask", "outDir", "files", "create", "start", "wait", "grow"}]
        /\ pc'[p] \in {"idle", "ask"}
        /\ \A q \in Processes \ {p} : pc'[q] = pc[q]
    BY <1>4 DEF TypeOK
  <1>9. /\ DOMAIN settings' = Processes /\ DOMAIN exit' = Processes /\ DOMAIN touched' = Processes
        /\ runs' \in Nat
        /\ \A q \in Processes \ {p} :
             /\ settings'[q] = settings[q] /\ exit'[q] = exit[q]
             /\ before'[q] = before[q] /\ touched'[q] = touched[q]
    BY <1>2, <1>5 DEF TypeOK
  <1>10. pc'[p] = "idle" => touched'[p] = {}
    BY <1>2 DEF TypeOK, busy
  <1>11. ASSUME pc'[p] = "ask"
         PROVE  /\ settings'[p].outDir \in Dirs /\ exit'[p] = Nothing
                /\ before'[p] = {file \in FileIds : disk[settings'[p].outDir][file] # Absent}
                /\ touched'[p] = Busy(p, settings'[p].outDir)
    <2>1. parsed # Nothing /\ exit'[p] = Nothing /\ settings'[p] = parsed
      BY <1>2, <1>11 DEF TypeOK, Exit, Goto
    <2>2. before'[p] = found /\ touched'[p] = busy
      BY <1>2 DEF TypeOK
    <2>3. /\ found = {file \in FileIds : disk[parsed.outDir][file] # Absent}
          /\ busy = Busy(p, parsed.outDir)
      BY <1>11 DEF found, busy
    <2> QED
      BY <1>1, <2>1, <2>2, <2>3
  <1> QED
    BY <1>2, <1>6, <1>7, <1>8, <1>9, <1>10, <1>11

-----------------------------------------------------------------------------
(* Who is at a file.                                                           *)

(* Whoever is at a file after a step of p was at it before, or is p, which has  *)
(* found that it is not there, or is the download that p leaves behind.        *)
LEMMA BusyProceeds ==
  ASSUME TypeOK, NEW p \in Processes, Proceed(p), NEW q \in Processes, NEW dir,
         NEW file \in Busy(q, dir)'
  PROVE  \/ file \in Busy(q, dir)
         \/ q # p /\ FindsNothing(p) /\ Dir(p) = dir /\ file = Head(todo[p])
         \/ q = p /\ pc[p] \in {"wait", "grow"} /\ ~Running(p)'
  <1>1. CASE \E r \in Processes \ {q} :
               Downloading(r)' /\ settings'[r].outDir = dir /\ file = Head(todo'[r])
    <2>1. PICK r \in Processes \ {q} :
            Downloading(r)' /\ settings'[r].outDir = dir /\ file = Head(todo'[r])
      BY <1>1
    <2>2. settings'[r] = settings[r]
      BY ProceedFrame
    <2>3. CASE r # p
      <3>1. Downloading(r) /\ todo'[r] = todo[r]
        BY <2>1, <2>3, ProceedFrame DEF Downloading
      <3> QED
        BY <2>1, <2>2, <3>1 DEF Busy, Dir
    <2>4. CASE r = p
      <3>1. todo'[p] = todo[p] /\ (Downloading(p) \/ FindsNothing(p))
        BY <2>1, <2>4, ProceedsTo
      <3> QED
        BY <2>1, <2>2, <2>4, <3>1 DEF Busy, Dir
    <2> QED
      BY <2>3, <2>4
  <1>2. CASE \E job \in leftover' : job.dir = dir /\ file = job.file
    <2>1. PICK job \in leftover' : job.dir = dir /\ file = job.file
      BY <1>2
    <2>2. CASE job \in leftover
      BY <2>1, <2>2 DEF Busy
    <2>3. CASE pc[p] \in {"wait", "grow"} /\ ~Running(p)' /\ job = Left(p)
      <3>1. Dir(p) = dir /\ Head(todo[p]) = file /\ Downloading(p)
        BY <2>1, <2>3 DEF Left, Downloading
      <3> QED
        BY <2>3, <3>1 DEF Busy
    <2> QED
      BY <2>1, <2>2, <2>3, ProceedLeaves
  <1> QED
    BY <1>1, <1>2 DEF Busy, Dir

(* No other step puts anyone at a file.                                        *)
LEMMA BusyStays ==
  ASSUME TypeOK, NEW q \in Processes, NEW dir, NEW file \in Busy(q, dir)',
         \/ Publish
         \/ UNCHANGED vars
         \/ \E job \in leftover : GoOn(job)
         \/ \E p \in Processes, line \in CommandLines : Start(p, line)
  PROVE  file \in Busy(q, dir)
  <1>1. CASE Publish \/ UNCHANGED vars
    <2>1. UNCHANGED <<pc, settings, todo, leftover>>
      BY <1>1 DEF Publish, vars, process
    <2> QED
      BY <2>1 DEF Busy, Downloading, Dir
  <1>2. CASE \E job \in leftover : GoOn(job)
    <2>1. /\ UNCHANGED <<pc, settings, todo>>
          /\ \A left \in leftover' : \E old \in leftover : left.dir = old.dir /\ left.file = old.file
      BY <1>2, GoOnFrame DEF process
    <2>2. \/ \E r \in Processes \ {q} : Downloading(r) /\ Dir(r) = dir /\ file = Head(todo[r])
          \/ \E left \in leftover' : left.dir = dir /\ file = left.file
      BY <2>1 DEF Busy, Downloading, Dir
    <2>3. \/ \E r \in Processes \ {q} : Downloading(r) /\ Dir(r) = dir /\ file = Head(todo[r])
          \/ \E old \in leftover : old.dir = dir /\ file = old.file
      BY <2>1, <2>2
    <2> QED
      BY <2>3 DEF Busy
  <1>3. ASSUME NEW p \in Processes, NEW line \in CommandLines, Start(p, line)
        PROVE  file \in Busy(q, dir)
    <2>1. /\ UNCHANGED leftover
          /\ pc'[p] \in {"idle", "ask"}
          /\ \A r \in Processes \ {p} :
               pc'[r] = pc[r] /\ settings'[r] = settings[r] /\ todo'[r] = todo[r]
      BY <1>3, StartFrame
    <2>2. \/ \E r \in Processes \ {q} :
               Downloading(r)' /\ settings'[r].outDir = dir /\ file = Head(todo'[r])
          \/ \E job \in leftover : job.dir = dir /\ file = job.file
      BY <2>1 DEF Busy, Dir
    <2>3. ASSUME NEW r \in Processes, Downloading(r)'
          PROVE  Downloading(r) /\ settings'[r] = settings[r] /\ todo'[r] = todo[r]
      BY <2>1, <2>3 DEF Downloading
    <2> QED
      BY <2>2, <2>3 DEF Busy, Dir
  <1> QED
    BY <1>1, <1>2, <1>3

-----------------------------------------------------------------------------
(* The steps keep the invariant.                                               *)

LEMMA TypeStep == IInv /\ [Next]_vars => TypeOK'
  <1> SUFFICES ASSUME IInv, [Next]_vars PROVE TypeOK'
    OBVIOUS
  <1>0. TypeOK /\ StageOK
    BY DEF IInv
  <1> USE DEF TypeOK, Running, Succeeded, Dir
  <1>1. CASE Publish
    BY <1>0, <1>1 DEF Publish, process, history
  <1>2. ASSUME NEW p \in Processes, NEW line \in CommandLines, Start(p, line) PROVE TypeOK'
    <2>1. content' \in [Processes -> Versions \cup {Nothing}]
      BY <1>0, <1>2, StartFrame
    <2>2. \A q \in Processes : Running(q)' \/ Succeeded(q)' => settings'[q].outDir \in Dirs
      <3> SUFFICES ASSUME NEW q \in Processes, Running(q)' \/ Succeeded(q)'
                   PROVE  settings'[q].outDir \in Dirs
        OBVIOUS
      <3>1. CASE q = p
        BY <1>0, <1>2, <3>1, StartFrame
      <3>2. CASE q # p
        BY <1>0, <1>2, <3>2, StartFrame
      <3> QED
        BY <3>1, <3>2
    <2>3. touched' \in [Processes -> SUBSET FileIds]
      <3> SUFFICES ASSUME NEW q \in Processes PROVE touched'[q] \subseteq FileIds
        <4>1. \E new : touched' = [touched EXCEPT ![p] = new]
          BY <1>2 DEF Start
        <4> QED
          BY <1>0, <4>1
      <3>1. CASE q # p
        BY <1>0, <1>2, <3>1, StartFrame
      <3>2. CASE q = p
        <4>1. \A dir : Busy(p, dir) \subseteq FileIds
          <5>1. \A r \in Processes : Downloading(r) => Head(todo[r]) \in FileIds
            BY <1>0, HeadTailProperties DEF StageOK
          <5>2. \A job \in leftover : job.file \in FileIds
            BY <1>0
          <5> QED
            BY <5>1, <5>2 DEF Busy
        <4>2. touched'[p] = {} \/ touched'[p] = Busy(p, settings'[p].outDir)
          BY <1>0, <1>2, StartFrame
        <4> QED
          BY <3>2, <4>1, <4>2
      <3> QED
        BY <3>1, <3>2
    <2> QED
      BY <1>0, <1>2, <2>1, <2>2, <2>3, StartFrame
  <1>3. ASSUME NEW p \in Processes, Proceed(p) PROVE TypeOK'
    <2>0. todo[p] # <<>> => Head(todo[p]) \in FileIds /\ Tail(todo[p]) \in Seq(FileIds)
      BY <1>0, HeadTailProperties
    <2>1. /\ pc' \in [Processes -> {"idle", "ask", "outDir", "files", "create", "start", "wait", "grow"}]
          /\ DOMAIN exit' = Processes
      BY <1>0, <1>3 DEF Proceed, GetLatestDownloadInfo, GetOutDir, CheckFile, CreateDownload,
           StartDownload, BeginDownload, CompleteDownload, FailDownload, Finish, Kill, Goto, Exit
    <2>2. content' \in [Processes -> Versions \cup {Nothing}]
      BY <1>0, <1>3 DEF Proceed, GetLatestDownloadInfo, GetOutDir, CheckFile, CreateDownload,
           StartDownload, BeginDownload, CompleteDownload, FailDownload, Finish, Kill
    <2>3. todo' \in [Processes -> Seq(FileIds)]
      <3>0. ASSUME NEW status, Exit(p, status) PROVE todo' \in [Processes -> Seq(FileIds)]
        BY <1>0, <3>0, EmptySeq DEF Exit
      <3>1. CASE GetLatestDownloadInfo(p)
        BY <1>0, <3>0, <3>1, FilesAreFileIds DEF GetLatestDownloadInfo
      <3>2. CASE CheckFile(p) \/ CompleteDownload(p)
        <4>1. todo[p] # <<>>
          BY <1>0, <3>2 DEF CheckFile, CompleteDownload, StageOK, Downloading
        <4> QED
          BY <1>0, <2>0, <3>0, <3>2, <4>1 DEF CheckFile, CompleteDownload
      <3> QED
        BY <1>0, <1>3, <3>0, <3>1, <3>2 DEF Proceed, GetOutDir, CreateDownload, StartDownload,
             BeginDownload, FailDownload, Finish, Kill
    <2>4. disk' \in [Dirs -> [FileIds -> {Absent} \cup [version : Versions, whole : BOOLEAN]]]
      <3> DEFINE States == {Absent} \cup [version : Versions, whole : BOOLEAN]
      <3>0. ASSUME NEW is \in States,
                   disk' = [disk EXCEPT ![Dir(p)][Head(todo[p])] = is]
            PROVE  disk' \in [Dirs -> [FileIds -> States]]
        <4>1. disk \in [Dirs -> [FileIds -> States]]
          BY <1>0
        <4> HIDE DEF States, TypeOK
        <4> QED
          BY <3>0, <4>1, WriteType
      <3>1. CASE BeginDownload(p) \/ CompleteDownload(p)
        <4>1. content[p] \in Versions
          BY <1>0, <3>1 DEF BeginDownload, CompleteDownload, StageOK, Downloading
        <4>2. \E is \in {Partial(content[p]), Whole(content[p])} :
                disk' = [disk EXCEPT ![Dir(p)][Head(todo[p])] = is]
          BY <3>1 DEF BeginDownload, CompleteDownload
        <4>3. {Partial(content[p]), Whole(content[p])} \subseteq [version : Versions, whole : BOOLEAN]
          BY <4>1 DEF Partial, Whole
        <4> QED
          BY <4>2, <4>3, <3>0
      <3>2. CASE FailDownload(p)
        <4>1. UNCHANGED disk \/ disk' = [disk EXCEPT ![Dir(p)][Head(todo[p])] = Absent]
          BY <3>2 DEF FailDownload
        <4> QED
          BY <1>0, <4>1, <3>0
      <3> QED
        BY <1>0, <1>3, <3>1, <3>2 DEF Proceed, GetLatestDownloadInfo, GetOutDir, CheckFile,
             CreateDownload, StartDownload, Finish, Kill
    <2>5. \A q \in Processes : Running(q)' \/ Succeeded(q)' => settings'[q].outDir \in Dirs
      BY <1>0, <1>3, ProceedFrame
    <2>6. leftover' \subseteq [by : Processes, run : Nat, dir : Dirs, file : FileIds,
                               version : Versions, begun : BOOLEAN]
      <3>1. pc[p] \in {"wait", "grow"} =>
              Head(todo[p]) \in FileIds /\ content[p] \in Versions /\ Dir(p) \in Dirs
        BY <1>0, <2>0 DEF StageOK, Downloading
      <3>2. pc[p] \in {"wait", "grow"} =>
              Left(p) \in [by : Processes, run : Nat, dir : Dirs, file : FileIds,
                           version : Versions, begun : BOOLEAN]
        BY <1>0, <3>1 DEF Left
      <3> QED
        BY <1>0, <1>3, <3>2, ProceedLeaves
    <2>7. touched' \in [Processes -> SUBSET FileIds]
      <3>1. CASE CheckFile(p)
        <4>1. Head(todo[p]) \in FileIds
          BY <2>0, <3>1 DEF CheckFile
        <4>2. FileIds \cup {Head(todo[p])} = FileIds
          BY <4>1
        <4> QED
          BY <1>0, <1>3, <4>2, ProceedLeaves
      <3>2. CASE ~CheckFile(p)
        BY <1>0, <1>3, <3>2 DEF Proceed, GetLatestDownloadInfo, GetOutDir, CreateDownload,
             StartDownload, BeginDownload, CompleteDownload, FailDownload, Finish, Kill, history
      <3> QED
        BY <3>1, <3>2
    <2>8. latest' \in Versions /\ DOMAIN settings' = Processes /\ runs' \in Nat
          /\ before' \in [Processes -> SUBSET FileIds]
      BY <1>0, <1>3, ProceedFrame
    <2> QED
      BY <2>1, <2>2, <2>3, <2>4, <2>5, <2>6, <2>7, <2>8
  <1>4. ASSUME NEW job \in leftover, GoOn(job) PROVE TypeOK'
    BY <1>0, <1>4, GoOnFrame DEF process, history
  <1>5. CASE UNCHANGED vars
    BY <1>0, <1>5 DEF vars, process, history
  <1> QED
    BY <1>1, <1>2, <1>3, <1>4, <1>5, Steps

(* A run that ends does not go on; one that goes on has not ended.             *)
LEMMA StageStep == IInv /\ [Next]_vars => StageOK'
  <1> SUFFICES ASSUME IInv, [Next]_vars PROVE StageOK'
    OBVIOUS
  <1>0. TypeOK /\ StageOK
    BY DEF IInv
  <1> USE DEF Running, Downloading
  <1>1. CASE Publish \/ UNCHANGED vars \/ \E job \in leftover : GoOn(job)
    BY <1>0, <1>1 DEF StageOK, Publish, GoOn, vars, process, history
  <1>2. ASSUME NEW p \in Processes, NEW line \in CommandLines, Start(p, line) PROVE StageOK'
    <2> SUFFICES ASSUME NEW q \in Processes
                 PROVE  /\ Running(q)' => exit'[q] # 0
                        /\ Downloading(q)' => todo'[q] # <<>>
                        /\ Downloading(q)' \/ pc'[q] \in {"files", "outDir"} => content'[q] # Nothing
                        /\ pc'[q] = "outDir" => todo'[q] = FilesOf[content'[q]]
      BY DEF StageOK
    <2>1. CASE q = p
      <3>1. pc'[p] \in {"idle", "ask"} /\ (pc'[p] = "ask" => exit'[p] = Nothing)
        BY <1>0, <1>2, StartFrame
      <3> QED
        BY <2>1, <3>1, ClientAssumption
    <2>2. CASE q # p
      <3>1. pc'[q] = pc[q] /\ exit'[q] = exit[q] /\ todo'[q] = todo[q] /\ content'[q] = content[q]
        BY <1>0, <1>2, <2>2, StartFrame DEF TypeOK
      <3> QED
        BY <1>0, <3>1 DEF StageOK
    <2> QED
      BY <2>1, <2>2
  <1>3. ASSUME NEW p \in Processes, Proceed(p) PROVE StageOK'
    <2> SUFFICES ASSUME NEW q \in Processes
                 PROVE  /\ Running(q)' => exit'[q] # 0
                        /\ Downloading(q)' => todo'[q] # <<>>
                        /\ Downloading(q)' \/ pc'[q] \in {"files", "outDir"} => content'[q] # Nothing
                        /\ pc'[q] = "outDir" => todo'[q] = FilesOf[content'[q]]
      BY DEF StageOK
    <2>1. CASE q # p
      BY <1>0, <1>3, <2>1, ProceedFrame DEF StageOK
    <2>2. CASE q = p /\ GetLatestDownloadInfo(p)
      <3>1. latest # Nothing /\ Running(p)
        BY <1>0, <2>2, ClientAssumption DEF TypeOK, GetLatestDownloadInfo
      <3>2. CASE Exit(p, 1)
        BY <1>0, <2>2, <3>2 DEF TypeOK, Exit, Goto
      <3>3. CASE /\ content' = [content EXCEPT ![p] = latest]
                 /\ todo' = [todo EXCEPT ![p] = FilesOf[latest]]
                 /\ Goto(p, "outDir")
                 /\ UNCHANGED exit
        BY <1>0, <2>2, <3>1, <3>3 DEF StageOK, TypeOK, Goto
      <3> QED
        BY <2>2, <3>2, <3>3 DEF GetLatestDownloadInfo
    <2>3. CASE q = p /\ GetOutDir(p)
      BY <1>0, <2>3 DEF StageOK, TypeOK, GetOutDir, Goto, Exit
    <2>4. CASE q = p /\ CheckFile(p)
      BY <1>0, <2>4 DEF StageOK, TypeOK, CheckFile, Goto, Exit
    <2>5. CASE q = p /\ (CreateDownload(p) \/ StartDownload(p) \/ BeginDownload(p) \/ CompleteDownload(p))
      BY <1>0, <2>5 DEF StageOK, TypeOK, CreateDownload, StartDownload, BeginDownload,
           CompleteDownload, Goto, Exit
    <2>6. CASE q = p /\ (FailDownload(p) \/ Finish(p) \/ Kill(p))
      BY <1>0, <2>6 DEF StageOK, TypeOK, FailDownload, Finish, Kill, Goto, Exit
    <2> QED
      BY <1>3, <2>1, <2>2, <2>3, <2>4, <2>5, <2>6 DEF Proceed
  <1> QED
    BY <1>1, <1>2, <1>3, Steps

(* Whoever comes to a file in the directory of a run is known to it.           *)
LEMMA ClaimsStep == IInv /\ [Next]_vars => ClaimsOK'
  <1> SUFFICES ASSUME IInv, [Next]_vars, NEW q \in Processes, Running(q)',
                      NEW dir, dir = settings'[q].outDir, NEW file \in Busy(q, dir)'
               PROVE  file \in touched'[q]
    BY DEF ClaimsOK, Busy, Dir
  <1>0. TypeOK /\ ClaimsOK
    BY DEF IInv
  <1>1. CASE \/ Publish \/ UNCHANGED vars \/ \E job \in leftover : GoOn(job)
    <2>1. UNCHANGED <<pc, settings, touched>>
      BY <1>1 DEF Publish, GoOn, vars, process, history
    <2>2. Running(q) /\ Dir(q) = dir
      BY <2>1 DEF Running, Dir
    <2>3. file \in Busy(q, dir)
      BY <1>0, <1>1, BusyStays
    <2> QED
      BY <1>0, <2>1, <2>2, <2>3 DEF ClaimsOK
  <1>2. ASSUME NEW p \in Processes, NEW line \in CommandLines, Start(p, line)
        PROVE  file \in touched'[q]
    <2>1. file \in Busy(q, dir)
      BY <1>0, <1>2, BusyStays
    <2>2. CASE q = p
      <3>1. pc'[p] \in {"idle", "ask"} /\ (pc'[p] = "ask" => touched'[p] = Busy(p, dir))
        BY <1>0, <1>2, <2>2, StartFrame
      <3> QED
        BY <2>1, <2>2, <3>1 DEF Running
    <2>3. CASE q # p
      <3>1. pc'[q] = pc[q] /\ settings'[q] = settings[q] /\ touched'[q] = touched[q]
        BY <1>0, <1>2, <2>3, StartFrame
      <3>2. Running(q) /\ Dir(q) = dir
        BY <3>1 DEF Running, Dir
      <3> QED
        BY <1>0, <2>1, <3>1, <3>2 DEF ClaimsOK
    <2> QED
      BY <2>2, <2>3
  <1>3. ASSUME NEW p \in Processes, Proceed(p) PROVE file \in touched'[q]
    <2>1. Running(q) /\ Dir(q) = dir
      BY <1>0, <1>3, ProceedFrame DEF Running, Dir
    <2>2. touched[q] \subseteq touched'[q]
      BY <1>0, <1>3, ProceedLeaves
    <2>3. CASE file \in Busy(q, dir)
      BY <1>0, <2>1, <2>2, <2>3 DEF ClaimsOK
    <2>4. CASE q # p /\ FindsNothing(p) /\ Dir(p) = dir /\ file = Head(todo[p])
      BY <2>1, <2>4 DEF FindsNothing
    <2> QED
      BY <1>0, <1>3, <2>3, <2>4, BusyProceeds
  <1> QED
    BY <1>1, <1>2, <1>3, Steps

(* The list of files without its first.                                        *)
LEMMA TailOf ==
  ASSUME NEW list \in Seq(FileIds), list # <<>>
  PROVE  /\ Head(list) \in FileIds /\ Head(list) = list[1] /\ 1 \in DOMAIN list
         /\ \A j \in DOMAIN list : j = 1 \/ (j - 1 \in DOMAIN Tail(list) /\ Tail(list)[j - 1] = list[j])
  <1>1. /\ Head(list) \in FileIds /\ Tail(list) \in Seq(FileIds)
        /\ Len(Tail(list)) = Len(list) - 1
        /\ \A i \in 1 .. Len(Tail(list)) : Tail(list)[i] = list[i + 1]
    BY HeadTailProperties
  <1>2. Len(list) \in Nat \ {0} /\ DOMAIN list = 1 .. Len(list) /\ Head(list) = list[1]
    BY EmptySeq, LenProperties
  <1>3. DOMAIN Tail(list) = 1 .. Len(Tail(list))
    BY <1>1, LenProperties
  <1> QED
    BY <1>1, <1>2, <1>3

(* What is in a list and not its first is in the rest.                         *)
LEMMA PastTheFirst ==
  ASSUME NEW list \in Seq(FileIds), list # <<>>, NEW file,
         \E j \in DOMAIN list : list[j] = file
  PROVE  file = Head(list) \/ \E j \in DOMAIN Tail(list) : Tail(list)[j] = file
  BY TailOf

(* A run keeps what it knows while others change only what they have touched.  *)
LEMMA RunKeeps ==
  ASSUME TypeOK, StageOK, NEW q \in Processes, Running(q), RunOf(q),
         pc'[q] = pc[q], settings'[q] = settings[q], content'[q] = content[q],
         todo'[q] = todo[q], before'[q] = before[q], touched[q] \subseteq touched'[q],
         \A file \in FileIds :
           disk'[Dir(q)][file] = disk[Dir(q)][file] \/ file \in touched[q]
  PROVE  RunOf(q)'
  <1>1. Dir(q)' = Dir(q) /\ Foreign(q) \subseteq Foreign(q)' /\ touched[q] \subseteq Foreign(q)'
    BY DEF Dir, Foreign
  <1>2. \A file \in FileIds : file \in before[q] \ touched'[q] => disk'[Dir(q)][file] # Absent
    BY DEF RunOf
  <1>3. pc[q] \in {"ask", "outDir"} =>
          \A file \in FileIds : disk'[Dir(q)][file] # Absent => file \in Foreign(q)'
    BY <1>1 DEF RunOf
  <1>4. ASSUME Downloading(q) \/ pc[q] = "files"
        PROVE  /\ \A file \in FileIds :
                    \/ file \in Foreign(q)'
                    \/ disk'[Dir(q)][file] \in {Absent, Whole(content[q])}
                    \/ pc[q] = "grow" /\ file = Head(todo[q])
               /\ \A i \in DOMAIN FilesOf[content[q]] :
                    \/ FilesOf[content[q]][i] \in Foreign(q)'
                    \/ disk'[Dir(q)][FilesOf[content[q]][i]] = Whole(content[q])
                    \/ \E j \in DOMAIN todo[q] : todo[q][j] = FilesOf[content[q]][i]
    <2>1. content[q] \in Versions
      BY <1>4 DEF StageOK, TypeOK
    <2>2. \A i \in DOMAIN FilesOf[content[q]] : FilesOf[content[q]][i] \in FileIds
      BY <2>1, FilesAreFileIds
    <2> QED
      BY <1>1, <1>4, <2>2 DEF RunOf
  <1> QED
    BY <1>1, <1>2, <1>3, <1>4 DEF RunOf, Downloading, Whole

(* Each step of a run that goes on.                                            *)
LEMMA RunProceeds ==
  ASSUME IInv, NEW p \in Processes, Proceed(p), Running(p)'
  PROVE  RunOf(p)'
  <1>0. TypeOK /\ StageOK /\ Running(p) /\ RunOf(p)
    BY ProceedFrame DEF IInv, RunOK
  <1>1. /\ UNCHANGED <<settings, before, latest>> /\ Dir(p)' = Dir(p) /\ Dir(p) \in Dirs
        /\ content[p] # Nothing => content[p] \in Versions
        /\ touched'[p] = touched[p] /\ Foreign(p)' = Foreign(p)
    BY <1>0, ProceedFrame, ProceedLeaves DEF TypeOK, Dir, Foreign
  <1>2. CASE GetLatestDownloadInfo(p)
    <2>1. pc'[p] = "outDir" /\ pc[p] = "ask" /\ UNCHANGED disk
      BY <1>0, <1>2 DEF GetLatestDownloadInfo, TypeOK, Goto, Exit, Running
    <2> QED
      BY <1>0, <1>1, <2>1 DEF RunOf, Downloading
  <1>3. CASE GetOutDir(p)
    <2>1. /\ pc'[p] = "files" /\ pc[p] = "outDir" /\ UNCHANGED <<disk, todo, content>>
      BY <1>0, <1>3 DEF GetOutDir, TypeOK, Goto, Exit, Running
    <2>2. todo[p] = FilesOf[content[p]] /\ content[p] \in Versions
      BY <1>0, <1>1, <2>1 DEF StageOK
    <2>3. \A file \in FileIds : file \in Foreign(p) \/ disk[Dir(p)][file] = Absent
      BY <1>0, <2>1 DEF RunOf
    <2> QED
      BY <1>0, <1>1, <2>1, <2>2, <2>3 DEF RunOf, Downloading
  <1>4. CASE CheckFile(p)
    <2>1. /\ pc[p] = "files" /\ UNCHANGED <<disk, content>> /\ todo[p] # <<>> /\ content[p] \in Versions
          /\ todo[p] \in Seq(FileIds)
      BY <1>0, <1>1, <1>4 DEF CheckFile, StageOK, TypeOK
    <2>2. Head(todo[p]) \in FileIds
      BY <2>1, TailOf
    <2>3. CASE disk[Dir(p)][Head(todo[p])] # Absent
      <3>1. todo' = [todo EXCEPT ![p] = Tail(@)] /\ pc' = pc
        BY <1>0, <1>4, <2>3 DEF CheckFile, TypeOK, Exit, Goto, Running
      <3>2. Head(todo[p]) \in Foreign(p) \/ disk[Dir(p)][Head(todo[p])] = Whole(content[p])
        BY <1>0, <2>1, <2>2, <2>3 DEF RunOf
      <3>3. \A i \in DOMAIN FilesOf[content[p]] :
              \/ FilesOf[content[p]][i] \in Foreign(p)
              \/ disk[Dir(p)][FilesOf[content[p]][i]] = Whole(content[p])
              \/ \E j \in DOMAIN todo'[p] : todo'[p][j] = FilesOf[content[p]][i]
        <4> SUFFICES ASSUME NEW i \in DOMAIN FilesOf[content[p]]
                     PROVE  \/ FilesOf[content[p]][i] \in Foreign(p)
                            \/ disk[Dir(p)][FilesOf[content[p]][i]] = Whole(content[p])
                            \/ \E j \in DOMAIN todo'[p] : todo'[p][j] = FilesOf[content[p]][i]
          OBVIOUS
        <4>1. \/ FilesOf[content[p]][i] \in Foreign(p)
              \/ disk[Dir(p)][FilesOf[content[p]][i]] = Whole(content[p])
              \/ \E j \in DOMAIN todo[p] : todo[p][j] = FilesOf[content[p]][i]
          BY <1>0, <2>1 DEF RunOf
        <4>2. todo'[p] = Tail(todo[p])
          BY <1>0, <3>1 DEF TypeOK
        <4>3. CASE \E j \in DOMAIN todo[p] : todo[p][j] = FilesOf[content[p]][i]
          <5>1. \/ FilesOf[content[p]][i] = Head(todo[p])
                \/ \E j \in DOMAIN Tail(todo[p]) : Tail(todo[p])[j] = FilesOf[content[p]][i]
            BY <2>1, <4>3, PastTheFirst
          <5> QED
            BY <3>2, <4>2, <5>1
        <4> QED
          BY <4>1, <4>3
      <3> QED
        BY <1>0, <1>1, <2>1, <3>1, <3>3 DEF RunOf, Downloading
    <2>4. CASE disk[Dir(p)][Head(todo[p])] = Absent
      <3>1. pc'[p] = "create" /\ todo' = todo
        BY <1>0, <1>4, <2>4 DEF CheckFile, Goto, TypeOK, Exit, Running
      <3>2. Head(todo[p]) \notin before[p] \ touched[p]
        BY <1>0, <2>2, <2>4 DEF RunOf
      <3> QED
        BY <1>0, <1>1, <2>1, <3>1, <3>2 DEF RunOf, Downloading
    <2> QED
      BY <2>3, <2>4
  <1>5. CASE CreateDownload(p) \/ StartDownload(p)
    <2>1. /\ pc[p] \in {"create", "start"} /\ pc'[p] \in {"start", "wait"}
          /\ UNCHANGED <<disk, todo, content>>
      BY <1>0, <1>5 DEF CreateDownload, StartDownload, TypeOK, Goto, Exit, Running
    <2> QED
      BY <1>0, <1>1, <2>1 DEF RunOf, Downloading
  <1>6. CASE BeginDownload(p)
    <2>1. pc[p] = "wait" /\ pc'[p] = "grow" /\ UNCHANGED <<todo, content>>
      BY <1>0, <1>6 DEF BeginDownload, TypeOK, Goto
    <2>2. /\ Head(todo[p]) \notin before[p] \ touched[p] /\ todo[p] # <<>> /\ content[p] \in Versions
          /\ todo[p] \in Seq(FileIds)
      BY <1>0, <1>1, <2>1 DEF RunOf, StageOK, Downloading, TypeOK
    <2>3. \A file \in FileIds : file # Head(todo[p]) => disk'[Dir(p)][file] = disk[Dir(p)][file]
      BY <1>0, <1>1, ProceedFrame
    <2>4. \A i \in DOMAIN FilesOf[content[p]] :
            \/ FilesOf[content[p]][i] \in Foreign(p)
            \/ disk'[Dir(p)][FilesOf[content[p]][i]] = Whole(content[p])
            \/ \E j \in DOMAIN todo[p] : todo[p][j] = FilesOf[content[p]][i]
      <3> SUFFICES ASSUME NEW i \in DOMAIN FilesOf[content[p]]
                   PROVE  \/ FilesOf[content[p]][i] \in Foreign(p)
                          \/ disk'[Dir(p)][FilesOf[content[p]][i]] = Whole(content[p])
                          \/ \E j \in DOMAIN todo[p] : todo[p][j] = FilesOf[content[p]][i]
        OBVIOUS
      <3>1. FilesOf[content[p]][i] \in FileIds /\ 1 \in DOMAIN todo[p] /\ todo[p][1] = Head(todo[p])
        BY <2>2, FilesAreFileIds, TailOf
      <3>2. \/ FilesOf[content[p]][i] \in Foreign(p)
            \/ disk[Dir(p)][FilesOf[content[p]][i]] = Whole(content[p])
            \/ \E j \in DOMAIN todo[p] : todo[p][j] = FilesOf[content[p]][i]
        BY <1>0, <2>1 DEF RunOf, Downloading
      <3> QED
        BY <2>3, <3>1, <3>2
    <2>5. \A file \in FileIds : file \in before[p] \ touched[p] => disk'[Dir(p)][file] # Absent
      BY <1>0, <2>2, <2>3 DEF RunOf
    <2>6. \A file \in FileIds :
            \/ file \in Foreign(p)
            \/ disk'[Dir(p)][file] \in {Absent, Whole(content[p])}
            \/ file = Head(todo[p])
      BY <1>0, <2>1, <2>3 DEF RunOf, Downloading
    <2> QED
      BY <1>1, <2>1, <2>2, <2>4, <2>5, <2>6 DEF RunOf, Downloading
  <1>7. CASE CompleteDownload(p)
    <2>1. /\ pc[p] = "grow" /\ pc'[p] = "files" /\ UNCHANGED content
          /\ todo' = [todo EXCEPT ![p] = Tail(@)]
          /\ disk' = [disk EXCEPT ![Dir(p)][Head(todo[p])] = Whole(content[p])]
      BY <1>0, <1>7 DEF CompleteDownload, TypeOK, Goto
    <2>2. /\ Head(todo[p]) \notin before[p] \ touched[p] /\ todo[p] # <<>> /\ content[p] # Nothing
          /\ content[p] \in Versions /\ todo[p] \in Seq(FileIds)
      BY <1>0, <1>1, <2>1 DEF RunOf, StageOK, Downloading, TypeOK
    <2>3. \A file \in FileIds : file # Head(todo[p]) => disk'[Dir(p)][file] = disk[Dir(p)][file]
      BY <1>0, <1>1, ProceedFrame
    <2>4. Head(todo[p]) \in FileIds /\ disk'[Dir(p)][Head(todo[p])] = Whole(content[p])
      BY <1>0, <1>1, <2>1, <2>2, TailOf DEF TypeOK
    <2>5. \A i \in DOMAIN FilesOf[content[p]] :
            \/ FilesOf[content[p]][i] \in Foreign(p)
            \/ disk'[Dir(p)][FilesOf[content[p]][i]] = Whole(content[p])
            \/ \E j \in DOMAIN todo'[p] : todo'[p][j] = FilesOf[content[p]][i]
      <3> SUFFICES ASSUME NEW i \in DOMAIN FilesOf[content[p]]
                   PROVE  \/ FilesOf[content[p]][i] \in Foreign(p)
                          \/ disk'[Dir(p)][FilesOf[content[p]][i]] = Whole(content[p])
                          \/ \E j \in DOMAIN todo'[p] : todo'[p][j] = FilesOf[content[p]][i]
        OBVIOUS
      <3>1. FilesOf[content[p]][i] \in FileIds
        BY <2>2, FilesAreFileIds
      <3>2. \/ FilesOf[content[p]][i] \in Foreign(p)
            \/ disk'[Dir(p)][FilesOf[content[p]][i]] = Whole(content[p])
            \/ \E j \in DOMAIN todo[p] : todo[p][j] = FilesOf[content[p]][i]
        BY <1>0, <2>1, <2>3, <2>4, <3>1 DEF RunOf, Downloading
      <3>3. todo'[p] = Tail(todo[p])
        BY <1>0, <2>1 DEF TypeOK
      <3>4. CASE \E j \in DOMAIN todo[p] : todo[p][j] = FilesOf[content[p]][i]
        <4>1. \/ FilesOf[content[p]][i] = Head(todo[p])
              \/ \E j \in DOMAIN Tail(todo[p]) : Tail(todo[p])[j] = FilesOf[content[p]][i]
          BY <2>2, <3>4, PastTheFirst
        <4> QED
          BY <2>4, <3>3, <4>1
      <3> QED
        BY <3>2, <3>4
    <2>6. \A file \in FileIds :
            file \in Foreign(p) \/ disk'[Dir(p)][file] \in {Absent, Whole(content[p])}
      BY <1>0, <2>1, <2>3, <2>4 DEF RunOf, Downloading
    <2>7. \A file \in FileIds : file \in before[p] \ touched[p] => disk'[Dir(p)][file] # Absent
      BY <1>0, <2>2, <2>3 DEF RunOf
    <2> QED
      BY <1>1, <2>1, <2>5, <2>6, <2>7 DEF RunOf, Downloading
  <1>8. ~(FailDownload(p) \/ Finish(p) \/ Kill(p))
    BY <1>0 DEF FailDownload, Finish, Kill, Exit, Goto, TypeOK, Running
  <1> QED
    BY <1>2, <1>3, <1>4, <1>5, <1>6, <1>7, <1>8 DEF Proceed

(* What someone else writes in the directory of a run is known to be touched.  *)
LEMMA RunStep == IInv /\ [Next]_vars => RunOK'
  <1> SUFFICES ASSUME IInv, [Next]_vars, NEW q \in Processes, Running(q)' PROVE RunOf(q)'
    BY DEF RunOK
  <1>0. TypeOK /\ StageOK /\ ClaimsOK /\ RunOK
    BY DEF IInv
  <1>1. CASE Publish \/ UNCHANGED vars
    <2>1. UNCHANGED <<disk, pc, settings, content, todo, before, touched>>
      BY <1>1 DEF Publish, vars, process, history
    <2>2. Running(q) /\ RunOf(q)
      BY <1>0, <2>1 DEF RunOK, Running
    <2> QED
      BY <1>0, <2>1, <2>2, RunKeeps
  <1>2. ASSUME NEW p \in Processes, NEW line \in CommandLines, Start(p, line) PROVE RunOf(q)'
    <2>1. /\ pc'[p] \in {"idle", "ask"} /\ UNCHANGED disk
          /\ pc'[p] = "ask" =>
               before'[p] = {file \in FileIds : disk[settings'[p].outDir][file] # Absent}
      BY <1>0, <1>2, StartFrame
    <2>2. CASE q = p
      <3>1. pc'[p] = "ask"
        BY <2>1, <2>2 DEF Running
      <3> QED
        BY <2>1, <2>2, <3>1 DEF RunOf, Downloading, Dir, Foreign
    <2>3. CASE q # p
      <3>1. /\ pc'[q] = pc[q] /\ settings'[q] = settings[q] /\ todo'[q] = todo[q]
            /\ before'[q] = before[q] /\ touched'[q] = touched[q]
        BY <1>0, <1>2, <2>3, StartFrame
      <3>2. content'[q] = content[q]
        BY <1>0, <1>2, <2>3, StartFrame DEF TypeOK
      <3>3. Running(q) /\ RunOf(q)
        BY <1>0, <3>1 DEF RunOK, Running
      <3> QED
        BY <1>0, <2>1, <3>1, <3>2, <3>3, RunKeeps
    <2> QED
      BY <2>2, <2>3
  <1>3. ASSUME NEW p \in Processes, Proceed(p) PROVE RunOf(q)'
    <2>1. CASE q = p
      BY <1>3, <2>1, RunProceeds
    <2>2. CASE q # p
      <3>1. /\ UNCHANGED <<settings, before>> /\ touched[q] \subseteq touched'[q]
            /\ pc'[q] = pc[q] /\ content'[q] = content[q] /\ todo'[q] = todo[q]
        BY <1>0, <1>3, <2>2, ProceedFrame, ProceedLeaves
      <3>2. Running(q) /\ RunOf(q) /\ Dir(q) \in Dirs
        BY <1>0, <3>1 DEF RunOK, Running, TypeOK
      <3>3. Downloading(p) /\ Dir(p) = Dir(q) => Head(todo[p]) \in touched[q]
        BY <1>0, <2>2, <3>2 DEF ClaimsOK, Busy
      <3>4. \A file \in FileIds :
              disk'[Dir(q)][file] = disk[Dir(q)][file] \/ file \in touched[q]
        BY <1>0, <1>3, <3>2, <3>3, ProceedFrame
      <3> QED
        BY <1>0, <3>1, <3>2, <3>4, RunKeeps
    <2> QED
      BY <2>1, <2>2
  <1>4. ASSUME NEW job \in leftover, GoOn(job) PROVE RunOf(q)'
    <2>1. UNCHANGED <<pc, settings, content, todo, before, touched>>
      BY <1>0, <1>4, GoOnFrame DEF process, history
    <2>2. Running(q) /\ RunOf(q) /\ Dir(q) \in Dirs
      BY <1>0, <2>1 DEF RunOK, Running, TypeOK
    <2>3. job.dir = Dir(q) => job.file \in touched[q]
      BY <1>0, <2>2 DEF ClaimsOK, Busy
    <2>4. \A file \in FileIds :
            disk'[Dir(q)][file] = disk[Dir(q)][file] \/ file \in touched[q]
      BY <1>0, <1>4, <2>2, <2>3, GoOnFrame
    <2> QED
      BY <1>0, <2>1, <2>2, <2>4, RunKeeps
  <1> QED
    BY <1>1, <1>2, <1>3, <1>4, Steps

(* Only the end of the list ends a run well.                                   *)
LEMMA OnlyFinishSucceeds ==
  ASSUME TypeOK, StageOK, NEW p \in Processes, Proceed(p), exit'[p] = 0
  PROVE  pc[p] = "files" /\ todo[p] = <<>> /\ UNCHANGED <<disk, content, touched>> /\ pc'[p] = "idle"
  <1>1. Running(p) /\ exit[p] # 0 /\ exit'[p] # exit[p]
    BY ProceedFrame DEF StageOK
  <1>2. ~Exit(p, 1) /\ ~Exit(p, 134) /\ ~Exit(p, 137)
    <2>1. ASSUME NEW status \in Nat, Exit(p, status) PROVE status = 0
      BY <2>1 DEF Exit, TypeOK
    <2> QED
      BY <2>1
  <1>3. ~(GetLatestDownloadInfo(p) \/ GetOutDir(p) \/ CheckFile(p) \/ CreateDownload(p))
    BY <1>1, <1>2 DEF GetLatestDownloadInfo, GetOutDir, CheckFile, CreateDownload
  <1>4. ~(StartDownload(p) \/ BeginDownload(p) \/ CompleteDownload(p))
    BY <1>1 DEF StartDownload, BeginDownload, CompleteDownload
  <1>5. ~(FailDownload(p) \/ Kill(p))
    BY <1>2 DEF FailDownload, Kill
  <1>6. Finish(p)
    BY <1>3, <1>4, <1>5 DEF Proceed
  <1> QED
    BY <1>6 DEF Finish, Exit, Goto, TypeOK, history

(* Nobody is at a file that a run which succeeded has left.                    *)
LEMMA WholeStep == IInv /\ [Next]_vars => UntouchedFilesAreWhole'
  <1> SUFFICES ASSUME IInv, [Next]_vars, NEW q \in Processes, Succeeded(q)',
                      NEW i \in DOMAIN FilesOf[content'[q]]
               PROVE  \/ FilesOf[content'[q]][i] \in Foreign(q)'
                      \/ disk'[Dir(q)'][FilesOf[content'[q]][i]] = Whole(content'[q])
    BY DEF UntouchedFilesAreWhole, Whole
  <1>0. TypeOK /\ StageOK /\ RunOK /\ UntouchedFilesAreWhole /\ DoneOK
    BY DEF IInv
  <1>1. CASE Publish \/ UNCHANGED vars
    BY <1>0, <1>1 DEF UntouchedFilesAreWhole, Succeeded, Dir, Foreign, Publish, vars, process, history
  <1>2. ASSUME NEW p \in Processes, NEW line \in CommandLines, Start(p, line)
        PROVE  \/ FilesOf[content'[q]][i] \in Foreign(q)'
               \/ disk'[Dir(q)'][FilesOf[content'[q]][i]] = Whole(content'[q])
    <2>1. content' = [content EXCEPT ![p] = Nothing]
      BY <1>0, <1>2, StartFrame
    <2>2. q # p /\ content'[q] = content[q]
      BY <1>0, <2>1 DEF Succeeded, TypeOK
    <2>3. /\ exit'[q] = exit[q] /\ settings'[q] = settings[q] /\ before'[q] = before[q]
          /\ touched'[q] = touched[q] /\ UNCHANGED disk
      BY <1>0, <1>2, <2>2, StartFrame
    <2> QED
      BY <1>0, <2>2, <2>3 DEF UntouchedFilesAreWhole, Succeeded, Dir, Foreign
  <1>3. ASSUME NEW p \in Processes, Proceed(p)
        PROVE  \/ FilesOf[content'[q]][i] \in Foreign(q)'
               \/ disk'[Dir(q)'][FilesOf[content'[q]][i]] = Whole(content'[q])
    <2>0. Running(p) /\ Dir(q)' = Dir(q) /\ Foreign(q) \subseteq Foreign(q)'
      BY <1>0, <1>3, ProceedFrame, ProceedLeaves DEF Dir, Foreign
    <2>1. CASE q = p
      <3>1. pc[p] = "files" /\ todo[p] = <<>> /\ UNCHANGED <<disk, content>>
        BY <1>0, <1>3, <2>1, OnlyFinishSucceeds DEF Succeeded
      <3>2. \/ FilesOf[content[p]][i] \in Foreign(p)
            \/ disk[Dir(p)][FilesOf[content[p]][i]] = Whole(content[p])
            \/ \E j \in DOMAIN todo[p] : todo[p][j] = FilesOf[content[p]][i]
        BY <1>0, <2>0, <2>1, <3>1 DEF RunOK, RunOf
      <3>3. DOMAIN todo[p] = {}
        BY <3>1
      <3> QED
        BY <2>0, <2>1, <3>1, <3>2, <3>3
    <2>2. CASE q # p
      <3>1. exit'[q] = exit[q] /\ content'[q] = content[q]
        BY <1>0, <1>3, <2>2, ProceedFrame
      <3>2. Succeeded(q) /\ Dir(q) \in Dirs /\ content[q] \in Versions
        BY <1>0, <3>1 DEF Succeeded, TypeOK
      <3>3. FilesOf[content[q]][i] \in FileIds
        BY <3>1, <3>2, FilesAreFileIds
      <3>4. \/ FilesOf[content[q]][i] \in Foreign(q)
            \/ disk[Dir(q)][FilesOf[content[q]][i]] = Whole(content[q])
        BY <1>0, <3>1, <3>2 DEF UntouchedFilesAreWhole
      <3>5. CASE disk'[Dir(q)][FilesOf[content[q]][i]] = disk[Dir(q)][FilesOf[content[q]][i]]
        BY <2>0, <3>1, <3>4, <3>5
      <3>6. CASE /\ Downloading(p) /\ Dir(q) = Dir(p)
                 /\ FilesOf[content[q]][i] = Head(todo[p])
        <4>1. FilesOf[content[q]][i] \in Busy(q, Dir(q))
          BY <2>2, <3>6 DEF Busy
        <4> QED
          BY <1>0, <2>0, <3>1, <3>2, <4>1 DEF DoneOK
      <3> QED
        BY <1>0, <1>3, <3>2, <3>3, <3>5, <3>6, ProceedFrame
    <2> QED
      BY <2>1, <2>2
  <1>4. ASSUME NEW job \in leftover, GoOn(job)
        PROVE  \/ FilesOf[content'[q]][i] \in Foreign(q)'
               \/ disk'[Dir(q)'][FilesOf[content'[q]][i]] = Whole(content'[q])
    <2>1. UNCHANGED <<exit, settings, content, before, touched>>
      BY <1>0, <1>4, GoOnFrame DEF process, history
    <2>2. /\ Succeeded(q) /\ Dir(q) \in Dirs /\ content[q] \in Versions
          /\ Dir(q)' = Dir(q) /\ Foreign(q)' = Foreign(q)
      BY <1>0, <2>1 DEF Succeeded, TypeOK, Dir, Foreign
    <2>3. FilesOf[content[q]][i] \in FileIds
      BY <2>1, <2>2, FilesAreFileIds
    <2>4. CASE disk'[Dir(q)][FilesOf[content[q]][i]] = disk[Dir(q)][FilesOf[content[q]][i]]
      BY <1>0, <2>1, <2>2, <2>4 DEF UntouchedFilesAreWhole
    <2>5. CASE job.dir = Dir(q) /\ job.file = FilesOf[content[q]][i]
      <3>1. FilesOf[content[q]][i] \in Busy(q, Dir(q))
        BY <2>5 DEF Busy
      <3> QED
        BY <1>0, <2>1, <2>2, <3>1 DEF DoneOK
    <2> QED
      BY <1>0, <1>4, <2>2, <2>3, <2>4, <2>5, GoOnFrame
  <1> QED
    BY <1>1, <1>2, <1>3, <1>4, Steps

(* A run goes to download only what is not there.                              *)
LEMMA DoneStep == IInv /\ [Next]_vars => DoneOK'
  <1> SUFFICES ASSUME IInv, [Next]_vars, NEW q \in Processes, Succeeded(q)',
                      NEW dir, dir = settings'[q].outDir, NEW file \in Busy(q, dir)',
                      NEW i \in DOMAIN FilesOf[content'[q]], file = FilesOf[content'[q]][i]
               PROVE  file \in Foreign(q)'
    BY DEF DoneOK, Busy, Dir
  <1>0. TypeOK /\ StageOK /\ ClaimsOK /\ UntouchedFilesAreWhole /\ DoneOK
    BY DEF IInv
  <1>1. CASE \/ Publish \/ UNCHANGED vars \/ \E job \in leftover : GoOn(job)
    <2>1. UNCHANGED <<exit, settings, content, before, touched>>
      BY <1>1 DEF Publish, GoOn, vars, process, history
    <2>2. file \in Busy(q, dir) /\ Succeeded(q) /\ Dir(q) = dir /\ Foreign(q)' = Foreign(q)
      BY <1>0, <1>1, <2>1, BusyStays DEF Succeeded, Dir, Foreign
    <2> QED
      BY <1>0, <2>1, <2>2 DEF DoneOK
  <1>2. ASSUME NEW p \in Processes, NEW line \in CommandLines, Start(p, line)
        PROVE  file \in Foreign(q)'
    <2>1. content' = [content EXCEPT ![p] = Nothing]
      BY <1>0, <1>2, StartFrame
    <2>2. q # p /\ content'[q] = content[q]
      BY <1>0, <2>1 DEF Succeeded, TypeOK
    <2>3. /\ exit'[q] = exit[q] /\ settings'[q] = settings[q] /\ before'[q] = before[q]
          /\ touched'[q] = touched[q]
      BY <1>0, <1>2, <2>2, StartFrame
    <2>4. file \in Busy(q, dir) /\ Succeeded(q) /\ Dir(q) = dir /\ Foreign(q)' = Foreign(q)
      BY <1>0, <1>2, <2>2, <2>3, BusyStays DEF Succeeded, Dir, Foreign
    <2> QED
      BY <1>0, <2>2, <2>4 DEF DoneOK
  <1>3. ASSUME NEW p \in Processes, Proceed(p) PROVE file \in Foreign(q)'
    <2>0. Running(p) /\ Dir(q) = dir /\ Foreign(q) \subseteq Foreign(q)'
      BY <1>0, <1>3, ProceedFrame, ProceedLeaves DEF Dir, Foreign
    <2>1. CASE q = p
      <3>1. pc[p] = "files"
        BY <1>0, <1>3, <2>1, OnlyFinishSucceeds DEF Succeeded
      <3>2. file \in Busy(p, dir)
        BY <1>0, <1>3, <2>1, <3>1, BusyProceeds
      <3> QED
        BY <1>0, <2>0, <2>1, <3>2 DEF ClaimsOK, Foreign
    <2>2. CASE q # p
      <3>1. exit'[q] = exit[q] /\ content'[q] = content[q] /\ Succeeded(q)
        BY <1>0, <1>3, <2>2, ProceedFrame DEF Succeeded
      <3>2. CASE file \in Busy(q, dir)
        BY <1>0, <2>0, <3>1, <3>2 DEF DoneOK
      <3>3. CASE FindsNothing(p) /\ Dir(p) = dir /\ file = Head(todo[p])
        <4>1. disk[dir][file] = Absent
          BY <3>3 DEF FindsNothing
        <4>2. file \in Foreign(q) \/ disk[dir][file] = Whole(content[q])
          BY <1>0, <2>0, <3>1 DEF UntouchedFilesAreWhole
        <4>3. Absent # Whole(content[q])
          BY DEF Absent, Whole
        <4> QED
          BY <2>0, <4>1, <4>2, <4>3
      <3> QED
        BY <1>0, <1>3, <2>2, <3>2, <3>3, BusyProceeds
    <2> QED
      BY <2>1, <2>2
  <1> QED
    BY <1>1, <1>2, <1>3, Steps

-----------------------------------------------------------------------------
(* Theorems.                                                                   *)

(* IInv is an inductive invariant of the program's runs, for any number of      *)
(* processes and any versions.                                                  *)
THEOREM InductiveInvariant == Spec => []IInv
  <1>1. IInv /\ [Next]_vars => IInv'
    BY TypeStep, StageStep, ClaimsStep, RunStep, WholeStep, DoneStep DEF IInv
  <1> QED
    BY <1>1, InitInv, PTL DEF Spec

(* Whatever runs fail, are killed, go on beside it or come later, and whatever  *)
(* downloads outlive their runs, a run that succeeds leaves the service's files *)
(* whole, but for those that it found or that someone else was at.              *)
THEOREM SuccessLeavesTheFiles == Spec => []UntouchedFilesAreWhole
  <1>1. IInv => UntouchedFilesAreWhole
    BY DEF IInv
  <1> QED
    BY <1>1, InductiveInvariant, PTL

(* While a run goes on nobody changes a file that was there when it began, but  *)
(* for a download of someone else that is known to be at it.                    *)
THEOREM NothingIsOverwritten == Spec => OldFilesStay
  <1> DEFINE Stay == \A p \in Processes :
                       Running(p) =>
                         \A file \in before[p] \ touched'[p] :
                           disk'[Dir(p)][file] = disk[Dir(p)][file]
  <1>1. IInv /\ [Next]_vars => Stay
    <2> SUFFICES ASSUME IInv, [Next]_vars, NEW q \in Processes, Running(q),
                        NEW file \in before[q] \ touched'[q]
                 PROVE  disk'[Dir(q)][file] = disk[Dir(q)][file]
      OBVIOUS
    <2>0. TypeOK /\ ClaimsOK /\ RunOK /\ Dir(q) \in Dirs /\ file \in FileIds
      BY DEF IInv, TypeOK
    <2>1. CASE UNCHANGED disk
      BY <2>1
    <2>2. ASSUME NEW p \in Processes, Proceed(p)
          PROVE  disk'[Dir(q)][file] = disk[Dir(q)][file]
      <3>1. file \notin touched[q]
        BY <2>0, <2>2, ProceedLeaves
      <3>2. CASE q = p
        <4>1. Downloading(p) => Head(todo[p]) # file
          BY <2>0, <3>1, <3>2 DEF RunOK, RunOf
        <4> QED
          BY <2>0, <2>2, <3>2, <4>1, ProceedFrame
      <3>3. CASE q # p
        <4>1. Downloading(p) /\ Dir(p) = Dir(q) => Head(todo[p]) # file
          BY <2>0, <3>1, <3>3 DEF ClaimsOK, Busy
        <4> QED
          BY <2>0, <2>2, <4>1, ProceedFrame
      <3> QED
        BY <3>2, <3>3
    <2>3. ASSUME NEW job \in leftover, GoOn(job)
          PROVE  disk'[Dir(q)][file] = disk[Dir(q)][file]
      <3>1. file \notin touched[q]
        BY <2>0, <2>3, GoOnFrame DEF history
      <3>2. job.dir = Dir(q) => job.file # file
        BY <2>0, <3>1 DEF ClaimsOK, Busy
      <3> QED
        BY <2>0, <2>3, <3>2, GoOnFrame
    <2> QED
      BY <2>1, <2>2, <2>3, Steps DEF Publish, Start, vars
  <1> QED
    BY <1>1, InductiveInvariant, PTL DEF Spec, OldFilesStay

=============================================================================
