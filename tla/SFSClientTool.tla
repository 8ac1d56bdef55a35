--------------------------- MODULE SFSClientTool ---------------------------
(***************************************************************************)
(* SFSClientTool: a program that asks the library for the latest version   *)
(* of a product and prints what it gets, or saves it to a file.  The state *)
(* is what outlasts a step: the settings, the environment, the file and    *)
(* how the program ended.                                                  *)
(***************************************************************************)
EXTENDS ContentJson

CONSTANTS
  CommandLines,   \* what the program may be called with, as typed options and values
  Answers,        \* contents that the library may deliver
  ExitModulus,    \* what the system keeps of an exit status, eight bits or more
  AllowOverrides, \* whether the library was built with test overrides
  Nothing         \* nothing asked, nothing there

ASSUME ToolAssumption == AllowOverrides \in BOOLEAN /\ ExitModulus \in Nat /\ ExitModulus >= 256
ASSUME AnswersAssumption == Answers \subseteq Contents \cup AppContents

VARIABLES
  pc,        \* where main is
  pieces,    \* the command line
  settings,
  env,       \* the variable that overrides the service's URL
  inherited, \* history: its value when the program started
  asked,     \* what the library has been asked for
  answer,    \* history: what it has delivered
  contents,  \* the JSON made of the library's answer
  file,      \* what the output file holds
  shown,     \* what has been printed
  code,      \* the result that main has seen last
  exit       \* the program's exit status

vars == <<pc, pieces, settings, env, inherited, asked, answer, contents, file, shown, code, exit>>

-----------------------------------------------------------------------------
(* Result codes: their names, and the lower half of their values. *)

Value ==
  [Success |-> 0, InvalidArg |-> 1, NotImpl |-> 2, NotSet |-> 3, OutOfMemory |-> 4,
   Unexpected |-> 5, ConnectionSetupFailed |-> 4096, ConnectionUnexpectedError |-> 4097,
   ConnectionUrlSetupFailed |-> 4098, HttpTimeout |-> 8192, HttpUnexpected |-> 8193,
   HttpBadRequest |-> 9216, HttpNotFound |-> 9220, HttpMethodNotAllowed |-> 9221,
   HttpTooManyRequests |-> 9257, HttpServiceNotAvailable |-> 9475,
   ServiceInvalidResponse |-> 12288, ServiceUnexpectedContentType |-> 12289]

Failures == DOMAIN Value \ {"Success"}

-----------------------------------------------------------------------------
(* Arguments. *)

Flags    == {"help", "version", "isApp"}
Switches == {"outputFile", "product", "accountId", "instanceId", "namespace", "customUrl"}

LongNames ==
  [help |-> "--help", version |-> "--version", isApp |-> "--isApp",
   outputFile |-> "--outputFile", product |-> "--product", accountId |-> "--accountId",
   instanceId |-> "--instanceId", namespace |-> "--namespace", customUrl |-> "--customUrl"]
ShortNames == [help |-> "-h", version |-> "-v", outputFile |-> "-o"]

\* No two options have a name in common.
OptionOf(arg) ==
  LET options == {option \in DOMAIN LongNames :
                    \/ AreEqualI(arg, LongNames[option])
                    \/ option \in DOMAIN ShortNames /\ AreEqualI(arg, ShortNames[option])}
  IN  IF options = {} THEN Nothing ELSE CHOOSE option \in options : TRUE

Settings ==
  [help : BOOLEAN, version : BOOLEAN, isApp : BOOLEAN, outputFile : AllStrings,
   product : AllStrings, accountId : AllStrings, instanceId : AllStrings,
   namespace : AllStrings, customUrl : AllStrings]

Args == INSTANCE CommandLine

ASSUME LineAssumption ==
  \A line \in CommandLines :
    /\ line \in Seq([typed : AllStrings, option : Flags \cup Switches \cup {Nothing},
                     value : AllStrings \cup {Nothing}])
    /\ Args!IsLine(line)

\* No argument at all asks for help.
ParseArguments(args) ==
  LET parsed == Args!Parse(args)
  IN  IF parsed = Nothing THEN Nothing
      ELSE LET given == [parsed EXCEPT !.help = @ \/ args = <<>>]
           IN  IF ~given.help /\ "" \in {given.product, given.accountId} THEN Nothing
               ELSE given

\* Nothing is no option, no string, no settings and no JSON; a string may be empty.
ASSUME NothingAssumption ==
  /\ Nothing \notin Flags \cup Switches \cup AllStrings
  /\ "" \in AllStrings
  /\ Nothing \notin Settings
  /\ \A content \in Answers : ContentsToJson(<<content>>) # Nothing

-----------------------------------------------------------------------------
(* The program. *)

Init ==
  /\ pc = "start"
  /\ pieces \in CommandLines
  /\ settings = Nothing
  /\ env \in {Nothing, "inherited"}
  /\ inherited = env
  /\ asked = Nothing
  /\ answer = Nothing
  /\ contents = Nothing
  /\ file \in {"absent", "old"}
  /\ shown = {}
  /\ code = "Success"
  /\ exit = Nothing

Exit(status) == pc' = "over" /\ exit' = status % ExitModulus

Show(what) == shown' = shown \cup {what}

BugReturnCode(c) == code' = c /\ Exit(0) /\ Show("failure")

\* main returns the code of a failure.
ReturnCode(c) == code' = c /\ Exit(Value[c]) /\ Show("failure")

BugParseStep ==
  /\ pc = "start"
  /\ settings' = ParseArguments(Args!Line(pieces))
  /\ IF settings' # Nothing /\ settings'.outputFile # "" THEN file' = "empty" ELSE UNCHANGED file
  /\ CASE settings' = Nothing -> Show("usage") /\ Exit(1)
       [] settings' # Nothing /\ settings'.version -> Show("version") /\ Exit(0)
       [] settings' # Nothing /\ ~settings'.version /\ settings'.help -> Show("help") /\ Exit(0)
       [] OTHER -> pc' = "configure" /\ UNCHANGED <<shown, exit>>
  /\ UNCHANGED <<pieces, env, inherited, asked, answer, contents, code>>

\* The version comes before help.
ParseStep ==
  /\ pc = "start"
  /\ settings' = ParseArguments(Args!Line(pieces))
  /\ CASE settings' = Nothing -> Show("usage") /\ Exit(1)
       [] settings' # Nothing /\ settings'.version -> Show("version") /\ Exit(0)
       [] settings' # Nothing /\ ~settings'.version /\ settings'.help -> Show("help") /\ Exit(0)
       [] OTHER -> pc' = "configure" /\ UNCHANGED <<shown, exit>>
  /\ UNCHANGED <<pieces, env, inherited, asked, answer, contents, file, code>>

\* That the variable cannot be set goes unnoticed.
Configure ==
  /\ pc = "configure"
  /\ pc' = "make"
  /\ IF settings.customUrl = "" THEN UNCHANGED <<env, shown>>
     ELSE env' \in {env, settings.customUrl} /\ Show("custom URL")
  /\ UNCHANGED <<pieces, settings, inherited, asked, answer, contents, file, code, exit>>

MakeClient ==
  /\ pc = "make"
  /\ \/ \E c \in {"ConnectionSetupFailed", "InvalidArg", "OutOfMemory"} : ReturnCode(c)
     \/ pc' = "ask" /\ UNCHANGED <<shown, code, exit>>
  /\ UNCHANGED <<pieces, settings, env, inherited, asked, answer, contents, file>>

BugRequest(type) ==
  [type |-> "Generic", product |-> settings.product, account |-> settings.accountId,
   instance |-> settings.instanceId, nameSpace |-> settings.namespace,
   service |-> IF AllowOverrides THEN env ELSE Nothing]

\* The request, and the service that a library with overrides asks.
Request(type) ==
  [type |-> type, product |-> settings.product, account |-> settings.accountId,
   instance |-> settings.instanceId, nameSpace |-> settings.namespace,
   service |-> IF AllowOverrides THEN env ELSE Nothing]

\* A call that succeeds has found something.
GetLatestDownloadInfo ==
  /\ pc = "ask"
  /\ asked' = Request(IF settings.isApp THEN "App" ELSE "Generic")
  /\ \/ \E c \in Failures : ReturnCode(c) /\ UNCHANGED <<answer, contents>>
     \/ /\ answer' \in {content \in Answers : content.type = asked'.type}
        /\ contents' = ContentsToJson(<<answer'>>)
        /\ pc' = "handle"
        /\ UNCHANGED <<shown, code, exit>>
  /\ UNCHANGED <<pieces, settings, env, inherited, file>>

DisplayResults ==
  /\ pc = "handle"
  /\ settings.outputFile = ""
  /\ Show("contents")
  /\ Exit(0)
  /\ UNCHANGED <<pieces, settings, env, inherited, asked, answer, contents, file, code>>

\* The path has no absolute form, which nobody catches, or its directories cannot
\* be created, or the file cannot be opened; opening it empties it.
OpenFile ==
  /\ pc = "handle"
  /\ settings.outputFile # ""
  /\ \/ Exit(134) /\ UNCHANGED <<file, shown, code>>
     \/ ReturnCode("Unexpected") /\ UNCHANGED file
     \/ file' = "empty" /\ pc' = "write" /\ UNCHANGED <<shown, code, exit>>
  /\ UNCHANGED <<pieces, settings, env, inherited, asked, answer, contents>>

\* Nobody asks the stream whether everything was written.
WriteFile ==
  /\ pc = "write"
  /\ file' \in {"empty", "torn", "whole"}
  /\ Show("saved")
  /\ Exit(0)
  /\ UNCHANGED <<pieces, settings, env, inherited, asked, answer, contents, code>>

Next ==
  \/ ParseStep \/ Configure \/ MakeClient \/ GetLatestDownloadInfo
  \/ DisplayResults \/ OpenFile \/ WriteFile

Spec == Init /\ [][Next]_vars

-----------------------------------------------------------------------------
(* Correctness. *)

Over == pc = "over"

(* The arguments mean what the options and values on the line are: no value is *)
(* taken for an option, none is lost, and a line that says nothing is refused. *)
LineIsUnderstood ==
  LET meaning == Args!MeaningOf(pieces)
      Required == "" \notin {meaning.product, meaning.accountId}
  IN  pc # "start" =>
        IF \/ meaning = Nothing
           \/ pieces # <<>> /\ ~meaning.help /\ ~Required
        THEN "usage" \in shown
        ELSE settings = [meaning EXCEPT !.help = @ \/ pieces = <<>>]

(* What the library is asked is what the line says, for the product and the    *)
(* account, at the custom URL when the library reads it and it could be set.   *)
AsksWhatTheLineSays ==
  asked # Nothing =>
    LET meaning == Args!MeaningOf(pieces)
    IN  /\ asked.product = meaning.product /\ asked.account = meaning.accountId
        /\ asked.instance = meaning.instanceId /\ asked.nameSpace = meaning.namespace
        /\ asked.type = (IF meaning.isApp THEN "App" ELSE "Generic")
        /\ asked.service \in (IF ~AllowOverrides THEN {Nothing}
                              ELSE IF meaning.customUrl = "" THEN {inherited}
                              ELSE {inherited, meaning.customUrl})

(* What is printed or saved describes the content that the library delivered,  *)
(* all of its parts and files, in the form that the library itself reads.      *)
OutputIsTheAnswer ==
  contents # Nothing =>
    LET json == contents.elements[1]
    IN  /\ Len(contents.elements) = 1
        /\ IF asked.type = "App" THEN DescribesApp(json, answer) ELSE Describes(json, answer)

(* A program that fails, or that is asked for help or the version alone,       *)
(* leaves the output file of an earlier run alone.                             *)
FailureKeepsTheFile ==
  (Over /\ (exit # 0 \/ shown \cap {"help", "version"} # {})) => file \in {"absent", "old"}

\* Help or the version was asked for, or the library's answer is at hand and has been
\* printed, or given to the file of the line, which was opened and emptied for it.
Done ==
  \/ shown \cap {"help", "version"} # {}
  \/ /\ code = "Success"
     /\ contents # Nothing
     /\ IF settings.outputFile = "" THEN "contents" \in shown
        ELSE "saved" \in shown /\ file \notin {"absent", "old"}

(* An exit status of zero says that nothing main looks at has failed.  That    *)
(* all of the JSON got into the file is not said: nobody looks at the stream   *)
(* after the write, and the file may be empty or torn.                         *)
ZeroIsSuccess == Over /\ exit = 0 => Done

-----------------------------------------------------------------------------
(* The inductive invariant behind these properties.                            *)

(* The settings are those that the parser makes of the line.                   *)
SettingsOK ==
  /\ pieces \in CommandLines
  /\ pc = "start" => settings = Nothing
  /\ pc # "start" =>
       /\ settings = ParseArguments(Args!Line(pieces))
       /\ settings = Nothing => pc = "over" /\ "usage" \in shown

(* The environment changes at most to the custom URL, before the library looks  *)
(* at it, and the library is asked once, for what the settings say.            *)
RequestOK ==
  /\ pc \in {"start", "configure"} => env = inherited
  /\ settings # Nothing =>
       env \in (IF settings.customUrl = "" THEN {inherited} ELSE {inherited, settings.customUrl})
  /\ pc \in {"start", "configure", "make", "ask"} => asked = Nothing
  /\ asked # Nothing =>
       settings # Nothing /\ asked = Request(IF settings.isApp THEN "App" ELSE "Generic")

(* What is handled is the JSON of an answer of the type that was asked for.    *)
AnswerOK ==
  /\ contents # Nothing =>
       /\ answer \in Answers /\ answer.type = asked.type
       /\ contents = ContentsToJson(<<answer>>)
  /\ pc \in {"handle", "write"} => contents # Nothing
  /\ pc \in {"start", "configure", "make", "ask"} => contents = Nothing

(* Only a program that has nothing left to fail touches the file.              *)
FileOK ==
  /\ \/ file \in {"absent", "old"}
     \/ pc = "write"
     \/ Over /\ exit = 0 /\ "saved" \in shown
  /\ pc # "over" => shown \cap {"help", "version", "saved"} = {}
  /\ "saved" \in shown => shown \cap {"help", "version"} = {}

(* A program that goes on has met no failure, and has a file to write to.      *)
GoingOnOK ==
  /\ pc # "over" => code = "Success"
  /\ pc = "write" => settings.outputFile # "" /\ file = "empty"

IInv == SettingsOK /\ RequestOK /\ AnswerOK /\ FileOK /\ GoingOnOK

=============================================================================
