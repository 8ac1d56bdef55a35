--------------------------- MODULE SFSClientImpl ---------------------------
(***************************************************************************)
(* SFSClient::GetLatestDownloadInfo and GetLatestAppDownloadInfo: a call   *)
(* makes a connection and sends it one request after another, for the      *)
(* latest version of the product, then for the files of that version, and  *)
(* for an app then for the files of each of its prerequisites.  While this *)
(* goes on the service publishes new versions.                             *)
(*                                                                         *)
(* The connection is the one of module HttpRequest: its variables are part *)
(* of this module's, and its actions are steps of this one.  The service   *)
(* is external.  A call uses nothing that another call changes (its        *)
(* connection is its own), so one caller stands for each of many threads.  *)
(***************************************************************************)
EXTENDS Naturals, Sequences

CONSTANTS
  c_maxRetries,       \* RequestParams.h
  Statuses,           \* HTTP status codes the service can answer with
  Products,           \* names of products, and of their prerequisites
  NameSpace,          \* m_nameSpace
  NameSpaces,         \* the namespaces of contents
  PrerequisiteLists,  \* the lists of prerequisites of an app
  FileLists,          \* the lists of files of a version
  MaxVersion,         \* bound: versions of a product
  MaxCalls,           \* bound: calls of the client
  Nothing             \* no request, no entity, no answer, no result

EmptyProduct == ""

ContentIds == [nameSpace : NameSpaces, name : Products, version : 1 .. MaxVersion]

\* What a call of GetLatestDownloadInfo (app FALSE) or GetLatestAppDownloadInfo
\* is given.  The client handles one product a request: two stand for several.
Parameters ==
  [app : BOOLEAN,
   productRequests : {<<>>} \cup [1 .. 1 -> Products \cup {EmptyProduct}]
                            \cup [1 .. 2 -> Products],
   retryOnError : BOOLEAN,
   baseCVIsValid : BOOLEAN]

\* A file by its type and by whether its hash types and architectures are known.
FileShapes == [app : BOOLEAN, known : BOOLEAN]

ASSUME ServiceAssumption ==
  /\ MaxVersion \in Nat \ {0}
  /\ NameSpace \in NameSpaces
  /\ EmptyProduct \notin Products
  /\ PrerequisiteLists \subseteq Seq(ContentIds)
  /\ FileLists \subseteq Seq(FileShapes)
ASSUME BoundAssumption == c_maxRetries \in Nat /\ MaxCalls \in Nat
ASSUME NothingAssumption ==
  Nothing \notin Products \cup Seq(FileShapes) \cup ContentIds \cup {"Success"}

VARIABLES
  maxRetries, busy, attempts, last, outcome,  \* the connection: see HttpRequest
  request,       \* what it was last asked for
  answer,        \* the body of the latest 200 answer
  asked,         \* history: operations of the connection in this call
  sent,          \* history: requests that they sent, retries included
  latest,        \* the service's latest version of each product
  offered,       \* history: the latest versions there were during the call
  m_instanceId,  \* the instance of the service that the client asks
  pc,            \* where the call is
  calls,         \* calls so far
  params,        \* the RequestParams of the call
  entity,        \* versionEntity
  gathered,      \* the ContentIds whose files have been received, with them
  contents,      \* the caller's vector: a content and its prerequisites
  result         \* the Result of the last call

connection == <<maxRetries, busy, attempts, last, outcome>>
service    == <<latest, offered>>
history    == <<asked, sent>>
local      == <<params, entity, gathered>>
caller     == <<m_instanceId, calls, contents, result>>
vars       == <<connection, request, answer, history, service, pc, local, caller>>

Connection == INSTANCE HttpRequest

Errors == (Connection!Codes \ {"Pending", "Success", "ForeignException"})
            \cup {"ConnectionUrlSetupFailed", "NotImpl", "Unexpected",
                  "ServiceInvalidResponse", "ServiceUnexpectedContentType"}

\* A body that is malformed, or not of the kind that was asked for.
NoBody == [entity |-> Nothing, files |-> Nothing]

Init ==
  /\ maxRetries = 0 /\ busy = FALSE /\ attempts = 0
  /\ last = Connection!Unanswered
  /\ outcome = Connection!Outcome(Connection!Pending, {})
  /\ request = Nothing /\ answer = NoBody /\ asked = 0 /\ sent = 0
  /\ latest = [product \in Products |-> 1]
  /\ offered = {}
  /\ m_instanceId \in {"default", "storeapps"}
  /\ pc = "idle" /\ calls = 0
  /\ params = [app |-> FALSE, productRequests |-> <<>>, retryOnError |-> FALSE,
               baseCVIsValid |-> TRUE]
  /\ entity = Nothing /\ gathered = <<>>
  /\ contents = <<>> /\ result = Nothing

-----------------------------------------------------------------------------
(* The service. *)

IsOneProduct == Len(params.productRequests) = 1 /\ params.productRequests[1] \in Products

Publish(product) ==
  /\ latest[product] < MaxVersion
  /\ latest' = [latest EXCEPT ![product] = @ + 1]
  /\ offered' = IF pc # "idle" /\ IsOneProduct /\ product = params.productRequests[1]
                THEN offered \cup {latest'[product]} ELSE offered
  /\ UNCHANGED <<connection, request, answer, history, pc, local, caller>>

\* The body of an answer is taken from what is published when it is sent.  It
\* need not be what was asked for, nor be well formed.
Entities ==
  UNION {[app : {app}, nameSpace : NameSpaces, name : Products,
          version : {latest[request.name]},
          prerequisites : IF app THEN PrerequisiteLists ELSE {<<>>}] : app \in BOOLEAN}

File(shape) == [app |-> shape.app, known |-> shape.known, of |-> request]

Files == {[i \in DOMAIN list |-> File(list[i])] : list \in FileLists}

Bodies ==
  {NoBody} \cup IF request.what = "latest" THEN [entity : Entities, files : {Nothing}]
                ELSE [entity : {Nothing}, files : Files]

-----------------------------------------------------------------------------
(* The connection. *)

RequestFor(what, id) ==
  [what |-> what, nameSpace |-> NameSpace, name |-> id.name, version |-> id.version]

Send(what, id) ==
  /\ Connection!Begin
  /\ request' = RequestFor(what, id)
  /\ UNCHANGED <<answer, sent, service, local, caller>>
  /\ asked' = asked + 1

Transmit ==
  /\ Connection!Attempt
  /\ sent' = sent + 1
  /\ UNCHANGED <<request, answer, asked, service, pc, local, caller>>

Answer ==
  /\ Connection!Answer
  /\ IF Connection!IsSuccessfulSFSHttpCode(last') THEN answer' \in Bodies
     ELSE UNCHANGED answer
  /\ UNCHANGED <<request, history, service, pc, local, caller>>

EndRequest ==
  /\ Connection!Succeed \/ Connection!Reject \/ Connection!Fail
  /\ UNCHANGED <<request, answer, history, service, pc, local, caller>>

\* json::parse of what Post returned; there may be no character in it.
Response == IF outcome.body = {} THEN NoBody ELSE answer

-----------------------------------------------------------------------------
(* The end of a call: SFS_CATCH_LOG_RETHROW and SFS_CATCH_RETURN.  Failures    *)
(* are logged before they are thrown, and again on the way out, so that an     *)
(* exception of the logging callback can take the place of any of them.        *)

Caught(code) == IF code = "ForeignException" THEN "Unexpected" ELSE code

BugOutOnFailure(code) ==
  /\ pc' = "idle"
  /\ result' \in {Caught(code), "Unexpected"}
  /\ offered' = {}
  /\ contents' = gathered
  /\ UNCHANGED <<connection, request, answer, history, latest, local,
                 m_instanceId, calls>>

Return(code) ==
  /\ pc' = "idle"
  /\ result' \in {Caught(code), "Unexpected"}
  /\ offered' = {}
  /\ UNCHANGED <<connection, request, answer, history, latest, local,
                 m_instanceId, calls, contents>>

-----------------------------------------------------------------------------
(* The start of a call. *)

Call(p) ==
  /\ pc = "idle"
  /\ calls < MaxCalls
  /\ pc' = "validate"
  /\ calls' = calls + 1
  /\ params' = p
  /\ offered' = IF IsOneProduct' THEN {latest[p.productRequests[1]]} ELSE {}
  /\ entity' = Nothing
  /\ gathered' = <<>>
  /\ asked' = 0 /\ sent' = 0
  /\ UNCHANGED <<connection, request, answer, latest, m_instanceId, contents, result>>

Product == params.productRequests[1]

ValidateRequestParams ==
  CASE params.productRequests = <<>>     -> "InvalidArg"
    [] Len(params.productRequests) > 1   -> "NotImpl"
    [] OTHER -> IF Product = EmptyProduct THEN "InvalidArg" ELSE "Success"

RefuseParams ==
  /\ pc = "validate"
  /\ ValidateRequestParams # "Success"
  /\ Return(ValidateRequestParams)

RefuseInstance ==
  /\ pc = "validate"
  /\ ValidateRequestParams = "Success"
  /\ params.app /\ m_instanceId # "storeapps"
  /\ Return("Unexpected")

MayConnect ==
  /\ pc = "validate"
  /\ ValidateRequestParams = "Success"
  /\ params.app => m_instanceId = "storeapps"

\* ConnectionConfig.
BugAlwaysRetry == c_maxRetries

MaxRetries == IF params.retryOnError THEN c_maxRetries ELSE 0

BugReuseConnection ==
  /\ MayConnect
  /\ params.baseCVIsValid
  /\ pc' = "askVersion"
  /\ maxRetries' = MaxRetries
  /\ UNCHANGED <<busy, attempts, last, outcome, request, answer, history, service,
                 local, caller>>

MakeConnection ==
  /\ MayConnect
  /\ params.baseCVIsValid
  /\ pc' = "askVersion"
  /\ maxRetries' = MaxRetries
  /\ busy' = FALSE /\ attempts' = 0
  /\ last' = Connection!Unanswered
  /\ outcome' = Connection!Outcome(Connection!Pending, {})
  /\ request' = Nothing /\ answer' = NoBody
  /\ UNCHANGED <<history, service, local, caller>>

\* The base vector is refused, or libcurl gives no handle or refuses an option.
MakeConnectionFails ==
  /\ MayConnect
  /\ Return(IF params.baseCVIsValid THEN "ConnectionSetupFailed" ELSE "InvalidArg")

-----------------------------------------------------------------------------
(* The requests. *)

Awaiting == pc \in {"awaitVersion", "awaitFiles"} /\ ~busy

BugPartWithoutFiles ==
  /\ Awaiting
  /\ outcome.code # "Success"
  /\ IF gathered = <<>> THEN Return(outcome.code)
     ELSE /\ pc' = "askFiles"
          /\ gathered' = Append(gathered, [id |-> request, files |-> <<>>])
          /\ UNCHANGED <<connection, request, answer, history, service, params,
                         entity, caller>>

RequestFails ==
  /\ Awaiting
  /\ outcome.code # "Success"
  /\ Return(outcome.code)

AskVersion ==
  /\ pc = "askVersion"
  /\ pc' = "awaitVersion"
  /\ Send("latest", [name |-> Product, version |-> 0])

BugAnyProduct(e) ==
  CASE e = Nothing -> "ServiceInvalidResponse"
    [] OTHER -> IF params.app /\ ~e.app THEN "ServiceUnexpectedContentType"
                ELSE "Success"

\* VersionEntity::FromJson, ValidateVersionEntity and GetAppVersionEntityPtr.
CheckVersion(e) ==
  CASE e = Nothing -> "ServiceInvalidResponse"
    [] OTHER -> IF e.nameSpace # NameSpace \/ e.name # Product
                THEN "ServiceInvalidResponse"
                ELSE IF params.app /\ ~e.app THEN "ServiceUnexpectedContentType"
                ELSE "Success"

VersionReceived == pc = "awaitVersion" /\ ~busy /\ outcome.code = "Success"

RefuseVersion ==
  /\ VersionReceived
  /\ CheckVersion(Response.entity) # "Success"
  /\ Return(CheckVersion(Response.entity))

ReceiveVersion ==
  /\ VersionReceived
  /\ CheckVersion(Response.entity) = "Success"
  /\ pc' = "askFiles"
  /\ entity' = Response.entity
  /\ UNCHANGED <<connection, request, answer, history, service, params, gathered, caller>>

\* The ContentIds whose files the call needs, in the order it asks for them.
ToContentId(e) == [nameSpace |-> e.nameSpace, name |-> e.name, version |-> e.version]

Parts ==
  <<ToContentId(entity)>> \o IF params.app THEN entity.prerequisites ELSE <<>>

NextPart == Parts[Len(gathered) + 1]

BugAskForTheProduct ==
  /\ pc = "askFiles"
  /\ Len(gathered) < Len(Parts)
  /\ pc' = "awaitFiles"
  /\ Send("files", [name |-> Product, version |-> NextPart.version])

\* GetDownloadInfo.
AskFiles ==
  /\ pc = "askFiles"
  /\ Len(gathered) < Len(Parts)
  /\ pc' = "awaitFiles"
  /\ Send("files", NextPart)

\* ToFile and ToAppFile.
CheckFile(file) ==
  CASE file.app # params.app -> "ServiceUnexpectedContentType"
    [] OTHER -> IF file.known THEN "Success" ELSE "Unexpected"

\* FileEntitiesToFileVector and FileEntitiesToAppFileVector: the first file that
\* is refused decides.
Refused(files) == {i \in DOMAIN files : CheckFile(files[i]) # "Success"}

CheckFiles(files) ==
  CASE files = Nothing -> "ServiceInvalidResponse"
    [] OTHER -> IF Refused(files) = {} THEN "Success"
                ELSE CheckFile(files[CHOOSE i \in Refused(files) :
                                       \A j \in Refused(files) : i <= j])

FilesReceived == pc = "awaitFiles" /\ ~busy /\ outcome.code = "Success"

RefuseFiles ==
  /\ FilesReceived
  /\ CheckFiles(Response.files) # "Success"
  /\ Return(CheckFiles(Response.files))

ReceiveFiles ==
  /\ FilesReceived
  /\ CheckFiles(Response.files) = "Success"
  /\ pc' = "askFiles"
  /\ gathered' = Append(gathered, [id |-> NextPart, files |-> Response.files])
  /\ UNCHANGED <<connection, request, answer, history, service, params, entity, caller>>

Asking == pc = "askVersion" \/ (pc = "askFiles" /\ Len(gathered) < Len(Parts))

\* The URL cannot be built: libcurl refuses a part of it, or a part is empty.
UrlFails ==
  /\ Asking
  /\ \E code \in {"ConnectionUrlSetupFailed", "InvalidArg"} : Return(code)

\* The logging callback throws when told of a request to send, or of an answer.
Abandon ==
  /\ Asking \/ VersionReceived \/ FilesReceived
  /\ Return("ForeignException")

BugNoPrerequisites ==
  /\ pc = "askFiles"
  /\ gathered # <<>>
  /\ pc' = "idle"
  /\ contents' = gathered
  /\ result' = "Success"
  /\ offered' = {}
  /\ UNCHANGED <<connection, request, answer, history, latest, local, m_instanceId, calls>>

BugOneMore ==
  /\ pc = "askFiles"
  /\ Len(gathered) > Len(Parts)
  /\ pc' = "idle"
  /\ contents' = gathered
  /\ result' = "Success"
  /\ offered' = {}
  /\ UNCHANGED <<connection, request, answer, history, latest, local, m_instanceId, calls>>

\* The content is made, and moved into the caller's vector.
Deliver ==
  /\ pc = "askFiles"
  /\ Len(gathered) = Len(Parts)
  /\ pc' = "idle"
  /\ contents' = gathered
  /\ result' = "Success"
  /\ offered' = {}
  /\ UNCHANGED <<connection, request, answer, history, latest, local, m_instanceId, calls>>

-----------------------------------------------------------------------------

Operate ==
  \/ RefuseParams \/ RefuseInstance \/ MakeConnection \/ MakeConnectionFails
  \/ AskVersion \/ AskFiles \/ UrlFails \/ Abandon
  \/ Transmit \/ Answer \/ EndRequest
  \/ RequestFails \/ RefuseVersion \/ ReceiveVersion \/ RefuseFiles \/ ReceiveFiles
  \/ Deliver

Next ==
  \/ \E product \in Products : Publish(product)
  \/ \E p \in Parameters : Call(p)
  \/ Operate

\* The thread that called keeps running, and the connection's operations return.
Spec == Init /\ [][Next]_vars /\ WF_vars(Operate)

-----------------------------------------------------------------------------
(* Correctness. *)

Requests ==
  [what : {"latest", "files"}, nameSpace : {NameSpace}, name : Products,
   version : 0 .. MaxVersion]
AnyFiles  == Seq([app : BOOLEAN, known : BOOLEAN, of : Requests])
AnyEntity == [app : BOOLEAN, nameSpace : NameSpaces, name : Products,
              version : 1 .. MaxVersion, prerequisites : PrerequisiteLists \cup {<<>>}]
AnyParts  == Seq([id : ContentIds, files : AnyFiles])

TypeOK ==
  /\ Connection!TypeOK
  /\ request \in Requests \cup {Nothing}
  /\ answer \in [entity : AnyEntity \cup {Nothing}, files : AnyFiles \cup {Nothing}]
  /\ asked \in Nat /\ sent \in Nat
  /\ latest \in [Products -> 1 .. MaxVersion]
  /\ offered \subseteq 1 .. MaxVersion
  /\ m_instanceId \in {"default", "storeapps"}
  /\ pc \in {"idle", "validate", "askVersion", "awaitVersion", "askFiles", "awaitFiles"}
  /\ calls \in 0 .. MaxCalls
  /\ params \in Parameters
  /\ entity \in AnyEntity \cup {Nothing}
  /\ gathered \in AnyParts
  /\ contents \in AnyParts
  /\ result \in Errors \cup {"Success", Nothing}

(* The files of a content, and of each prerequisite of an app, are those of    *)
(* its name and version, though they come from requests of their own and       *)
(* though the product has had new versions since the first of them.            *)
FilesBelong(part) ==
  \A j \in DOMAIN part.files : part.files[j].of = RequestFor("files", part.id)

FilesBelongToTheirContent == \A i \in DOMAIN contents : FilesBelong(contents[i])

(* A successful call delivers the content it asked for and all of its          *)
(* prerequisites, in the order the service listed them, with files of the kind *)
(* that was asked for.                                                         *)
FilesAreOfTheKind(part) == \A j \in DOMAIN part.files : part.files[j].app = params.app

ContentIsComplete ==
  pc = "idle" /\ result = "Success" =>
    /\ Len(contents) = Len(Parts)
    /\ \A i \in DOMAIN contents :
         contents[i].id = Parts[i] /\ FilesAreOfTheKind(contents[i])

(* A call asks for the version once and then for the files of each part once,  *)
(* and repeats a request at most c_maxRetries times, if the caller allowed it. *)
Budget == IF params.retryOnError THEN 1 + c_maxRetries ELSE 1

RequestBudget ==
  /\ asked <= IF entity = Nothing THEN 1 ELSE 1 + Len(Parts)
  /\ sent <= asked * Budget

(* The first request that fails is the last one, and the call reports why it   *)
(* failed, unless the logging callback threw in between.                       *)
FirstFailureIsReported ==
  [][~busy /\ outcome.code \notin {"Pending", "Success"} /\ pc \notin {"idle", "validate"} =>
       /\ ~busy'
       /\ pc' = "idle" => result' \in {Caught(outcome.code), "Unexpected"}]_vars

(* Every call returns.                                                         *)
EveryCallReturns == pc = "validate" ~> pc = "idle"

DownloadInfo ==
  INSTANCE DownloadInfo WITH
    Codes    <- Errors,
    calling  <- IF pc # "idle" /\ IsOneProduct THEN Product ELSE Nothing,
    contents <- IF contents = <<>> THEN Nothing ELSE contents[1].id

(* To the caller, a call is what DownloadInfo says.                            *)
ImplementsDownloadInfo == DownloadInfo!Spec

-----------------------------------------------------------------------------
(* The inductive invariant behind these properties: what each place of a call  *)
(* says of the connection, of the answer that it holds, of the parts that are  *)
(* already there, of the requests spent on them, and of what was on offer.     *)

StageOK ==
  /\ pc \notin {"awaitVersion", "awaitFiles"} => ~busy
  /\ pc \in {"validate", "askVersion", "awaitVersion"} => entity = Nothing /\ gathered = <<>>
  /\ pc \in {"askFiles", "awaitFiles"} => entity # Nothing
  /\ pc \notin {"idle", "validate"} => Product \in Products /\ maxRetries = MaxRetries
  /\ pc = "askVersion" => outcome.code = "Pending"
  /\ pc = "askFiles" => outcome.code = "Success"

AnswerOK ==
  /\ last # Connection!Unanswered => attempts > 0
  /\ pc = "awaitVersion" =>
       request = RequestFor("latest", [name |-> Product, version |-> 0])
  /\ pc = "awaitFiles" => request = RequestFor("files", NextPart)
  /\ pc \in {"awaitVersion", "awaitFiles"} =>
       /\ ~busy => outcome.code # "Pending"
       /\ ~busy /\ outcome.code = "Success" => last = 200
       /\ last = 200 /\ answer.files # Nothing =>
            \A j \in DOMAIN answer.files : answer.files[j].of = request

PartsOK ==
  /\ pc = "askFiles" => Len(gathered) <= Len(Parts)
  /\ pc = "awaitFiles" => Len(gathered) < Len(Parts)
  /\ \A i \in DOMAIN gathered :
       /\ pc \in {"askFiles", "awaitFiles"} => gathered[i].id = Parts[i]
       /\ FilesBelong(gathered[i]) /\ FilesAreOfTheKind(gathered[i])

BudgetOK ==
  /\ pc \in {"validate", "askVersion"} => asked = 0
  /\ pc = "awaitVersion" => asked = 1
  /\ pc = "askFiles" => asked = 1 + Len(gathered)
  /\ pc = "awaitFiles" => asked = 2 + Len(gathered)
  /\ pc \in {"awaitVersion", "awaitFiles"} => sent <= (asked - 1) * Budget + attempts
  /\ RequestBudget

OfferOK ==
  /\ pc = "idle" \/ ~IsOneProduct => offered = {}
  /\ pc # "idle" /\ IsOneProduct => latest[Product] \in offered
  /\ pc \notin {"idle", "validate"} => IsOneProduct
  /\ pc = "awaitVersion" /\ last = 200 /\ answer.entity # Nothing =>
       answer.entity.version \in offered
  /\ pc \in {"askFiles", "awaitFiles"} =>
       entity.nameSpace = NameSpace /\ entity.name = Product /\ entity.version \in offered

IInv ==
  /\ TypeOK /\ StageOK /\ AnswerOK /\ PartsOK /\ BudgetOK /\ OfferOK
  /\ FilesBelongToTheirContent /\ ContentIsComplete

=============================================================================
