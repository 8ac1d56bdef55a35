------------------------------ MODULE Requests ------------------------------
(***************************************************************************)
(* The requests of SFSClientInterface, one after another: latest version,  *)
(* latest versions of several products, one version, and the files of a    *)
(* version, which the caller then converts for the content type that it    *)
(* expects.  SFSClientImpl composes the first and the last of them.        *)
(***************************************************************************)
EXTENDS Documents, SequencesExt

CONSTANTS
  NameSpace,       \* the client's
  Products,        \* names of products, the empty one among them
  Versions,
  VersionAnswers,  \* documents that may stand for a version, and what they mean
  FileAnswers,     \* documents that may stand for a file, and what they mean
  MaxElements,     \* bound: elements of an answer that is an array
  Nothing          \* no call, no answer, no meaning

NotJson == [kind |-> "malformed"]

\* Each document says what it is taken to mean, or says nothing; a list of documents
\* is an answer of its own.
ASSUME AnswerAssumption ==
  /\ \A answer \in VersionAnswers \cup FileAnswers :
       DOMAIN answer = {"document", "meaning"} /\ answer.document.kind # "array"
  /\ \A answer \in VersionAnswers :
       IF answer.meaning = Nothing THEN SaysNoVersion(answer.document)
       ELSE SaysVersion(answer.document, answer.meaning)
  /\ \A answer \in FileAnswers :
       IF answer.meaning = Nothing THEN SaysNoFile(answer.document)
       ELSE SaysFile(answer.document, answer.meaning)
ASSUME BoundAssumption == MaxElements \in Nat

VARIABLES
  pc,       \* where the caller is
  call,     \* the call that runs or ran last
  body,     \* the answer to its request
  meant,    \* history: what the service means by it, element by element
  expected, \* the content type that the files are converted for
  code,     \* how the call or the conversion ended
  result    \* what it delivered: entities, or files

vars == <<pc, call, body, meant, expected, code, result>>

Calls ==
  [endpoint : {"latest"}, product : Products]
    \cup [endpoint : {"latestBatch"}, products : SUBSET Products]
    \cup [endpoint : {"version", "files"}, product : Products, version : Versions]

Init ==
  /\ pc = "ready"
  /\ call = Nothing
  /\ body = Nothing
  /\ meant = <<>>
  /\ expected = Nothing
  /\ code = "Success"
  /\ result = <<>>

Call(c) ==
  /\ pc \in {"ready", "delivered", "files"}
  /\ pc' = "asking"
  /\ call' = c
  /\ body' = Nothing
  /\ meant' = <<>>
  /\ expected' = Nothing
  /\ code' = "Success"
  /\ result' = <<>>

\* The code of the failure, or whatever the logging callback throws instead.
Throw(c) ==
  /\ code' \in {c, "ForeignException"}
  /\ pc' = "ready"
  /\ result' = <<>>

HasEmptyName == "" \in {call[field] : field \in DOMAIN call \ {"products"}}

\* The URL cannot be made of an empty name, and the connection fails in its own ways.
RequestFails ==
  /\ pc = "asking"
  /\ \/ Throw("ConnectionUrlSetupFailed")
     \/ Throw(IF HasEmptyName THEN "InvalidArg" ELSE "HttpNotFound")
  /\ UNCHANGED <<call, body, meant, expected>>

AnswersTo(c) == IF c.endpoint = "files" THEN FileAnswers ELSE VersionAnswers

\* The service answers anything.
Answer ==
  /\ pc = "asking"
  /\ ~HasEmptyName
  /\ LET answers == AnswersTo(call)
     IN  \/ body' = NotJson /\ meant' = <<Nothing>>
         \/ \E answer \in answers : body' = answer.document /\ meant' = <<answer.meaning>>
         \/ \E list \in BoundedSeq(answers, MaxElements) :
              /\ body' = JsonArray([i \in DOMAIN list |-> list[i].document])
              /\ meant' = [i \in DOMAIN list |-> list[i].meaning]
  /\ pc' = "answered"
  /\ UNCHANGED <<call, expected, code, result>>

\* What has been received is logged before it is returned, so that the callback may
\* throw even then.
Deliver(value) ==
  \/ /\ pc' = IF call.endpoint = "files" THEN "files" ELSE "delivered"
     /\ result' = value
     /\ UNCHANGED code
  \/ Throw("ForeignException")

\* VerifyVersionResponseMatchesProduct.
Matches(contentId, product) ==
  contentId.nameSpace = NameSpace /\ contentId.name = product

BugIsBatch(data, products) ==
  /\ data.kind = "array"
  /\ data.elements # <<>>
  /\ \A i \in DOMAIN data.elements : IsVersion(data.elements[i])
  /\ \E i \in DOMAIN data.elements :
       LET contentId == ContentIdOf(data.elements[i].members["ContentId"])
       IN  contentId.name \in products /\ AreEqualI(contentId.nameSpace, NameSpace)

\* Entities for some of the products; their namespace may differ in case.
IsBatch(data, products) ==
  /\ data.kind = "array"
  /\ data.elements # <<>>
  /\ \A i \in DOMAIN data.elements :
       /\ IsVersion(data.elements[i])
       /\ LET contentId == ContentIdOf(data.elements[i].members["ContentId"])
          IN  contentId.name \in products /\ AreEqualI(contentId.nameSpace, NameSpace)

GetVersion ==
  /\ pc = "answered"
  /\ call.endpoint \in {"latest", "version"}
  /\ IF IsVersion(body) /\ Matches(VersionOf(body).contentId, call.product)
     THEN Deliver(<<VersionOf(body)>>) ELSE Throw("ServiceInvalidResponse")
  /\ UNCHANGED <<call, body, meant, expected>>

GetLatestVersionBatch ==
  /\ pc = "answered"
  /\ call.endpoint = "latestBatch"
  /\ IF IsBatch(body, call.products)
     THEN Deliver([i \in DOMAIN body.elements |-> VersionOf(body.elements[i])])
     ELSE Throw("ServiceInvalidResponse")
  /\ UNCHANGED <<call, body, meant, expected>>

GetDownloadInfo ==
  /\ pc = "answered"
  /\ call.endpoint = "files"
  /\ IF IsFileList(body) THEN Deliver(FilesOf(body)) ELSE Throw("ServiceInvalidResponse")
  /\ UNCHANGED <<call, body, meant, expected>>

BugFirstRefused(entities, type) ==
  {i \in DOMAIN entities : Refusal(entities[i], type) # "Success"}

\* The first entity that is refused ends the conversion of the list.
FirstRefused(entities, type) ==
  {i \in DOMAIN entities :
     /\ Refusal(entities[i], type) # "Success"
     /\ \A j \in 1 .. i - 1 : Refusal(entities[j], type) = "Success"}

\* FileEntitiesToFileVector and FileEntitiesToAppFileVector.
Convert(type) ==
  /\ pc = "files"
  /\ expected' = type
  /\ \/ \E i \in FirstRefused(result, type) : Throw(Refusal(result[i], type))
     \/ /\ FirstRefused(result, type) = {}
        /\ result' \in {files \in [DOMAIN result -> UNION {Conversions(result[i]) :
                                                             i \in DOMAIN result}] :
                          \A i \in DOMAIN result : files[i] \in Conversions(result[i])}
        /\ pc' = "delivered"
        /\ UNCHANGED code
  /\ UNCHANGED <<call, body, meant>>

Next ==
  \/ RequestFails \/ Answer
  \/ GetVersion \/ GetLatestVersionBatch \/ GetDownloadInfo
  \/ \E c \in Calls : Call(c)
  \/ \E type \in {"Generic", "App"} : Convert(type)

Spec == Init /\ [][Next]_vars

-----------------------------------------------------------------------------
(* Correctness.  What a document means is given with it, and does not come    *)
(* from the checks above.                                                     *)

IsList == body.kind = "array"
Whole  == meant # <<>> /\ \A i \in DOMAIN meant : meant[i] # Nothing

\* The answer is one that the call can deliver: for its product or products, though
\* not all of them, and of any version.
Usable ==
  CASE call.endpoint \in {"latest", "version"} ->
         /\ ~IsList /\ Whole
         /\ meant[1].contentId.name = call.product
         /\ meant[1].contentId.nameSpace = NameSpace
    [] call.endpoint = "latestBatch" ->
         /\ IsList /\ Whole
         /\ \A i \in DOMAIN meant :
              /\ meant[i].contentId.name \in call.products
              /\ Lower[meant[i].contentId.nameSpace] = Lower[NameSpace]
    [] call.endpoint = "files" -> IsList /\ \A i \in DOMAIN meant : meant[i] # Nothing

(* Entities are what the service means, each of them and in its order, and are *)
(* for the products and the namespace asked: nothing malformed in a part of    *)
(* the answer, nor another product, gets through beside what is good.          *)
EntitiesAreMeant ==
  (pc = "files" \/ (pc = "delivered" /\ call.endpoint # "files")) =>
    Usable /\ result = meant

\* The answer is what SFSClientInterface says that the call gets: the version asked
\* for, and one for each of the products.
Promised ==
  /\ Usable
  /\ call.endpoint = "version" => meant[1].contentId.version = call.version
  /\ call.endpoint = "latestBatch" =>
       call.products = {meant[i].contentId.name : i \in DOMAIN meant}

(* The answer that the call was made for is not refused, whatever members the  *)
(* documents have beside those that they need.                                 *)
PromisedIsAccepted == (code = "ServiceInvalidResponse") => ~Promised

\* A hash of every type that is named, each one given for its type.
HashesFit(hashes, given) ==
  /\ {Lower[name] : name \in DOMAIN given} = {Lower[type] : type \in DOMAIN hashes}
  /\ \A type \in DOMAIN hashes :
       \E name \in DOMAIN given : Lower[name] = Lower[type] /\ given[name] = hashes[type]

\* The architectures given, under the library's names.
ArchitecturesFit(named, given) ==
  /\ named \in [DOMAIN given -> Architectures]
  /\ \A k \in DOMAIN given : Lower[named[k]] = Lower[given[k]]

\* All but the hashes and the architectures is as it was given.
RestFits(file, given) ==
  \A field \in DOMAIN given \ {"hashes", "architectures"} : file[field] = given[field]

(* The files delivered are the service's, all of them and in its order, with   *)
(* everything it says of them: a hash of every type that it names and none     *)
(* that it gave for another type, and the architectures under their own names. *)
FilesAreMeant ==
  (pc = "delivered" /\ call.endpoint = "files") =>
    /\ Len(result) = Len(meant)
    /\ \A i \in DOMAIN meant :
         /\ RestFits(result[i], meant[i])
         /\ HashesFit(result[i].hashes, meant[i].hashes)
         /\ meant[i].type = "App" =>
              ArchitecturesFit(result[i].architectures, meant[i].architectures)

NamesOne(string, values) == Lower[string] \in {Lower[value] : value \in values}

(* A list with several defects is refused for the first file that has one, and *)
(* for the defects that tell of the wrong endpoint before unknown names; never *)
(* when one of its files is malformed, even one after those.                   *)
FirstDefectIsTold ==
  LET Misplaced(file) == file.type # expected
      Unknown(file) ==
        \/ \E name \in DOMAIN file.hashes : ~NamesOne(name, HashTypes)
        \/ /\ file.type = "App"
           /\ \E i \in DOMAIN file.architectures :
                ~NamesOne(file.architectures[i], Architectures)
  IN  (code \in {"Unexpected", "ServiceUnexpectedContentType"}) =>
        \E i \in DOMAIN meant :
          /\ Whole
          /\ IF code = "Unexpected" THEN ~Misplaced(meant[i]) /\ Unknown(meant[i])
             ELSE Misplaced(meant[i])
          /\ \A j \in 1 .. i - 1 : ~Misplaced(meant[j]) /\ ~Unknown(meant[j])

-----------------------------------------------------------------------------
(* The inductive invariant behind these properties.                            *)

TypeOK ==
  /\ pc \in {"ready", "asking", "answered", "files", "delivered"}
  /\ pc # "ready" => call \in Calls /\ code = "Success"
  /\ pc = "files" => call.endpoint = "files"

(* An answer that has not been dealt with is a document or a list of them, and *)
(* what it is taken to mean is what these say.                                 *)
AnswerFits ==
  pc \in {"answered", "files"} =>
    \/ body = NotJson /\ meant = <<Nothing>>
    \/ \E answer \in AnswersTo(call) : body = answer.document /\ meant = <<answer.meaning>>
    \/ \E list \in Seq(AnswersTo(call)) :
         /\ body = JsonArray([i \in DOMAIN list |-> list[i].document])
         /\ meant = [i \in DOMAIN list |-> list[i].meaning]

(* What is refused cannot be delivered.                                        *)
RefusedIsUnusable == (code = "ServiceInvalidResponse") => ~Usable

IInv ==
  /\ TypeOK /\ AnswerFits
  /\ EntitiesAreMeant /\ RefusedIsUnusable /\ FilesAreMeant /\ FirstDefectIsTold

=============================================================================
