------------------------ MODULE SFSClientImplProofs ------------------------
(***************************************************************************)
(* Proofs about SFSClientImpl, for any products, versions, lists of files  *)
(* and prerequisites, numbers of retries and calls.  The connection is     *)
(* known by the actions of HttpRequest only, so that what is proved here   *)
(* holds of every implementation of it.                                    *)
(***************************************************************************)
EXTENDS SFSClientImpl, SequenceTheorems, WellFoundedInduction, TLAPS

(* The parts of a content are ContentIds.                                      *)
LEMMA PartsAreContentIds ==
  ASSUME TypeOK, entity # Nothing
  PROVE  Parts \in Seq(ContentIds) /\ Len(Parts) \in Nat
  <1>1. entity \in AnyEntity
    BY DEF TypeOK
  <1>2. ToContentId(entity) \in ContentIds
    BY <1>1 DEF AnyEntity, ContentIds, ToContentId
  <1>3. entity.prerequisites \in Seq(ContentIds)
    <2>1. entity.prerequisites \in PrerequisiteLists \cup {<<>>}
      BY <1>1 DEF AnyEntity
    <2> QED
      BY <2>1, ServiceAssumption, EmptySeq
  <1>4. <<ToContentId(entity)>> \in Seq(ContentIds)
    BY <1>2
  <1>5. (IF params.app THEN entity.prerequisites ELSE <<>>) \in Seq(ContentIds)
    BY <1>3, EmptySeq
  <1>6. Parts \in Seq(ContentIds)
    BY <1>4, <1>5, ConcatProperties DEF Parts
  <1> QED
    BY <1>6, LenProperties

LEMMA NextPartIsContentId ==
  ASSUME TypeOK, entity # Nothing, Len(gathered) < Len(Parts)
  PROVE  NextPart \in ContentIds
  <1>1. gathered \in Seq([id : ContentIds, files : AnyFiles]) /\ Len(gathered) \in Nat
    BY DEF TypeOK, AnyParts
  <1>2. Len(gathered) + 1 \in 1 .. Len(Parts)
    BY <1>1, PartsAreContentIds
  <1> QED
    BY <1>2, PartsAreContentIds, ElementOfSeq DEF NextPart

(* The files that the service may send are files.                              *)
LEMMA FilesAreFiles ==
  ASSUME request \in Requests, NEW files \in Files
  PROVE  files \in AnyFiles /\ \A j \in DOMAIN files : files[j].of = request
  <1>1. PICK list \in FileLists : files = [i \in DOMAIN list |-> File(list[i])]
    BY DEF Files
  <1>2. list \in Seq(FileShapes) /\ Len(list) \in Nat /\ DOMAIN list = 1 .. Len(list)
    BY <1>1, ServiceAssumption
  <1>3. ASSUME NEW i \in 1 .. Len(list)
        PROVE  files[i] \in [app : BOOLEAN, known : BOOLEAN, of : Requests] /\ files[i].of = request
    <2>1. list[i] \in FileShapes
      BY <1>2, ElementOfSeq
    <2> QED
      BY <1>1, <1>2, <2>1 DEF FileShapes, File
  <1>4. files \in [1 .. Len(list) -> [app : BOOLEAN, known : BOOLEAN, of : Requests]]
    BY <1>1, <1>2, <1>3
  <1> QED
    BY <1>1, <1>2, <1>3, <1>4, SeqDef DEF AnyFiles

(* So are the answers.                                                         *)
LEMMA BodiesAreAnswers ==
  ASSUME TypeOK, request \in Requests, NEW body \in Bodies
  PROVE  /\ body \in [entity : AnyEntity \cup {Nothing}, files : AnyFiles \cup {Nothing}]
         /\ body.files # Nothing => \A j \in DOMAIN body.files : body.files[j].of = request
  <1>1. request \in Requests /\ latest \in [Products -> 1 .. MaxVersion]
    BY DEF TypeOK
  <1>2. CASE body = NoBody
    BY <1>2 DEF NoBody
  <1>3. CASE body \in [entity : Entities, files : {Nothing}]
    <2>1. body.entity \in Entities /\ body.files = Nothing /\ body = [entity |-> body.entity, files |-> Nothing]
      BY <1>3
    <2>2. PICK app \in BOOLEAN :
            body.entity \in [app : {app}, nameSpace : NameSpaces, name : Products,
                             version : {latest[request.name]},
                             prerequisites : IF app THEN PrerequisiteLists ELSE {<<>>}]
      BY <2>1 DEF Entities
    <2>3. latest[request.name] \in 1 .. MaxVersion
      BY <1>1 DEF Requests
    <2>4. body.entity \in AnyEntity
      BY <2>2, <2>3 DEF AnyEntity
    <2> QED
      BY <2>1, <2>4
  <1>4. CASE body \in [entity : {Nothing}, files : Files]
    BY <1>1, <1>4, FilesAreFiles
  <1> QED
    BY <1>2, <1>3, <1>4 DEF Bodies

-----------------------------------------------------------------------------
(* The steps, with every way to fail being one.                                *)

(* A Result that reports a failure is not one of success.                      *)
LEMMA ErrorsAreNoSuccess ==
  /\ "Success" \notin Errors /\ "Pending" \notin Errors
  /\ \A code \in Errors \cup {"ForeignException"} : Caught(code) \in Errors
  /\ \A code \in Connection!Codes \ {"Pending", "Success"} : Caught(code) \in Errors
  BY DEF Errors, Caught, Connection!Codes, Connection!Pending, Connection!HttpErrors,
         Connection!LocalErrors

(* A call that fails returns an error, at whatever place it is.                *)
Fails ==
  /\ pc # "idle"
  /\ pc' = "idle"
  /\ result' \in Errors
  /\ offered' = {}
  /\ pc \in {"awaitVersion", "awaitFiles"} => ~busy
  /\ UNCHANGED <<connection, request, answer, history, latest, local,
                 m_instanceId, calls, contents>>

LEMMA RefusalsFail ==
  ASSUME StageOK, AnswerOK, TypeOK,
         \/ RefuseParams \/ RefuseInstance \/ MakeConnectionFails \/ UrlFails
         \/ Abandon \/ RequestFails \/ RefuseVersion \/ RefuseFiles
  PROVE  Fails
  <1>1. ASSUME NEW code, Caught(code) \in Errors, Return(code), pc # "idle",
               pc \in {"awaitVersion", "awaitFiles"} => ~busy
        PROVE  Fails
    <2>1. "Unexpected" \in Errors
      BY DEF Errors
    <2> QED
      BY <1>1, <2>1 DEF Return, Fails
  <1>2. {"InvalidArg", "NotImpl", "Unexpected", "ConnectionSetupFailed",
         "ConnectionUrlSetupFailed", "ServiceInvalidResponse",
         "ServiceUnexpectedContentType"} \subseteq Errors
    BY DEF Errors, Connection!Codes, Connection!LocalErrors
  <1>3. CASE RefuseParams
    <2>1. ValidateRequestParams \in Errors
      BY <1>2, <1>3 DEF RefuseParams, ValidateRequestParams
    <2> QED
      BY <1>1, <1>3, <2>1, ErrorsAreNoSuccess DEF RefuseParams
  <1>4. CASE RefuseInstance
    BY <1>1, <1>2, <1>4, ErrorsAreNoSuccess DEF RefuseInstance
  <1>5. CASE MakeConnectionFails
    BY <1>1, <1>2, <1>5, ErrorsAreNoSuccess DEF MakeConnectionFails, MayConnect
  <1>6. CASE UrlFails
    BY <1>1, <1>2, <1>6, ErrorsAreNoSuccess DEF UrlFails, Asking
  <1>7. CASE Abandon
    BY <1>1, <1>7, ErrorsAreNoSuccess DEF Abandon, Asking, VersionReceived, FilesReceived
  <1>8. CASE RequestFails
    <2>1. outcome.code \in Connection!Codes \ {"Pending", "Success"}
      BY <1>8 DEF RequestFails, Awaiting, AnswerOK, TypeOK, Connection!TypeOK
    <2> QED
      BY <1>1, <1>8, <2>1, ErrorsAreNoSuccess DEF RequestFails, Awaiting
  <1>9. CASE RefuseVersion
    <2>1. CheckVersion(Response.entity) \in Errors
      BY <1>2, <1>9 DEF RefuseVersion, CheckVersion
    <2> QED
      BY <1>1, <1>9, <2>1, ErrorsAreNoSuccess DEF RefuseVersion, VersionReceived
  <1>10. CASE RefuseFiles
    <2>1. CheckFiles(Response.files) \in Errors
      BY <1>2, <1>10 DEF RefuseFiles, CheckFiles, CheckFile
    <2> QED
      BY <1>1, <1>10, <2>1, ErrorsAreNoSuccess DEF RefuseFiles, FilesReceived
  <1> QED
    BY <1>3, <1>4, <1>5, <1>6, <1>7, <1>8, <1>9, <1>10

(* Every step is one of these.                                                 *)
LEMMA Steps ==
  ASSUME StageOK, AnswerOK, TypeOK, [Next]_vars
  PROVE  \/ \E product \in Products : Publish(product)
         \/ \E p \in Parameters : Call(p)
         \/ MakeConnection \/ AskVersion \/ AskFiles
         \/ Transmit \/ Answer \/ EndRequest
         \/ ReceiveVersion \/ ReceiveFiles \/ Deliver
         \/ Fails \/ UNCHANGED vars
  BY RefusalsFail DEF Next, Operate


-----------------------------------------------------------------------------
(* The initial states.                                                         *)

LEMMA InitInv == Init => IInv
  <1> SUFFICES ASSUME Init PROVE IInv
    OBVIOUS
  <1>1. TypeOK
    <2>1. Connection!TypeOK
      <3>1. outcome \in [code : Connection!Codes, body : SUBSET (1 .. (1 + maxRetries))]
        BY DEF Init, Connection!Outcome, Connection!Codes
      <3>2. maxRetries = 0 /\ attempts \in 0 .. (1 + maxRetries)
        BY DEF Init
      <3> QED
        BY <3>1, <3>2 DEF Init, Connection!TypeOK, Connection!Unanswered
    <2>2. answer \in [entity : AnyEntity \cup {Nothing}, files : AnyFiles \cup {Nothing}]
      BY DEF Init, NoBody
    <2>3. latest \in [Products -> 1 .. MaxVersion]
      BY ServiceAssumption DEF Init
    <2>4. params \in Parameters
      BY DEF Init, Parameters
    <2>5. gathered \in AnyParts /\ contents \in AnyParts
      BY EmptySeq DEF Init, AnyParts
    <2>6. calls \in 0 .. MaxCalls
      BY BoundAssumption DEF Init
    <2> QED
      BY <2>1, <2>2, <2>3, <2>4, <2>5, <2>6 DEF Init, TypeOK
  <1>2. StageOK /\ AnswerOK /\ PartsOK
    BY DEF Init, StageOK, AnswerOK, PartsOK
  <1>3. BudgetOK
    <2>1. sent <= asked * Budget
      BY BoundAssumption DEF Init, Budget
    <2> QED
      BY <2>1 DEF Init, BudgetOK, RequestBudget
  <1>4. FilesBelongToTheirContent /\ OfferOK
    BY DEF Init, FilesBelongToTheirContent, OfferOK, IsOneProduct
  <1>5. ContentIsComplete
    BY NothingAssumption DEF Init, ContentIsComplete
  <1> QED
    BY <1>1, <1>2, <1>3, <1>4, <1>5 DEF IInv

-----------------------------------------------------------------------------
(* The steps keep the types.                                                   *)

(* What the connection does keeps the types of its variables.                  *)
LEMMA ConnectionStep ==
  ASSUME Connection!TypeOK, AnswerOK,
         \/ Connection!Begin \/ Connection!Attempt \/ Connection!Answer
         \/ Connection!Succeed \/ Connection!Reject \/ Connection!Fail
  PROVE  Connection!TypeOK'
  <1> USE DEF Connection!TypeOK, Connection!Outcome, Connection!Pending,
              Connection!Unanswered
  <1>1. maxRetries \in Nat
    BY BoundAssumption
  <1>2. CASE Connection!Begin
    BY <1>1, <1>2 DEF Connection!Begin, Connection!Codes
  <1>3. CASE Connection!Attempt
    BY <1>1, <1>3 DEF Connection!Attempt
  <1>4. CASE Connection!Answer
    BY <1>4 DEF Connection!Answer
  <1>5. CASE Connection!Succeed
    <2>1. attempts \in 1 .. (1 + maxRetries)
      BY <1>1, <1>5 DEF AnswerOK, Connection!Succeed, Connection!IsSuccessfulSFSHttpCode
    <2>2. PICK body \in {{}, {attempts}} : outcome' = Connection!Outcome("Success", body)
      BY <1>5 DEF Connection!Succeed
    <2> QED
      BY <1>5, <2>1, <2>2 DEF Connection!Succeed, Connection!Codes
  <1>6. CASE Connection!Reject
    BY <1>6 DEF Connection!Reject, Connection!Codes, Connection!HttpErrors,
                Connection!HttpCodeToResult, Connection!IsSuccessfulSFSHttpCode
  <1>7. CASE Connection!Fail
    <2>1. Connection!FailureCodes \subseteq Connection!Codes
      BY DEF Connection!FailureCodes, Connection!Codes, Connection!LocalErrors
    <2>2. PICK code \in Connection!FailureCodes : outcome' = Connection!Outcome(code, {})
      BY <1>7 DEF Connection!Fail
    <2> QED
      BY <1>7, <2>1, <2>2 DEF Connection!Fail
  <1> QED
    BY <1>2, <1>3, <1>4, <1>5, <1>6, <1>7

(* While the connection is busy, it is with a request.                         *)
LEMMA RequestIsOne ==
  ASSUME TypeOK, StageOK, AnswerOK, PartsOK, busy
  PROVE  request \in Requests
  <1>1. CASE pc = "awaitVersion"
    BY <1>1, ServiceAssumption DEF StageOK, AnswerOK, RequestFor, Requests
  <1>2. CASE pc = "awaitFiles"
    <2>1. NextPart \in ContentIds
      BY <1>2, NextPartIsContentId DEF StageOK, PartsOK
    <2> QED
      BY <1>2, <2>1, ServiceAssumption DEF AnswerOK, RequestFor, Requests, ContentIds
  <1> QED
    BY <1>1, <1>2 DEF StageOK

LEMMA TypeStep == IInv /\ [Next]_vars => TypeOK'
  <1> SUFFICES ASSUME IInv, [Next]_vars PROVE TypeOK'
    OBVIOUS
  <1>0. TypeOK /\ StageOK /\ AnswerOK /\ PartsOK
    BY DEF IInv
  <1>1. ASSUME NEW product \in Products, Publish(product) PROVE TypeOK'
    <2>1. latest[product] + 1 \in 1 .. MaxVersion
      BY <1>0, <1>1, ServiceAssumption DEF TypeOK, Publish
    <2>2. latest' \in [Products -> 1 .. MaxVersion] /\ offered' \subseteq 1 .. MaxVersion
      BY <1>0, <1>1, <2>1 DEF TypeOK, Publish
    <2> QED
      BY <1>0, <1>1, <2>2 DEF TypeOK, Publish, Connection!TypeOK, connection, history,
                              local, caller
  <1>2. ASSUME NEW p \in Parameters, Call(p) PROVE TypeOK'
    <2>1. offered' \subseteq 1 .. MaxVersion
      BY <1>0, <1>2 DEF TypeOK, Call, IsOneProduct
    <2>2. gathered' \in AnyParts
      BY <1>2, EmptySeq DEF Call, AnyParts
    <2>3. calls' \in 0 .. MaxCalls
      BY <1>0, <1>2, BoundAssumption DEF TypeOK, Call
    <2> QED
      BY <1>0, <1>2, <2>1, <2>2, <2>3 DEF TypeOK, Call, Connection!TypeOK, connection
  <1>3. CASE MakeConnection
    <2>1. Connection!TypeOK'
      <3>1. maxRetries' \in {0, c_maxRetries} /\ attempts' \in 0 .. (1 + maxRetries')
        BY <1>3, BoundAssumption DEF MakeConnection, MaxRetries
      <3>2. outcome' \in [code : Connection!Codes, body : SUBSET (1 .. (1 + maxRetries'))]
        BY <1>3 DEF MakeConnection, Connection!Outcome, Connection!Codes
      <3> QED
        BY <1>3, <3>1, <3>2 DEF MakeConnection, Connection!TypeOK
    <2>2. answer' \in [entity : AnyEntity \cup {Nothing}, files : AnyFiles \cup {Nothing}]
      BY <1>3 DEF MakeConnection, NoBody
    <2> QED
      BY <1>0, <1>3, <2>1, <2>2 DEF TypeOK, MakeConnection, history, service, local, caller
  <1>4. ASSUME NEW what \in {"latest", "files"}, NEW id, id.name \in Products,
               id.version \in 0 .. MaxVersion, Send(what, id),
               pc' \in {"awaitVersion", "awaitFiles"}
        PROVE  TypeOK'
    <2>1. Connection!TypeOK'
      BY <1>0, <1>4, ConnectionStep DEF TypeOK, Send
    <2>2. request' \in Requests
      BY <1>4 DEF Send, RequestFor, Requests
    <2> QED
      BY <1>0, <1>4, <2>1, <2>2 DEF TypeOK, Send, service, local, caller
  <1>5. CASE AskVersion
    BY <1>0, <1>4, <1>5, ServiceAssumption DEF AskVersion, StageOK
  <1>6. CASE AskFiles
    <2>1. NextPart \in ContentIds
      BY <1>0, <1>6, NextPartIsContentId DEF AskFiles, StageOK
    <2> QED
      BY <1>4, <1>6, <2>1, ServiceAssumption DEF AskFiles, ContentIds
  <1>7. CASE Transmit
    <2>1. Connection!TypeOK'
      BY <1>0, <1>7, ConnectionStep DEF TypeOK, Transmit
    <2> QED
      BY <1>0, <1>7, <2>1 DEF TypeOK, Transmit, service, local, caller
  <1>8. CASE Answer
    <2>1. Connection!TypeOK'
      BY <1>0, <1>8, ConnectionStep DEF TypeOK, Answer
    <2>2. request \in Requests
      BY <1>0, <1>8, RequestIsOne DEF Answer, Connection!Answer
    <2>3. answer' \in [entity : AnyEntity \cup {Nothing}, files : AnyFiles \cup {Nothing}]
      BY <1>0, <1>8, <2>2, BodiesAreAnswers DEF TypeOK, Answer
    <2> QED
      BY <1>0, <1>8, <2>1, <2>3 DEF TypeOK, Answer, history, service, local, caller
  <1>9. CASE EndRequest
    <2>1. Connection!TypeOK'
      BY <1>0, <1>9, ConnectionStep DEF TypeOK, EndRequest
    <2> QED
      BY <1>0, <1>9, <2>1 DEF TypeOK, EndRequest, history, service, local, caller
  <1>10. CASE ReceiveVersion
    <2>1. Response.entity \in AnyEntity \cup {Nothing}
      BY <1>0 DEF TypeOK, Response, NoBody
    <2> QED
      BY <1>0, <1>10, <2>1 DEF TypeOK, ReceiveVersion, Connection!TypeOK, connection,
                               history, service, caller
  <1>11. CASE ReceiveFiles
    <2>1. Response.files \in AnyFiles
      BY <1>0, <1>11 DEF TypeOK, ReceiveFiles, Response, NoBody, CheckFiles
    <2>2. NextPart \in ContentIds
      BY <1>0, <1>11, NextPartIsContentId DEF ReceiveFiles, FilesReceived, StageOK, PartsOK
    <2>3. gathered' \in AnyParts
      BY <1>0, <1>11, <2>1, <2>2, AppendProperties DEF TypeOK, ReceiveFiles, AnyParts
    <2> QED
      BY <1>0, <1>11, <2>3 DEF TypeOK, ReceiveFiles, Connection!TypeOK, connection,
                               history, service, caller
  <1>12. CASE Deliver
    BY <1>0, <1>12 DEF TypeOK, Deliver, Connection!TypeOK, connection, history, local
  <1>13. CASE Fails
    BY <1>0, <1>13 DEF TypeOK, Fails, Connection!TypeOK, connection, history, local
  <1>14. CASE UNCHANGED vars
    BY <1>0, <1>14 DEF TypeOK, vars, Connection!TypeOK, connection, history, service,
                       local, caller
  <1> QED
    BY <1>0, <1>1, <1>2, <1>3, <1>5, <1>6, <1>7, <1>8, <1>9, <1>10, <1>11, <1>12,
       <1>13, <1>14, Steps


-----------------------------------------------------------------------------
(* The steps keep the other parts of the invariant.                            *)

(* What the call asks for is fixed by its parameters and by the entity.        *)
LEMMA SameCall ==
  ASSUME UNCHANGED <<params, entity>>
  PROVE  /\ Product' = Product /\ MaxRetries' = MaxRetries /\ Budget' = Budget
         /\ Parts' = Parts
  BY DEF Product, MaxRetries, Budget, Parts, ToContentId

LEMMA StageStep == IInv /\ [Next]_vars => StageOK'
  <1> SUFFICES ASSUME IInv, [Next]_vars PROVE StageOK'
    OBVIOUS
  <1>0. TypeOK /\ StageOK /\ AnswerOK /\ PartsOK
    BY DEF IInv
  <1> USE DEF StageOK
  <1>1. ASSUME NEW product \in Products, Publish(product) PROVE StageOK'
    BY <1>0, <1>1, SameCall DEF Publish, connection, local
  <1>2. ASSUME NEW p \in Parameters, Call(p) PROVE StageOK'
    BY <1>0, <1>2 DEF Call, connection
  <1>3. CASE MakeConnection
    <2>1. Product \in Products
      <3>1. params.productRequests # <<>> /\ ~(Len(params.productRequests) > 1)
            /\ Product # EmptyProduct
        BY <1>3 DEF MakeConnection, MayConnect, ValidateRequestParams
      <3>2. params.productRequests \in
              {<<>>} \cup [1 .. 1 -> Products \cup {EmptyProduct}] \cup [1 .. 2 -> Products]
        BY <1>0 DEF TypeOK, Parameters
      <3> QED
        BY <3>1, <3>2 DEF Product
    <2> QED
      BY <1>0, <1>3, <2>1, SameCall DEF MakeConnection, MayConnect, local,
                                        Connection!Outcome, Connection!Pending
  <1>4. CASE AskVersion
    BY <1>0, <1>4, SameCall DEF AskVersion, Send, Connection!Begin, local
  <1>5. CASE AskFiles
    BY <1>0, <1>5, SameCall DEF AskFiles, Send, Connection!Begin, local
  <1>6. CASE Transmit
    BY <1>0, <1>6, SameCall DEF Transmit, Connection!Attempt, local
  <1>7. CASE Answer
    BY <1>0, <1>7, SameCall DEF Answer, Connection!Answer, local
  <1>8. CASE EndRequest
    <2>1. busy /\ ~busy' /\ UNCHANGED <<maxRetries, pc, params, entity, gathered>>
      BY <1>8 DEF EndRequest, Connection!Succeed, Connection!Reject, Connection!Fail, local
    <2> QED
      BY <1>0, <2>1, SameCall
  <1>9. CASE ReceiveVersion
    <2>1. entity' # Nothing
      BY <1>9 DEF ReceiveVersion, CheckVersion
    <2> QED
      BY <1>0, <1>9, <2>1 DEF ReceiveVersion, VersionReceived, connection, Product, MaxRetries
  <1>10. CASE ReceiveFiles
    BY <1>0, <1>10, SameCall DEF ReceiveFiles, FilesReceived, connection
  <1>11. CASE Deliver
    BY <1>0, <1>11, SameCall DEF Deliver, connection, local
  <1>12. CASE Fails
    BY <1>0, <1>12, SameCall DEF Fails, connection, local
  <1>13. CASE UNCHANGED vars
    BY <1>0, <1>13, SameCall DEF vars, connection, local
  <1> QED
    BY <1>0, <1>1, <1>2, <1>3, <1>4, <1>5, <1>6, <1>7, <1>8, <1>9, <1>10, <1>11,
       <1>12, <1>13, Steps

LEMMA AnswerStep == IInv /\ [Next]_vars => AnswerOK'
  <1> SUFFICES ASSUME IInv, [Next]_vars PROVE AnswerOK'
    OBVIOUS
  <1>0. TypeOK /\ StageOK /\ AnswerOK /\ PartsOK /\ attempts \in Nat
    BY BoundAssumption DEF IInv, TypeOK, Connection!TypeOK
  <1>1. ASSUME UNCHANGED <<attempts, last, outcome, busy, request, answer>>,
               \/ UNCHANGED <<pc, params, entity, gathered>>
               \/ pc' \notin {"awaitVersion", "awaitFiles"}
        PROVE  AnswerOK'
    BY <1>0, <1>1, SameCall DEF AnswerOK, RequestFor, NextPart
  <1>2. ASSUME NEW product \in Products, Publish(product) PROVE AnswerOK'
    BY <1>1, <1>2 DEF Publish, connection, local
  <1>3. ASSUME NEW p \in Parameters, Call(p) PROVE AnswerOK'
    BY <1>1, <1>3 DEF Call, connection
  <1>4. CASE MakeConnection
    BY <1>4 DEF MakeConnection, AnswerOK
  <1>5. CASE AskVersion
    BY <1>5, SameCall DEF AskVersion, Send, Connection!Begin, Connection!Unanswered,
                          RequestFor, AnswerOK, local
  <1>6. CASE AskFiles
    BY <1>6, SameCall DEF AskFiles, Send, Connection!Begin, Connection!Unanswered,
                          RequestFor, AnswerOK, NextPart, local
  <1>7. CASE Transmit
    BY <1>0, <1>7, SameCall DEF Transmit, Connection!Attempt, Connection!Unanswered,
                                RequestFor, AnswerOK, NextPart, local
  <1>8. CASE Answer
    <2>1. request \in Requests
      BY <1>0, <1>8, RequestIsOne DEF Answer, Connection!Answer
    <2>2. last' = 200 /\ answer'.files # Nothing =>
            \A j \in DOMAIN answer'.files : answer'.files[j].of = request
      BY <1>0, <1>8, <2>1, BodiesAreAnswers DEF Answer, Connection!IsSuccessfulSFSHttpCode
    <2>3. /\ attempts' > 0 /\ busy /\ busy'
          /\ UNCHANGED <<request, pc, params, entity, gathered>>
      BY <1>8 DEF Answer, Connection!Answer, local
    <2> QED
      BY <1>0, <2>2, <2>3, SameCall DEF RequestFor, AnswerOK, NextPart
  <1>9. CASE EndRequest
    <2>1. UNCHANGED <<request, answer, last, attempts, pc, params, entity, gathered>>
      BY <1>9 DEF EndRequest, Connection!Succeed, Connection!Reject, Connection!Fail, local
    <2>2. outcome'.code # "Pending" /\ (outcome'.code = "Success" => last = 200)
      <3>1. CASE Connection!Succeed
        BY <3>1 DEF Connection!Succeed, Connection!Outcome, Connection!IsSuccessfulSFSHttpCode
      <3>2. CASE Connection!Reject
        BY <3>2 DEF Connection!Reject, Connection!Outcome, Connection!HttpCodeToResult,
                    Connection!IsSuccessfulSFSHttpCode
      <3>3. CASE Connection!Fail
        BY <3>3 DEF Connection!Fail, Connection!Outcome, Connection!FailureCodes
      <3> QED
        BY <1>9, <3>1, <3>2, <3>3 DEF EndRequest
    <2> QED
      BY <1>0, <2>1, <2>2, SameCall DEF RequestFor, AnswerOK, NextPart
  <1>10. CASE ReceiveVersion
    BY <1>1, <1>10 DEF ReceiveVersion, connection
  <1>11. CASE ReceiveFiles
    BY <1>1, <1>11 DEF ReceiveFiles, connection
  <1>12. CASE Deliver
    BY <1>1, <1>12 DEF Deliver, connection
  <1>13. CASE Fails
    BY <1>1, <1>13 DEF Fails, connection
  <1>14. CASE UNCHANGED vars
    BY <1>1, <1>14 DEF vars, connection, local
  <1> QED
    BY <1>0, <1>2, <1>3, <1>4, <1>5, <1>6, <1>7, <1>8, <1>9, <1>10, <1>11, <1>12,
       <1>13, <1>14, Steps


(* Of the files that are refused, one is the first.                            *)
LEMMA SmallestIndex ==
  ASSUME NEW S, S \subseteq Nat, S # {}
  PROVE  \E i \in S : \A j \in S : i <= j
  <1>1. PICK i \in S : \A j \in S : <<j, i>> \notin OpToRel(<, Nat)
    BY NatLessThanWellFounded, WFMin
  <1>2. ASSUME NEW j \in S PROVE i <= j
    <2>1. ~(j < i)
      BY <1>1 DEF OpToRel
    <2> QED
      BY <2>1
  <1> QED
    BY <1>2

LEMMA PartsStep == IInv /\ [Next]_vars => PartsOK'
  <1> SUFFICES ASSUME IInv, [Next]_vars PROVE PartsOK'
    OBVIOUS
  <1>0. TypeOK /\ StageOK /\ AnswerOK /\ PartsOK
    BY DEF IInv
  <1>a. gathered \in Seq([id : ContentIds, files : AnyFiles]) /\ Len(gathered) \in Nat
    BY <1>0 DEF TypeOK, AnyParts
  <1>1. ASSUME UNCHANGED <<params, entity, gathered>>,
               \/ UNCHANGED pc
               \/ pc' \notin {"askFiles", "awaitFiles"}
               \/ pc = "askFiles" /\ pc' = "awaitFiles" /\ Len(gathered) < Len(Parts)
        PROVE  PartsOK'
    BY <1>0, <1>1, SameCall DEF PartsOK, FilesBelong, RequestFor, FilesAreOfTheKind
  <1>2. ASSUME NEW product \in Products, Publish(product) PROVE PartsOK'
    BY <1>1, <1>2 DEF Publish, local
  <1>3. ASSUME NEW p \in Parameters, Call(p) PROVE PartsOK'
    <2>1. pc' = "validate" /\ gathered' = <<>> /\ DOMAIN gathered' = {}
      BY <1>3 DEF Call
    <2> QED
      BY <2>1 DEF PartsOK
  <1>4. CASE MakeConnection
    BY <1>1, <1>4 DEF MakeConnection, local
  <1>5. CASE AskVersion
    BY <1>1, <1>5 DEF AskVersion, Send, local
  <1>6. CASE AskFiles
    BY <1>1, <1>6 DEF AskFiles, Send, local
  <1>7. CASE Transmit
    BY <1>1, <1>7 DEF Transmit, local
  <1>8. CASE Answer
    BY <1>1, <1>8 DEF Answer, local
  <1>9. CASE EndRequest
    BY <1>1, <1>9 DEF EndRequest, local
  <1>10. CASE ReceiveVersion
    <2>1. gathered' = <<>> /\ DOMAIN gathered' = {} /\ Len(gathered') = 0
      BY <1>0, <1>10 DEF ReceiveVersion, VersionReceived, StageOK
    <2>2. TypeOK' /\ entity' # Nothing
      BY <1>10, TypeStep DEF ReceiveVersion, CheckVersion
    <2>3. Len(Parts') \in Nat
      <3>1. entity' \in AnyEntity /\ params' \in Parameters
        BY <2>2 DEF TypeOK
      <3>2. ToContentId(entity') \in ContentIds
        BY <3>1 DEF AnyEntity, ContentIds, ToContentId
      <3>3. entity'.prerequisites \in Seq(ContentIds)
        BY <3>1, ServiceAssumption, EmptySeq DEF AnyEntity
      <3>4. Parts' = <<ToContentId(entity')>> \o
                       IF params'.app THEN entity'.prerequisites ELSE <<>>
        BY DEF Parts
      <3>5. (IF params'.app THEN entity'.prerequisites ELSE <<>>) \in Seq(ContentIds)
        BY <3>3, EmptySeq
      <3> QED
        BY <3>2, <3>4, <3>5, ConcatProperties, LenProperties
    <2> QED
      BY <1>10, <2>1, <2>3 DEF PartsOK, ReceiveVersion
  <1>11. CASE ReceiveFiles
    <2> DEFINE part == [id |-> NextPart, files |-> Response.files]
    <2>1. /\ pc = "awaitFiles" /\ pc' = "askFiles" /\ ~busy /\ outcome.code = "Success"
          /\ CheckFiles(Response.files) = "Success"
          /\ gathered' = Append(gathered, part)
          /\ UNCHANGED <<params, entity>>
      BY <1>11 DEF ReceiveFiles, FilesReceived
    <2>2. Response.files # Nothing /\ Refused(Response.files) = {}
      <3>1. Response.files # Nothing
        BY <2>1 DEF CheckFiles
      <3>2. ASSUME NEW i \in DOMAIN Response.files
            PROVE  CheckFile(Response.files[i]) \in
                     {"ServiceUnexpectedContentType", "Success", "Unexpected"}
        BY DEF CheckFile
      <3>3. ASSUME Refused(Response.files) # {} PROVE FALSE
        <4>1. Response.files \in AnyFiles
          BY <1>0, <3>1 DEF TypeOK, Response, NoBody
        <4>2. Refused(Response.files) \subseteq Nat
          BY <4>1 DEF Refused, AnyFiles
        <4>3. PICK i \in Refused(Response.files) :
                \A j \in Refused(Response.files) : i <= j
          BY <3>3, <4>2, SmallestIndex
        <4> QED
          BY <2>1, <3>1, <3>3, <4>3 DEF CheckFiles, Refused
      <3> QED
        BY <3>1, <3>3
    <2>3. \A j \in DOMAIN part.files : part.files[j].app = params.app
      BY <2>2 DEF Refused, CheckFile
    <2>4. \A j \in DOMAIN part.files : part.files[j].of = RequestFor("files", part.id)
      <3>1. Response = answer /\ last = 200 /\ request = RequestFor("files", NextPart)
        BY <1>0, <2>1, <2>2 DEF Response, NoBody, AnswerOK
      <3> QED
        BY <1>0, <2>1, <2>2, <3>1 DEF AnswerOK
    <2>5. /\ Len(gathered') = Len(gathered) + 1
          /\ DOMAIN gathered' = 1 .. (Len(gathered) + 1)
          /\ gathered'[Len(gathered) + 1] = part
          /\ \A i \in 1 .. Len(gathered) : gathered'[i] = gathered[i]
          /\ DOMAIN gathered = 1 .. Len(gathered)
      BY <1>a, <2>1
    <2>6. Len(Parts) \in Nat /\ Len(gathered) < Len(Parts) /\ Parts' = Parts
      BY <1>0, <2>1, PartsAreContentIds, SameCall DEF StageOK, PartsOK
    <2>7. ASSUME NEW i \in DOMAIN gathered'
          PROVE  /\ gathered'[i].id = Parts[i]
                 /\ \A j \in DOMAIN gathered'[i].files :
                      /\ gathered'[i].files[j].of = RequestFor("files", gathered'[i].id)
                      /\ gathered'[i].files[j].app = params.app
      <3>1. CASE i = Len(gathered) + 1
        BY <2>3, <2>4, <2>5, <3>1 DEF NextPart
      <3>2. CASE i \in 1 .. Len(gathered)
        BY <1>0, <2>1, <2>5, <3>2 DEF PartsOK, FilesBelong, FilesAreOfTheKind
      <3> QED
        BY <1>a, <2>5, <3>1, <3>2
    <2> QED
      BY <1>a, <2>1, <2>5, <2>6, <2>7 DEF PartsOK, FilesBelong, FilesAreOfTheKind, RequestFor
  <1>12. CASE Deliver
    BY <1>1, <1>12 DEF Deliver, local
  <1>13. CASE Fails
    BY <1>1, <1>13 DEF Fails, local
  <1>14. CASE UNCHANGED vars
    BY <1>1, <1>14 DEF vars, local
  <1> QED
    BY <1>0, <1>2, <1>3, <1>4, <1>5, <1>6, <1>7, <1>8, <1>9, <1>10, <1>11, <1>12,
       <1>13, <1>14, Steps

(* The answer's files belong to the content, and a successful call is complete. *)
LEMMA ContentsStep ==
  IInv /\ [Next]_vars => FilesBelongToTheirContent' /\ ContentIsComplete'
  <1> SUFFICES ASSUME IInv, [Next]_vars
               PROVE  FilesBelongToTheirContent' /\ ContentIsComplete'
    OBVIOUS
  <1>0. /\ TypeOK /\ StageOK /\ AnswerOK /\ PartsOK
        /\ FilesBelongToTheirContent /\ ContentIsComplete
    BY DEF IInv
  <1>1. ASSUME UNCHANGED contents,
               \/ UNCHANGED <<pc, params, entity, result>>
               \/ pc' # "idle"
               \/ result' \in Errors
        PROVE  FilesBelongToTheirContent' /\ ContentIsComplete'
    BY <1>0, <1>1, SameCall, ErrorsAreNoSuccess
       DEF FilesBelongToTheirContent, FilesBelong, RequestFor, ContentIsComplete,
           FilesAreOfTheKind
  <1> USE DEF caller, local
  <1>2. ASSUME NEW product \in Products, Publish(product)
        PROVE  FilesBelongToTheirContent' /\ ContentIsComplete'
    BY <1>1, <1>2 DEF Publish
  <1>3. ASSUME NEW p \in Parameters, Call(p)
        PROVE  FilesBelongToTheirContent' /\ ContentIsComplete'
    BY <1>1, <1>3 DEF Call
  <1>4. CASE MakeConnection
    BY <1>1, <1>4 DEF MakeConnection
  <1>5. CASE AskVersion
    BY <1>1, <1>5 DEF AskVersion, Send
  <1>6. CASE AskFiles
    BY <1>1, <1>6 DEF AskFiles, Send
  <1>7. CASE Transmit
    BY <1>1, <1>7 DEF Transmit
  <1>8. CASE Answer
    BY <1>1, <1>8 DEF Answer
  <1>9. CASE EndRequest
    BY <1>1, <1>9 DEF EndRequest
  <1>10. CASE ReceiveVersion
    BY <1>1, <1>10 DEF ReceiveVersion
  <1>11. CASE ReceiveFiles
    BY <1>1, <1>11 DEF ReceiveFiles
  <1>12. CASE Deliver
    <2>1. /\ pc = "askFiles" /\ contents' = gathered /\ Len(gathered) = Len(Parts)
          /\ UNCHANGED <<params, entity>>
      BY <1>12 DEF Deliver
    <2> QED
      BY <1>0, <2>1, SameCall DEF FilesBelongToTheirContent, FilesBelong, RequestFor,
                                 ContentIsComplete, FilesAreOfTheKind, PartsOK
  <1>13. CASE Fails
    BY <1>1, <1>13 DEF Fails
  <1>14. CASE UNCHANGED vars
    BY <1>1, <1>14 DEF vars
  <1> QED
    BY <1>0, <1>2, <1>3, <1>4, <1>5, <1>6, <1>7, <1>8, <1>9, <1>10, <1>11, <1>12,
       <1>13, <1>14, Steps


(* One operation more may send as many requests as each before it.             *)
LEMMA OneMore ==
  ASSUME NEW n \in Nat, NEW budget \in Nat
  PROVE  /\ (n + 1) * budget = n * budget + budget
         /\ n * budget \in Nat /\ n * budget <= (n + 1) * budget
         /\ n > 0 => n * budget = (n - 1) * budget + budget
  OBVIOUS

LEMMA BudgetStep == IInv /\ [Next]_vars => BudgetOK'
  <1> SUFFICES ASSUME IInv, [Next]_vars PROVE BudgetOK'
    OBVIOUS
  <1>0. /\ TypeOK /\ StageOK /\ AnswerOK /\ PartsOK /\ BudgetOK /\ RequestBudget
        /\ attempts \in 0 .. (1 + maxRetries) /\ maxRetries \in Nat
        /\ asked \in Nat /\ sent \in Nat /\ Budget \in Nat
        /\ Len(gathered) \in Nat
    BY BoundAssumption, LenProperties
       DEF IInv, TypeOK, Connection!TypeOK, BudgetOK, Budget, AnyParts
  <1>a. pc \notin {"idle", "validate"} => Budget = 1 + maxRetries
    BY <1>0 DEF StageOK, Budget, MaxRetries
  <1>1. ASSUME UNCHANGED <<asked, sent, attempts, params, entity, gathered>>,
               \/ UNCHANGED pc
               \/ pc' = "idle"
               \/ pc = "validate" /\ pc' = "askVersion"
        PROVE  BudgetOK'
    BY <1>0, <1>1, SameCall DEF BudgetOK, RequestBudget
  <1>2. ASSUME NEW product \in Products, Publish(product) PROVE BudgetOK'
    BY <1>1, <1>2 DEF Publish, connection, history, local
  <1>3. ASSUME NEW p \in Parameters, Call(p) PROVE BudgetOK'
    <2>1. Budget' \in Nat
      BY BoundAssumption DEF Budget
    <2>2. pc' = "validate" /\ asked' = 0 /\ sent' = 0 /\ entity' = Nothing
      BY <1>3 DEF Call
    <2>3. sent' <= asked' * Budget'
      <3>1. \A budget \in Nat : 0 <= 0 * budget
        OBVIOUS
      <3>2. 0 <= 0 * Budget'
        BY <2>1, <3>1
      <3> QED
        BY <2>2, <3>2
    <2> QED
      BY <2>2, <2>3 DEF BudgetOK, RequestBudget
  <1>4. CASE MakeConnection
    <2>1. /\ pc = "validate" /\ pc' = "askVersion"
          /\ UNCHANGED <<asked, sent, params, entity, gathered>>
      BY <1>4 DEF MakeConnection, MayConnect, history, local
    <2> QED
      BY <1>0, <2>1, SameCall DEF BudgetOK, RequestBudget
  <1>5. ASSUME pc' \in {"awaitVersion", "awaitFiles"}, asked' = asked + 1, attempts' = 0,
               UNCHANGED <<sent, params, entity, gathered>>,
               pc' = "awaitVersion" => pc = "askVersion",
               pc' = "awaitFiles" => pc = "askFiles" /\ Len(gathered) < Len(Parts)
        PROVE  BudgetOK'
    <2>1. Budget' = Budget /\ Parts' = Parts
      BY <1>5, SameCall
    <2>2. sent <= asked * Budget /\ asked * Budget <= (asked + 1) * Budget
          /\ asked * Budget \in Nat /\ (asked + 1) * Budget \in Nat
      BY <1>0, OneMore DEF RequestBudget
    <2>3. sent' <= (asked' - 1) * Budget' + attempts' /\ sent' <= asked' * Budget'
      <3>1. asked' - 1 = asked
        BY <1>0, <1>5
      <3> QED
        BY <1>0, <1>5, <2>1, <2>2, <3>1
    <2>4. asked' <= IF entity' = Nothing THEN 1 ELSE 1 + Len(Parts')
      <3>1. CASE pc' = "awaitVersion"
        BY <1>0, <1>5, <3>1 DEF BudgetOK, StageOK
      <3>2. CASE pc' = "awaitFiles"
        <4>1. Len(Parts) \in Nat /\ entity # Nothing
          BY <1>0, <1>5, <3>2, PartsAreContentIds DEF StageOK
        <4> QED
          BY <1>0, <1>5, <2>1, <3>2, <4>1 DEF BudgetOK
      <3> QED
        BY <1>5, <3>1, <3>2
    <2>5. pc' = "awaitVersion" => asked' = 1
      BY <1>0, <1>5 DEF BudgetOK
    <2>6. pc' = "awaitFiles" => asked' = 2 + Len(gathered')
      BY <1>0, <1>5 DEF BudgetOK
    <2> QED
      BY <1>5, <2>3, <2>4, <2>5, <2>6 DEF BudgetOK, RequestBudget
  <1>6. CASE AskVersion
    BY <1>5, <1>6 DEF AskVersion, Send, Connection!Begin, local
  <1>7. CASE AskFiles
    BY <1>5, <1>7 DEF AskFiles, Send, Connection!Begin, local
  <1>8. CASE Transmit
    <2>1. /\ busy /\ attempts' = attempts + 1 /\ attempts <= maxRetries
          /\ sent' = sent + 1 /\ UNCHANGED <<asked, pc, params, entity, gathered>>
      BY <1>8 DEF Transmit, Connection!Attempt, local
    <2>2. pc \in {"awaitVersion", "awaitFiles"} /\ asked > 0
      BY <1>0, <2>1 DEF StageOK, BudgetOK
    <2>3. asked * Budget = (asked - 1) * Budget + Budget /\ (asked - 1) * Budget \in Nat
      <3>1. asked - 1 \in Nat
        BY <1>0, <2>2
      <3> QED
        BY <1>0, <2>2, <3>1, OneMore
    <2>4. sent + 1 <= (asked - 1) * Budget + attempts'
      BY <1>0, <2>1, <2>2, <2>3 DEF BudgetOK
    <2>5. sent + 1 <= asked * Budget
      BY <1>0, <1>a, <2>1, <2>2, <2>3, <2>4
    <2> QED
      BY <1>0, <2>1, <2>4, <2>5, SameCall DEF BudgetOK, RequestBudget
  <1>9. CASE Answer
    BY <1>1, <1>9 DEF Answer, Connection!Answer, history, local
  <1>10. CASE EndRequest
    BY <1>1, <1>10 DEF EndRequest, Connection!Succeed, Connection!Reject, Connection!Fail,
                       history, local
  <1>11. CASE ReceiveVersion
    <2>1. /\ pc = "awaitVersion" /\ pc' = "askFiles" /\ UNCHANGED <<asked, sent, params, gathered>>
          /\ entity' # Nothing
      BY <1>11 DEF ReceiveVersion, VersionReceived, CheckVersion, history
    <2>2. asked = 1 /\ Len(gathered) = 0
      BY <1>0, <2>1 DEF BudgetOK, StageOK
    <2>3. Len(Parts') \in Nat
      BY <2>1, PartsStep, StageStep, TypeStep DEF PartsOK
    <2>4. Budget' = Budget
      BY <2>1 DEF Budget
    <2> QED
      BY <1>0, <2>1, <2>2, <2>3, <2>4 DEF BudgetOK, RequestBudget
  <1>12. CASE ReceiveFiles
    <2>1. /\ pc = "awaitFiles" /\ pc' = "askFiles" /\ UNCHANGED <<asked, sent, params, entity>>
          /\ \E part : gathered' = Append(gathered, part)
      BY <1>12 DEF ReceiveFiles, FilesReceived, history
    <2>2. Len(gathered') = Len(gathered) + 1
      BY <1>0, <2>1 DEF TypeOK, AnyParts
    <2> QED
      BY <1>0, <2>1, <2>2, SameCall DEF BudgetOK, RequestBudget
  <1>13. CASE Deliver
    BY <1>1, <1>13 DEF Deliver, connection, history, local
  <1>14. CASE Fails
    BY <1>1, <1>14 DEF Fails, connection, history, local
  <1>15. CASE UNCHANGED vars
    BY <1>1, <1>15 DEF vars, connection, history, local
  <1> QED
    BY <1>0, <1>2, <1>3, <1>4, <1>6, <1>7, <1>8, <1>9, <1>10, <1>11, <1>12, <1>13,
       <1>14, <1>15, Steps

LEMMA OfferStep == IInv /\ [Next]_vars => OfferOK'
  <1> SUFFICES ASSUME IInv, [Next]_vars PROVE OfferOK'
    OBVIOUS
  <1>0. TypeOK /\ StageOK /\ AnswerOK /\ PartsOK /\ OfferOK
    BY DEF IInv
  <1>1. ASSUME UNCHANGED <<latest, offered, pc, params, entity, last, answer>>
        PROVE  OfferOK'
    BY <1>0, <1>1 DEF OfferOK, IsOneProduct, Product
  <1>2. ASSUME pc' = "idle", offered' = {} PROVE OfferOK'
    BY <1>2 DEF OfferOK
  <1>3. ASSUME NEW product \in Products, Publish(product) PROVE OfferOK'
    <2>1. /\ UNCHANGED <<pc, params, entity, last, answer>>
          /\ latest' = [latest EXCEPT ![product] = latest[product] + 1]
          /\ offered' = IF pc # "idle" /\ IsOneProduct /\ product = Product
                        THEN offered \cup {latest'[product]} ELSE offered
      BY <1>3 DEF Publish, connection, local, Product
    <2>2. IsOneProduct' = IsOneProduct /\ Product' = Product
      BY <2>1 DEF IsOneProduct, Product
    <2>3. pc # "idle" /\ IsOneProduct => latest'[Product] \in offered'
      <3>1. latest \in [Products -> 1 .. MaxVersion] /\ (IsOneProduct => Product \in Products)
        BY <1>0 DEF TypeOK, IsOneProduct, Product
      <3> QED
        BY <1>0, <2>1, <3>1 DEF OfferOK
    <2>4. offered \subseteq offered' /\ (pc = "idle" \/ ~IsOneProduct => offered' = {})
      BY <1>0, <2>1 DEF OfferOK
    <2> QED
      BY <1>0, <2>1, <2>2, <2>3, <2>4 DEF OfferOK
  <1>4. ASSUME NEW p \in Parameters, Call(p) PROVE OfferOK'
    BY <1>4 DEF Call, OfferOK, Product
  <1>5. CASE MakeConnection
    <2>1. IsOneProduct
      <3>1. params.productRequests # <<>> /\ ~(Len(params.productRequests) > 1)
            /\ Product # EmptyProduct
        BY <1>5 DEF MakeConnection, MayConnect, ValidateRequestParams
      <3>2. params.productRequests \in
              {<<>>} \cup [1 .. 1 -> Products \cup {EmptyProduct}] \cup [1 .. 2 -> Products]
        BY <1>0 DEF TypeOK, Parameters
      <3>3. ASSUME params.productRequests \in [1 .. 2 -> Products] PROVE FALSE
        BY <3>1, <3>3
      <3> QED
        BY <3>1, <3>2, <3>3 DEF IsOneProduct, Product
    <2> QED
      BY <1>0, <1>5, <2>1 DEF MakeConnection, MayConnect, OfferOK, service, local,
                              IsOneProduct, Product
  <1>6. CASE AskVersion
    BY <1>0, <1>6 DEF AskVersion, Send, Connection!Begin, Connection!Unanswered, OfferOK,
                      service, local, IsOneProduct, Product
  <1>7. CASE AskFiles
    BY <1>0, <1>7 DEF AskFiles, Send, OfferOK, service, local, IsOneProduct, Product
  <1>8. CASE Transmit
    BY <1>0, <1>8 DEF Transmit, Connection!Attempt, Connection!Unanswered, OfferOK,
                      service, local, IsOneProduct, Product
  <1>9. CASE Answer
    <2>1. /\ busy /\ UNCHANGED <<pc, params, entity, request, latest, offered>>
          /\ last' = 200 => answer' \in Bodies
      BY <1>9 DEF Answer, Connection!Answer, Connection!IsSuccessfulSFSHttpCode, service, local
    <2>2. ASSUME pc = "awaitVersion", last' = 200, answer'.entity # Nothing
          PROVE  answer'.entity.version \in offered
      <3>1. request.what = "latest" /\ request.name = Product
        BY <1>0, <2>2 DEF AnswerOK, RequestFor
      <3>2. answer'.entity \in Entities
        BY <2>1, <2>2, <3>1 DEF Bodies, NoBody
      <3>3. answer'.entity.version = latest[Product]
        BY <3>1, <3>2 DEF Entities
      <3> QED
        BY <1>0, <2>2, <3>3 DEF OfferOK
    <2> QED
      BY <1>0, <2>1, <2>2 DEF OfferOK, IsOneProduct, Product
  <1>10. CASE EndRequest
    BY <1>1, <1>10 DEF EndRequest, Connection!Succeed, Connection!Reject, Connection!Fail,
                       service, local
  <1>11. CASE ReceiveVersion
    <2>1. /\ pc = "awaitVersion" /\ pc' = "askFiles" /\ outcome.code = "Success" /\ ~busy
          /\ CheckVersion(Response.entity) = "Success" /\ entity' = Response.entity
          /\ UNCHANGED <<latest, offered, params>>
      BY <1>11 DEF ReceiveVersion, VersionReceived, service
    <2>2. /\ Response.entity # Nothing
          /\ Response.entity.nameSpace = NameSpace /\ Response.entity.name = Product
      BY <2>1 DEF CheckVersion
    <2>3. Response = answer /\ last = 200
      BY <1>0, <2>1, <2>2 DEF Response, NoBody, AnswerOK
    <2> QED
      BY <1>0, <2>1, <2>2, <2>3 DEF OfferOK, IsOneProduct, Product
  <1>12. CASE ReceiveFiles
    BY <1>0, <1>12 DEF ReceiveFiles, FilesReceived, OfferOK, service, IsOneProduct, Product
  <1>13. CASE Deliver
    BY <1>2, <1>13 DEF Deliver
  <1>14. CASE Fails
    BY <1>2, <1>14 DEF Fails
  <1>15. CASE UNCHANGED vars
    BY <1>1, <1>15 DEF vars, connection, service, local
  <1> QED
    BY <1>0, <1>3, <1>4, <1>5, <1>6, <1>7, <1>8, <1>9, <1>10, <1>11, <1>12, <1>13,
       <1>14, <1>15, Steps

LEMMA InvStep == IInv /\ [Next]_vars => IInv'
  BY TypeStep, StageStep, AnswerStep, PartsStep, BudgetStep, OfferStep,
     ContentsStep DEF IInv

-----------------------------------------------------------------------------
(* The results.                                                                *)

(* Every state of a client satisfies the invariant: the stages of a call, its  *)
(* answers, the parts received so far and the requests spent fit together.     *)
THEOREM InductiveInvariant == Spec => []IInv
  BY InitInv, InvStep, PTL DEF Spec

(* The files of every part are those of its name and version, however many     *)
(* versions are published between the requests of the call.                    *)
THEOREM FilesBelongToTheContent == Spec => []FilesBelongToTheirContent
  <1>1. IInv => FilesBelongToTheirContent
    BY DEF IInv
  <1> QED
    BY <1>1, InductiveInvariant, PTL

(* A call that succeeds has delivered the content and each prerequisite of an  *)
(* app, in order, and only files of the kind that was asked for.               *)
THEOREM SuccessIsComplete == Spec => []ContentIsComplete
  <1>1. IInv => ContentIsComplete
    BY DEF IInv
  <1> QED
    BY <1>1, InductiveInvariant, PTL

(* No call sends more requests than its parts and the retries they allow.      *)
THEOREM BudgetIsKept == Spec => []RequestBudget
  <1>1. IInv => RequestBudget
    BY DEF IInv, BudgetOK
  <1> QED
    BY <1>1, InductiveInvariant, PTL

(* A call ends with the first request that fails, and with its code.           *)
THEOREM FailureIsReported == Spec => FirstFailureIsReported
  <1>1. ASSUME IInv, [Next]_vars
        PROVE  [~busy /\ outcome.code \notin {"Pending", "Success"}
                  /\ pc \notin {"idle", "validate"} =>
                 /\ ~busy'
                 /\ pc' = "idle" => result' \in {Caught(outcome.code), "Unexpected"}]_vars
    <2> SUFFICES ASSUME ~busy, outcome.code \notin {"Pending", "Success"},
                        pc \notin {"idle", "validate"}, ~UNCHANGED vars
                 PROVE  ~busy' /\ (pc' = "idle" =>
                                     result' \in {Caught(outcome.code), "Unexpected"})
      OBVIOUS
    <2>1. pc \in {"awaitVersion", "awaitFiles"}
      BY <1>1 DEF IInv, StageOK, TypeOK
    <2>2. \/ RequestFails
          \/ \E product \in Products : Publish(product)
      BY <1>1, <2>1
         DEF Next, Operate, Call, RefuseParams, RefuseInstance, MakeConnection,
             MakeConnectionFails, MayConnect, AskVersion, AskFiles, UrlFails, Asking, Abandon,
             VersionReceived, FilesReceived, Transmit, Connection!Attempt, Answer,
             Connection!Answer, EndRequest, Connection!Succeed, Connection!Reject,
             Connection!Fail, RefuseVersion, ReceiveVersion, RefuseFiles, ReceiveFiles, Deliver
    <2> QED
      BY <2>1, <2>2 DEF RequestFails, Return, Publish, connection, Awaiting
  <1> QED
    BY <1>1, InductiveInvariant, PTL DEF Spec, FirstFailureIsReported


-----------------------------------------------------------------------------
(* A client implements DownloadInfo.                                           *)

(* To the caller, a step of the client that no DownloadInfo step describes     *)
(* changes nothing.                                                            *)
LEMMA DownloadInfoStep ==
  IInv /\ IInv' /\ [Next]_vars => [DownloadInfo!Next]_(DownloadInfo!vars)
  <1> DEFINE calling == IF pc # "idle" /\ IsOneProduct THEN Product ELSE Nothing
             delivered == IF contents = <<>> THEN Nothing ELSE contents[1].id
             Stutter == UNCHANGED <<latest, calling, offered, delivered, result>>
  <1> SUFFICES ASSUME IInv, IInv', [Next]_vars, ~UNCHANGED DownloadInfo!vars
               PROVE  DownloadInfo!Next
    OBVIOUS
  <1>0. /\ TypeOK /\ StageOK /\ AnswerOK /\ PartsOK /\ OfferOK /\ OfferOK'
        /\ IsOneProduct => Product \in Products
        /\ Nothing \notin Products
    BY NothingAssumption DEF IInv, IsOneProduct, Product
  <1>1. ~Stutter
    BY DEF DownloadInfo!vars
  <1>2. ASSUME UNCHANGED <<latest, offered, params, contents, result>>,
               (pc = "idle") = (pc' = "idle")
        PROVE  FALSE
    <2>1. calling' = calling /\ delivered' = delivered
      BY <1>2 DEF IsOneProduct, Product
    <2> QED
      BY <1>1, <1>2, <2>1
  <1>3. ASSUME NEW product \in Products, Publish(product) PROVE DownloadInfo!Next
    <2>1. /\ UNCHANGED <<pc, params, contents, result>>
          /\ latest[product] < MaxVersion
          /\ latest' = [latest EXCEPT ![product] = latest[product] + 1]
          /\ offered' = IF pc # "idle" /\ IsOneProduct /\ product = Product
                        THEN offered \cup {latest'[product]} ELSE offered
      BY <1>3 DEF Publish, local, caller, Product
    <2>2. calling' = calling /\ delivered' = delivered
      BY <2>1 DEF IsOneProduct, Product
    <2>3. calling = product <=> pc # "idle" /\ IsOneProduct /\ product = Product
      BY <1>0
    <2>4. DownloadInfo!Publish(product)
      BY <2>1, <2>2, <2>3 DEF DownloadInfo!Publish
    <2> QED
      BY <2>4 DEF DownloadInfo!Next
  <1>4. ASSUME NEW p \in Parameters, Call(p) PROVE DownloadInfo!Next
    <2>1. /\ pc = "idle" /\ pc' = "validate" /\ params' = p
          /\ UNCHANGED <<latest, contents, result>>
          /\ offered' = IF IsOneProduct' THEN {latest[p.productRequests[1]]} ELSE {}
      BY <1>4 DEF Call
    <2>2. calling = Nothing /\ delivered' = delivered /\ Product' = p.productRequests[1]
      BY <2>1 DEF Product
    <2>3. CASE IsOneProduct'
      <3>1. Product' \in Products /\ calling' = Product'
        BY <2>1, <2>3 DEF IsOneProduct, Product
      <3>2. DownloadInfo!Call(Product')
        BY <2>1, <2>2, <2>3, <3>1 DEF DownloadInfo!Call
      <3> QED
        BY <3>1, <3>2 DEF DownloadInfo!Next
    <2>4. CASE ~IsOneProduct'
      <3>1. offered = {} /\ offered' = {} /\ calling' = Nothing
        BY <1>0, <2>1, <2>4 DEF OfferOK
      <3> QED
        BY <1>1, <2>1, <2>2, <3>1
    <2> QED
      BY <2>3, <2>4
  <1>5. CASE MakeConnection
    BY <1>2, <1>5 DEF MakeConnection, MayConnect, service, local, caller
  <1>6. CASE AskVersion
    BY <1>2, <1>6 DEF AskVersion, Send, service, local, caller
  <1>7. CASE AskFiles
    BY <1>2, <1>7 DEF AskFiles, Send, service, local, caller
  <1>8. CASE Transmit
    BY <1>2, <1>8 DEF Transmit, service, local, caller
  <1>9. CASE Answer
    BY <1>2, <1>9 DEF Answer, service, local, caller
  <1>10. CASE EndRequest
    BY <1>2, <1>10 DEF EndRequest, service, local, caller
  <1>11. CASE ReceiveVersion
    BY <1>2, <1>11 DEF ReceiveVersion, VersionReceived, service, caller
  <1>12. CASE ReceiveFiles
    BY <1>2, <1>12 DEF ReceiveFiles, FilesReceived, service, caller
  <1>13. CASE Deliver
    <2>1. /\ pc = "askFiles" /\ pc' = "idle" /\ offered' = {} /\ result' = "Success"
          /\ contents' = gathered /\ Len(gathered) = Len(Parts) /\ UNCHANGED latest
      BY <1>13 DEF Deliver
    <2>2. /\ IsOneProduct /\ calling = Product /\ calling' = Nothing
      BY <1>0, <2>1 DEF OfferOK
    <2>3. gathered # <<>> /\ gathered[1].id = Parts[1] /\ Parts[1] = ToContentId(entity)
      <3>1. entity \in AnyEntity
        BY <1>0, <2>1 DEF TypeOK, StageOK
      <3>2. entity.prerequisites \in Seq(ContentIds)
        BY <3>1, ServiceAssumption, EmptySeq DEF AnyEntity
      <3>3. (IF params.app THEN entity.prerequisites ELSE <<>>) \in Seq(ContentIds)
        BY <3>2, EmptySeq
      <3>4. ToContentId(entity) \in ContentIds
        BY <3>1 DEF AnyEntity, ContentIds, ToContentId
      <3>5. Len(Parts) > 0 /\ Parts[1] = ToContentId(entity)
        BY <3>3, <3>4, ConcatProperties, LenProperties DEF Parts
      <3>6. gathered \in Seq([id : ContentIds, files : AnyFiles])
        BY <1>0 DEF TypeOK, AnyParts
      <3>7. gathered # <<>> /\ 1 \in DOMAIN gathered
        BY <2>1, <3>5, <3>6, LenProperties
      <3> QED
        BY <1>0, <2>1, <3>5, <3>7 DEF PartsOK
    <2>4. /\ delivered' = [nameSpace |-> NameSpace, name |-> calling, version |-> entity.version]
          /\ entity.version \in offered
      BY <1>0, <2>1, <2>2, <2>3 DEF OfferOK, ToContentId
    <2>5. calling # Nothing
      BY <1>0, <2>2
    <2>6. DownloadInfo!Succeed
      BY <2>1, <2>2, <2>4, <2>5 DEF DownloadInfo!Succeed
    <2> QED
      BY <2>6 DEF DownloadInfo!Next
  <1>14. CASE Fails
    <2>1. /\ pc # "idle" /\ pc' = "idle" /\ offered' = {} /\ result' \in Errors
          /\ UNCHANGED <<latest, contents>>
      BY <1>14 DEF Fails
    <2>2. calling' = Nothing /\ delivered' = delivered
      BY <2>1
    <2>3. CASE IsOneProduct
      <3>1. DownloadInfo!Fail
        BY <1>0, <2>1, <2>2, <2>3 DEF DownloadInfo!Fail
      <3> QED
        BY <3>1 DEF DownloadInfo!Next
    <2>4. CASE ~IsOneProduct
      <3>1. DownloadInfo!Refuse
        BY <1>0, <2>1, <2>2, <2>4 DEF DownloadInfo!Refuse, OfferOK
      <3> QED
        BY <3>1 DEF DownloadInfo!Next
    <2> QED
      BY <2>3, <2>4
  <1>15. CASE UNCHANGED vars
    BY <1>2, <1>15 DEF vars, service, local, caller
  <1> QED
    BY <1>0, <1>3, <1>4, <1>5, <1>6, <1>7, <1>8, <1>9, <1>10, <1>11, <1>12, <1>13,
       <1>14, <1>15, Steps

(* To the caller, a call either replaces the vector by a content that was the  *)
(* latest one at some time during the call, or leaves it and returns an error. *)
THEOREM ImplementsSafely == Spec => DownloadInfo!SafeSpec
  <1>1. Init => DownloadInfo!Init
    BY DEF Init, DownloadInfo!Init
  <1> QED
    BY <1>1, DownloadInfoStep, InductiveInvariant, PTL DEF Spec, DownloadInfo!SafeSpec

=============================================================================
