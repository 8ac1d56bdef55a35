------------------------ MODULE CurlConnectionProofs ------------------------
(***************************************************************************)
(* Proofs about CurlConnection, for every number of retries, limit on the  *)
(* body, set of statuses, Retry-After values and number of operations.     *)
(***************************************************************************)
EXTENDS CurlConnection, TLAPS

USE DEF NoAnswer, EmptyUrl, NoData, Null

-----------------------------------------------------------------------------
(* Types. *)

(* The values that the options start from, or go back to, have their types.    *)
LEMMA Zeros ==
  /\ 0 \in 0 .. MaxCalls
  /\ 0 \in 0 .. CvLimit
  /\ EmptyUrl \in Urls \cup {EmptyUrl}
  /\ NoData \in Bodies
  /\ "GET" \in Methods /\ "POST" \in Methods
  /\ FALSE \in BOOLEAN
  <1>1. 0 \in 0 .. MaxCalls /\ 0 \in 0 .. CvLimit
    BY ConfigAssumption
  <1>2. NoData \in Bodies
    BY DataAssumption
  <1>3. QED
    BY <1>1, <1>2 DEF Methods

(* Whatever the logging callback does, a code of HttpRequest is thrown.        *)
LEMMA ThrownCodes ==
  ASSUME NEW code \in {"InvalidArg", "ConnectionSetupFailed",
                       "ConnectionUnexpectedError", "HttpTimeout"}
  PROVE  Thrown(code) \subseteq Abstract!LocalErrors
  BY DEF Thrown, Abstract!LocalErrors

\* Codes of results.
LEMMA RejectedCodes ==
  ASSUME NEW status \in Nat, ~Abstract!IsSuccessfulSFSHttpCode(status)
  PROVE  /\ Abstract!HttpCodeToResult(status) \in Abstract!HttpErrors
         /\ Thrown(Abstract!HttpCodeToResult(status)) \subseteq Abstract!Codes \ {"Success", "Pending"}
  BY DEF Thrown, Abstract!HttpCodeToResult, Abstract!HttpErrors, Abstract!Codes,
         Abstract!LocalErrors, Abstract!IsSuccessfulSFSHttpCode

\* Leaving an operation keeps the types, whatever the code and the body.
LEMMA LeaveTypes ==
  ASSUME TypeOK, NEW code \in Abstract!Codes, NEW body \in Buffer, Leave(code, body)
  PROVE  TypeOK'
  <1>1. handle' \in Options
    <2>1. PICK errorBuffer \in {handle.errorBuffer, Null} :
            handle' = [handle EXCEPT !.errorBuffer = errorBuffer]
      BY DEF Leave
    <2>2. handle.errorBuffer \in 0 .. MaxCalls
      BY DEF TypeOK, Options
    <2>3. errorBuffer \in 0 .. MaxCalls
      BY <2>2, ConfigAssumption
    <2>4. QED
      BY <2>1, <2>3 DEF TypeOK, Options
  <1>2. readBuffer' \in Buffer
    BY ConfigAssumption DEF Leave, EmptyBuffer, Buffer
  <1>3. delay' \in Delays
    BY DEF Leave, Delays
  <1>4. result' \in [code : Abstract!Codes, body : Buffer]
    BY DEF Leave
  <1>5. pc' \in Locations
    BY DEF Leave, Locations
  <1>6. QED
    BY <1>1, <1>2, <1>3, <1>4, <1>5 DEF Leave, TypeOK, TotalAttempts

(* Leaving an operation by an exception keeps the types.                       *)
LEMMA ThrowTypes ==
  ASSUME TypeOK, NEW codes \in SUBSET Abstract!Codes, Throw(codes)
  PROVE  TypeOK'
  <1>1. PICK code \in codes : Leave(code, EmptyBuffer)
    BY DEF Throw
  <1>2. EmptyBuffer \in Buffer
    BY ConfigAssumption DEF EmptyBuffer, Buffer
  <1>3. QED
    BY <1>1, <1>2, LeaveTypes

\* A step of setting up the handle keeps the types if the new options have
\* the type of options.
LEMMA SetOptionTypes ==
  ASSUME TypeOK, NEW here, NEW next \in Locations, NEW configured \in Options,
         SetOption(here, next, configured)
  PROVE  TypeOK'
  <1>1. CASE Throw(Thrown("ConnectionSetupFailed"))
    BY <1>1, ThrowTypes, ThrownCodes DEF Abstract!Codes
  <1>2. CASE /\ pc' = next
             /\ handle' = configured
             /\ UNCHANGED <<maxRetries, cv, call, attempt, readBuffer, reply, delay,
                            result, wire, received>>
    BY <1>2 DEF TypeOK, TotalAttempts
  <1>3. QED
    BY <1>1, <1>2 DEF SetOption

(* Setting one option of the handle, or failing to, keeps the types.           *)
LEMMA SetUpTypes ==
  ASSUME TypeOK, SetUp
  PROVE  TypeOK'
  <1>1. /\ call.method \in Methods /\ call.url \in Urls \cup {EmptyUrl}
        /\ call.data \in Bodies /\ call.id \in 0 .. MaxCalls
    BY DEF TypeOK, Operation
  <1> cv.value \in 0 .. CvLimit
    BY DEF TypeOK
  <1>2. HeaderList \in Headers /\ NoHeaders \in Headers
    <2>1. (call.method = "POST") \in BOOLEAN
      OBVIOUS
    <2>2. HeaderList \in Headers
      BY <1>1, <2>1, Zenon DEF HeaderList, Headers
    <2>3. NoHeaders \in Headers
      BY ConfigAssumption DEF NoHeaders, Headers
    <2>4. QED
      BY <2>2, <2>3
  <1>3. handle \in Options
    BY DEF TypeOK
  <1>4. CASE SetMethod
    <2>1. [handle EXCEPT !.method = call.method] \in Options
      BY <1>1, <1>3 DEF Options
    <2>2. QED
      BY <1>4, <2>1, SetOptionTypes DEF SetMethod, Locations
  <1>5. CASE SetPayload
    <2>1. /\ [handle EXCEPT !.headers = NoHeaders] \in Options
          /\ [handle EXCEPT !.method = "POST", !.postFields = call.data] \in Options
      BY <1>1, <1>2, <1>3 DEF Options, Methods
    <2>2. QED
      BY <1>5, <2>1, SetOptionTypes DEF SetPayload, Locations
  <1>6. CASE SetUrl
    <2>1. [handle EXCEPT !.url = call.url] \in Options
      BY <1>1, <1>3 DEF Options
    <2>2. QED
      BY <1>6, <2>1, SetOptionTypes DEF SetUrl, Locations
  <1>7. CASE IncrementCv
    <2>1. cv' \in [value : 0 .. CvLimit, isFirstUse : BOOLEAN]
      <3>1. cv \in [value : 0 .. CvLimit, isFirstUse : BOOLEAN]
        BY DEF TypeOK
      <3>2. cv.value < CvLimit => cv.value + 1 \in 0 .. CvLimit
        BY ConfigAssumption
      <3>3. QED
        BY <1>7, <3>1, <3>2 DEF IncrementCv, IncrementAndGet
    <2>2. QED
      BY <1>7, <2>1 DEF IncrementCv, TypeOK, Locations, TotalAttempts
  <1>8. CASE SetHeaders
    <2>1. [handle EXCEPT !.headers = HeaderList] \in Options
      BY <1>2, <1>3 DEF Options
    <2>2. QED
      BY <1>8, <2>1, SetOptionTypes DEF SetHeaders, Locations
  <1>9. CASE SetErrorBuffer
    <2>1. [handle EXCEPT !.errorBuffer = call.id] \in Options
      BY <1>1, <1>3 DEF Options
    <2>2. QED
      BY <1>9, <2>1, SetOptionTypes DEF SetErrorBuffer, Locations
  <1>10. CASE SetWriteData
    <2>1. [handle EXCEPT !.writeData = call.id] \in Options
      BY <1>1, <1>3 DEF Options
    <2>2. QED
      BY <1>10, <2>1, SetOptionTypes DEF SetWriteData, Locations
  <1>11. QED
    BY <1>4, <1>5, <1>6, <1>7, <1>8, <1>9, <1>10 DEF SetUp

(* The attempts made, and the ones there may be, are numbers.                  *)
LEMMA AttemptsAreBounded ==
  ASSUME TypeOK
  PROVE  /\ maxRetries \in Nat /\ maxRetries <= c_maxRetries
         /\ TotalAttempts \in Nat /\ TotalAttempts > 0
         /\ attempt \in 0 .. TotalAttempts
         /\ attempt \in 0 .. 1 + c_maxRetries
  <1>1. maxRetries \in {0, c_maxRetries} /\ attempt \in 0 .. TotalAttempts
    BY DEF TypeOK
  <1>2. QED
    BY <1>1, ConfigAssumption DEF TotalAttempts

(* Attempts, and what libcurl hands over during a transfer, keep the types.    *)
LEMMA TransferTypes ==
  ASSUME TypeOK, StartAttempt \/ AbandonAttempt \/ Transfer
  PROVE  TypeOK'
  <1>1. CASE StartAttempt
    <2>1. attempt' \in 0 .. TotalAttempts'
      <3>1. attempt \in 0 .. TotalAttempts /\ TotalAttempts \in Nat
        BY ConfigAssumption DEF TypeOK, TotalAttempts
      <3>2. TotalAttempts' = TotalAttempts
        BY <1>1 DEF StartAttempt, TotalAttempts
      <3>3. QED
        BY <1>1, <3>1, <3>2 DEF StartAttempt
    <2>2. readBuffer' \in Buffer
      BY <1>1, ConfigAssumption DEF StartAttempt, EmptyBuffer, Buffer
    <2>3. wire' \in Requests
      <3>1. handle \in Options
        BY DEF TypeOK
      <3>2. handle.headers \in Headers
        BY <3>1 DEF Options
      <3>3. /\ handle.method \in Methods /\ handle.url \in Urls \cup {EmptyUrl}
            /\ handle.postFields \in Bodies
        BY <3>1 DEF Options
      <3>4. handle.headers.type \in BOOLEAN /\ handle.headers.cv \in 0 .. CvLimit
        BY <3>2, Zenon DEF Headers
      <3>5. (IF handle.method = "POST" THEN handle.postFields ELSE NoData) \in Bodies
        BY <3>3, DataAssumption
      <3>6. Request \in Requests
        BY <3>3, <3>4, <3>5, Zenon DEF Request, Requests
      <3>7. QED
        BY <1>1, <3>6 DEF StartAttempt
    <2>4. QED
      BY <1>1, <2>1, <2>2, <2>3 DEF StartAttempt, TypeOK, Locations
  <1>2. CASE AbandonAttempt
    <2>1. EmptyBuffer \in Buffer
      BY ConfigAssumption DEF EmptyBuffer, Buffer
    <2>2. QED
      BY <1>2, <2>1, LeaveTypes DEF AbandonAttempt, Abstract!Codes, Abstract!LocalErrors
  <1>3. CASE TransferFails
    BY <1>3, ThrowTypes, ThrownCodes DEF TransferFails, CurlCodeToResult, Abstract!Codes
  <1>4. CASE TransferCompletes
    BY <1>4 DEF TransferCompletes, TypeOK, TotalAttempts, Locations
  <1>5. CASE ReceiveChunk
    <2>1. PICK size \in ChunkSizes : AcceptChunk(size) \/ RefuseChunk(size)
      BY <1>5 DEF ReceiveChunk
    <2>2. CASE RefuseChunk(size)
      BY <2>2, ThrowTypes, ThrownCodes DEF RefuseChunk, Abstract!Codes
    <2>3. CASE AcceptChunk(size)
      <3>1. readBuffer.len + size \in 0 .. MAX_RESPONSE_CHARACTERS
        <4>1. size \in Nat
          BY DataAssumption
        <4>2. readBuffer.len \in Nat
          BY ConfigAssumption DEF TypeOK, Buffer
        <4>3. readBuffer.len + size <= MAX_RESPONSE_CHARACTERS
          BY <2>3 DEF AcceptChunk
        <4>4. QED
          BY <4>1, <4>2, <4>3, ConfigAssumption
      <3>2. attempt \in 0 .. 1 + c_maxRetries
        BY AttemptsAreBounded
      <3>3. readBuffer.from \in SUBSET (0 .. 1 + c_maxRetries)
        BY DEF TypeOK, Buffer
      <3>4. readBuffer' \in Buffer
        BY <2>3, <3>1, <3>2, <3>3 DEF AcceptChunk, Buffer
      <3>5. received' \in Nat
        <4>1. size \in Nat /\ received \in Nat
          BY DataAssumption DEF TypeOK
        <4>2. received' = received + size
          BY <2>3 DEF AcceptChunk
        <4>3. QED
          BY <4>1, <4>2
      <3>6. QED
        BY <2>3, <3>4, <3>5 DEF AcceptChunk, TypeOK, TotalAttempts
    <2>4. QED
      BY <2>1, <2>2, <2>3
  <1>6. QED
    BY <1>1, <1>2, <1>3, <1>4, <1>5 DEF Transfer

(* The status and the Retry-After of the handle have their types.              *)
LEMMA StatusIsANumber ==
  ASSUME TypeOK
  PROVE  reply.status \in Nat /\ reply.retryAfter \in RetryAfter
  <1>1. CASE reply \in Reply
    BY <1>1, DataAssumption DEF Reply
  <1>2. CASE reply = NoReply
    BY <1>2 DEF NoReply, RetryAfter
  <1>3. QED
    BY <1>1, <1>2 DEF TypeOK

(* What is decided on an answer (result, retry and wait) keeps the types.      *)
LEMMA DecideTypes ==
  ASSUME TypeOK, ProgressOK, Decide
  PROVE  TypeOK'
  <1>1. /\ Thrown("ConnectionUnexpectedError") \subseteq Abstract!Codes
        /\ "Success" \in Abstract!Codes
    BY ThrownCodes DEF Abstract!Codes
  <1>2. CASE GetInfoFails
    BY <1>1, <1>2, ThrowTypes DEF GetInfoFails
  <1>3. CASE Succeed
    BY <1>1, <1>3, LeaveTypes DEF Succeed, TypeOK
  <1>4. CASE Reject
    BY <1>4, StatusIsANumber, RejectedCodes, ThrowTypes DEF Reject
  <1>5. CASE ProcessRetry
    <2>1. delay' \in Delays
      <3>1. CASE reply.retryAfter.present
        <4>1. reply.retryAfter.seconds \in RetryAfters
          <5>1. reply.retryAfter # NoRetryAfter
            BY <3>1 DEF NoRetryAfter
          <5>2. reply.retryAfter \in [present : {TRUE}, seconds : RetryAfters]
            BY <5>1, StatusIsANumber DEF RetryAfter
          <5>3. QED
            BY <5>2
        <4>2. QED
          BY <1>5, <3>1, <4>1 DEF ProcessRetry, RetryDelays, Delays
      <3>2. CASE ~reply.retryAfter.present
        <4>1. attempt \in 1 .. c_maxRetries
          <5>1. attempt > 0 /\ attempt # TotalAttempts
            <6>1. pc = "answered" /\ CanRetry
              BY <1>5 DEF ProcessRetry
            <6>2. attempt > 0
              BY <6>1 DEF ProgressOK
            <6>3. attempt # TotalAttempts
              BY <6>1, Zenon DEF CanRetry, CanRetryRequest
            <6>4. QED
              BY <6>2, <6>3
          <5>2. QED
            BY <5>1, AttemptsAreBounded, ConfigAssumption DEF TotalAttempts
        <4>2. QED
          BY <1>5, <3>2, <4>1 DEF ProcessRetry, RetryDelays, BackOff, Delays
      <3>3. QED
        BY <3>1, <3>2
    <2>2. QED
      BY <1>5, <2>1 DEF ProcessRetry, TypeOK, TotalAttempts, Locations
  <1>6. CASE RefuseRetryAfter
    BY <1>1, <1>6, ThrowTypes DEF RefuseRetryAfter
  <1>7. CASE RetryFails
    BY <1>1, <1>7, ThrowTypes DEF RetryFails
  <1>8. QED
    BY <1>2, <1>3, <1>4, <1>5, <1>6, <1>7 DEF Decide

(* The initial state has its types.                                            *)
LEMMA InitTypes == Init => TypeOK
  <1> SUFFICES ASSUME Init PROVE TypeOK
    OBVIOUS
  <1>1. call = [id |-> 0, method |-> "GET", url |-> EmptyUrl, data |-> NoData]
    BY DEF Init
  <1>2. call \in Operation
    BY <1>1, Zeros, Zenon DEF Operation
  <1>3. NoHeaders \in Headers
    BY ConfigAssumption DEF NoHeaders, Headers
  <1>4. handle = [method |-> "GET", url |-> EmptyUrl, postFields |-> NoData,
               headers |-> NoHeaders, writeData |-> Null, errorBuffer |-> Null]
    BY DEF Init
  <1>5. handle \in Options
    BY <1>3, <1>4, Zeros, Zenon DEF Options
  <1>6. NoRequest \in Requests
    BY Zeros, Zenon DEF NoRequest, Requests
  <1>7. [value |-> 0, isFirstUse |-> TRUE] \in [value : 0 .. CvLimit, isFirstUse : BOOLEAN]
    BY ConfigAssumption
  <1>8. EmptyBuffer \in Buffer
    BY ConfigAssumption DEF EmptyBuffer, Buffer
  <1>9. maxRetries \in {0, c_maxRetries} /\ attempt = 0
    BY DEF Init
  <1>10. attempt \in 0 .. TotalAttempts
    BY <1>9, ConfigAssumption DEF TotalAttempts
  <1>11. [code |-> Abstract!Pending, body |-> EmptyBuffer] \in [code : Abstract!Codes, body : Buffer]
    BY <1>8 DEF Abstract!Codes
  <1>12. "idle" \in Locations /\ 0 \in Delays
    BY DEF Locations, Delays
  <1>13. QED
    BY <1>2, <1>5, <1>6, <1>7, <1>8, <1>9, <1>10, <1>11, <1>12 DEF Init, TypeOK

(* Every step keeps the types.                                                 *)
LEMMA NextTypes ==
  ASSUME TypeOK, ProgressOK, [Next]_vars
  PROVE  TypeOK'
  <1>1. CASE RefuseEmptyUrl
    <2>1. EmptyBuffer \in Buffer
      BY ConfigAssumption DEF EmptyBuffer, Buffer
    <2>2. result' \in [code : Abstract!Codes, body : Buffer]
      BY <1>1, <2>1, ThrownCodes DEF RefuseEmptyUrl, Abstract!Codes
    <2>3. attempt' \in 0 .. TotalAttempts'
      <3>1. attempt' = 0 /\ TotalAttempts' = TotalAttempts
        BY <1>1 DEF RefuseEmptyUrl, TotalAttempts
      <3>2. QED
        BY <3>1, AttemptsAreBounded
    <2>4. QED
      BY <1>1, <2>2, <2>3 DEF RefuseEmptyUrl, TypeOK
  <1>2. ASSUME NEW method \in Methods, NEW url \in Urls, NEW data \in Bodies,
               Begin(method, url, data)
        PROVE  TypeOK'
    <2>1. EmptyBuffer \in Buffer
      BY ConfigAssumption DEF EmptyBuffer, Buffer
    <2>2. result' \in [code : Abstract!Codes, body : Buffer]
      BY <1>2, <2>1 DEF Begin, Abstract!Codes
    <2>3. attempt' \in 0 .. TotalAttempts'
      <3>1. attempt' = 0 /\ TotalAttempts' = TotalAttempts
        BY <1>2 DEF Begin, TotalAttempts
      <3>2. QED
        BY <3>1, AttemptsAreBounded
    <2>4. call' \in Operation
      <3>1. call.id \in 0 .. MaxCalls /\ call.id < MaxCalls
        <4>1. call \in Operation
          BY DEF TypeOK
        <4>2. call.id \in 0 .. MaxCalls
          BY <4>1 DEF Operation
        <4>3. call.id < MaxCalls
          BY <1>2 DEF Begin
        <4>4. QED
          BY <4>2, <4>3
      <3>2. call.id + 1 \in 0 .. MaxCalls
        BY <3>1, ConfigAssumption
      <3>3. call' = [id |-> call.id + 1, method |-> method, url |-> url, data |-> data]
        BY <1>2 DEF Begin
      <3>4. QED
        BY <3>2, <3>3 DEF Operation
    <2>5. QED
      BY <1>2, <2>2, <2>3, <2>4 DEF Begin, TypeOK, Locations
  <1>3. CASE SetUp
    BY <1>3, SetUpTypes
  <1>4. CASE StartAttempt \/ AbandonAttempt \/ Transfer
    BY <1>4, TransferTypes
  <1>5. CASE Decide
    BY <1>5, DecideTypes
  <1>6. CASE Wake
    BY <1>6 DEF Wake, TypeOK, Locations, Delays, TotalAttempts
  <1>7. CASE Close
    BY <1>7 DEF Close, TypeOK, Locations, TotalAttempts
  <1>8. CASE UNCHANGED vars
    BY <1>8 DEF vars, TypeOK, TotalAttempts
  <1>9. QED
    BY <1>1, <1>2, <1>3, <1>4, <1>5, <1>6, <1>7, <1>8 DEF Next, Operate, Closed

-----------------------------------------------------------------------------
(* The other parts of the invariant, action by action. *)

(* What the header list and a request hold, field by field.                    *)
LEMMA Fields ==
  /\ HeaderList.owner = call.id
  /\ HeaderList.type = (call.method = "POST")
  /\ HeaderList.cv = cv.value
  /\ Request.method = handle.method
  /\ Request.url = handle.url
  /\ Request.data = IF handle.method = "POST" THEN handle.postFields ELSE NoData
  /\ Request.type = handle.headers.type
  /\ Request.cv = handle.headers.cv
  /\ NoRequest.cv = 0
  BY Zenon DEF HeaderList, Request, NoRequest

(* Leaving an operation with the answer's body, or none, keeps the invariant.  *)
LEMMA LeaveKeeps ==
  ASSUME IInv, NEW code, NEW body, Leave(code, body),
         code = "Success" => /\ reply.status = 200
                             /\ body.len = received
                             /\ body.from \subseteq {attempt}
  PROVE  ProgressOK' /\ HandleOK' /\ BufferOK' /\ CvOK'
  <1>1. /\ pc' = "idle" /\ result' = [code |-> code, body |-> body]
        /\ UNCHANGED <<maxRetries, cv, call, attempt, reply, wire, received>>
    BY DEF Leave
  <1>2. ProgressOK'
    BY <1>1 DEF IInv, ProgressOK, InLoop, Outside
  <1>3. HandleOK'
    BY <1>1 DEF HandleOK, MethodSet, PayloadSet, UrlSet, CvTaken, HeadersSet,
                ErrorBufferSet, InLoop, Outside
  <1>4. BufferOK'
    BY <1>1 DEF BufferOK, BodyIsTheAnswer
  <1>5. CvOK'
    BY <1>1 DEF IInv, CvOK, CvTaken, HeadersSet, ErrorBufferSet, InLoop
  <1>6. QED
    BY <1>2, <1>3, <1>4, <1>5

(* Leaving an operation by an exception keeps the invariant.                   *)
LEMMA ThrowKeeps ==
  ASSUME IInv, NEW codes, Throw(codes), "Success" \notin codes
  PROVE  ProgressOK' /\ HandleOK' /\ BufferOK' /\ CvOK'
  BY LeaveKeeps DEF Throw

\* A step of setting up the handle changes where the thread is and the handle;
\* the facts about anything else carry over.
LEMMA SetOptionKeeps ==
  ASSUME IInv, NEW here, NEW next, NEW configured, SetOption(here, next, configured),
         here \in MethodSet \cup {"setMethod"}, here \notin InLoop,
         next \in MethodSet \ {"transfer", "answered", "sleep"},
         next \in CvTaken => here \in CvTaken,
         \/ HandleOK'
         \/ pc' # next \/ handle' # configured
  PROVE  ProgressOK' /\ HandleOK' /\ BufferOK' /\ CvOK'
  <1>1. CASE Throw(Thrown("ConnectionSetupFailed"))
    BY <1>1, ThrowKeeps DEF Thrown
  <1>2. CASE /\ pc = here /\ pc' = next /\ handle' = configured
             /\ UNCHANGED <<maxRetries, cv, call, attempt, readBuffer, reply, delay,
                            result, wire, received>>
    <2> USE DEF MethodSet, PayloadSet, UrlSet, CvTaken, HeadersSet, ErrorBufferSet,
                InLoop, Outside
    <2>1. attempt = 0 /\ TotalAttempts' = TotalAttempts
      BY <1>2 DEF IInv, ProgressOK, TotalAttempts
    <2>2. attempt < TotalAttempts
      BY <2>1, AttemptsAreBounded DEF IInv
    <2>3. ProgressOK'
      BY <1>2, <2>1, <2>2 DEF IInv, ProgressOK
    <2>4. BufferOK'
      BY <1>2 DEF IInv, BufferOK, BodyIsTheAnswer
    <2>5. CvOK'
      BY <1>2 DEF IInv, CvOK
    <2>6. QED
      BY <1>2, <2>3, <2>4, <2>5
  <1>3. QED
    BY <1>1, <1>2 DEF SetOption

(* Each step of setting up the handle keeps the invariant.                     *)
LEMMA SetUpKeeps ==
  ASSUME IInv, SetUp
  PROVE  ProgressOK' /\ HandleOK' /\ BufferOK' /\ CvOK'
  <1> USE DEF MethodSet, PayloadSet, UrlSet, CvTaken, HeadersSet, ErrorBufferSet,
              InLoop, Outside
  <1> handle \in Options /\ call \in Operation
    BY DEF IInv, TypeOK
  <1>1. CASE SetMethod
    <2> DEFINE configured == [handle EXCEPT !.method = call.method]
    <2>1. SetOption("setMethod", "setPayload", configured)
      BY <1>1 DEF SetMethod
    <2>2. ASSUME pc' = "setPayload", handle' = configured
          PROVE  HandleOK'
      <3>1. call' = call /\ pc = "setMethod"
        BY <2>1, <2>2 DEF SetOption, Throw, Leave
      <3>2. handle'.method = call.method
        BY <2>2 DEF Options
      <3>3. QED
        BY <2>2, <3>1, <3>2 DEF IInv, HandleOK
    <2>3. QED
      BY <2>1, <2>2, SetOptionKeeps
  <1>2. CASE SetPayload
    <2> DEFINE configured ==
          IF call.method = "GET" THEN [handle EXCEPT !.headers = NoHeaders]
          ELSE [handle EXCEPT !.method = "POST", !.postFields = call.data]
    <2>1. SetOption("setPayload", "setUrl", configured)
      BY <1>2 DEF SetPayload
    <2>2. ASSUME pc' = "setUrl", handle' = configured
          PROVE  HandleOK'
      <3>1. call' = call /\ pc = "setPayload"
        BY <2>1, <2>2 DEF SetOption, Throw, Leave
      <3>2. handle.method = call.method
        BY <3>1 DEF IInv, HandleOK
      <3>3. call.method \in {"GET", "POST"}
        BY DEF Operation, Methods
      <3>4. handle'.method = call.method
        BY <2>2, <3>2, <3>3 DEF Options
      <3>5. call.method = "POST" => handle'.postFields = call.data
        BY <2>2 DEF Options
      <3>6. QED
        BY <2>2, <3>1, <3>4, <3>5 DEF IInv, HandleOK
    <2>3. QED
      BY <2>1, <2>2, SetOptionKeeps
  <1>3. CASE SetUrl
    <2> DEFINE configured == [handle EXCEPT !.url = call.url]
    <2>1. SetOption("setUrl", "incrementCv", configured)
      BY <1>3 DEF SetUrl
    <2>2. ASSUME pc' = "incrementCv", handle' = configured
          PROVE  HandleOK'
      <3>1. call' = call /\ pc = "setUrl"
        BY <2>1, <2>2 DEF SetOption, Throw, Leave
      <3>2. /\ handle'.url = call.url /\ handle'.method = handle.method
            /\ handle'.postFields = handle.postFields
        BY <2>2 DEF Options
      <3>3. QED
        BY <2>2, <3>1, <3>2 DEF IInv, HandleOK
    <2>3. QED
      BY <2>1, <2>2, SetOptionKeeps
  <1>4. CASE IncrementCv
    <2>1. /\ pc = "incrementCv" /\ pc' = "setHeaders" /\ cv' = IncrementAndGet
          /\ UNCHANGED <<maxRetries, call, handle, attempt, readBuffer, reply,
                         delay, result, wire, received>>
      BY <1>4 DEF IncrementCv
    <2>2. ProgressOK'
      BY <2>1 DEF IInv, ProgressOK
    <2>3. HandleOK'
      BY <2>1 DEF IInv, HandleOK
    <2>4. BufferOK'
      BY <2>1 DEF IInv, BufferOK, BodyIsTheAnswer
    <2>5. CvOK'
      <3> cv \in [value : 0 .. CvLimit, isFirstUse : BOOLEAN] /\ wire \in Requests
        BY DEF IInv, TypeOK
      <3>1. cv.value \in 0 .. CvLimit /\ wire.cv \in 0 .. CvLimit
        BY DEF Requests
      <3>2. CASE cv.isFirstUse
        <4>1. cv'.value = cv.value /\ cv'.isFirstUse = FALSE
          BY <2>1, <3>2 DEF IncrementAndGet
        <4>2. QED
          BY <2>1, <3>2, <4>1 DEF IInv, CvOK
      <3>3. CASE ~cv.isFirstUse
        <4>1. /\ cv'.value = IF cv.value < CvLimit THEN cv.value + 1 ELSE cv.value
              /\ cv'.isFirstUse = FALSE
          BY <2>1, <3>3 DEF IncrementAndGet
        <4>2. wire.cv <= cv.value
          BY DEF IInv, CvOK
        <4>3. /\ wire.cv <= cv'.value
              /\ wire.cv < cv'.value \/ cv'.value = CvLimit
          BY <3>1, <4>1, <4>2, ConfigAssumption
        <4>4. QED
          BY <2>1, <4>1, <4>3 DEF CvOK
      <3>4. QED
        BY <3>2, <3>3
    <2>6. QED
      BY <2>2, <2>3, <2>4, <2>5
  <1>5. CASE SetHeaders
    <2> DEFINE configured == [handle EXCEPT !.headers = HeaderList]
    <2>1. SetOption("setHeaders", "setErrorBuffer", configured)
      BY <1>5 DEF SetHeaders
    <2>2. ASSUME pc' = "setErrorBuffer", handle' = configured
          PROVE  HandleOK'
      <3>1. call' = call /\ pc = "setHeaders" /\ cv' = cv
        BY <2>1, <2>2 DEF SetOption, Throw, Leave
      <3>2. /\ handle'.url = handle.url /\ handle'.method = handle.method
            /\ handle'.postFields = handle.postFields /\ handle'.headers = HeaderList
        BY <2>2 DEF Options
      <3>3. HeaderList' = HeaderList
        BY <3>1 DEF HeaderList
      <3>4. QED
        BY <2>2, <3>1, <3>2, <3>3 DEF IInv, HandleOK
    <2>3. QED
      BY <2>1, <2>2, SetOptionKeeps
  <1>6. CASE SetErrorBuffer
    <2> DEFINE configured == [handle EXCEPT !.errorBuffer = call.id]
    <2>1. SetOption("setErrorBuffer", "setWriteData", configured)
      BY <1>6 DEF SetErrorBuffer
    <2>2. ASSUME pc' = "setWriteData", handle' = configured
          PROVE  HandleOK'
      <3>1. call' = call /\ pc = "setErrorBuffer" /\ cv' = cv
        BY <2>1, <2>2 DEF SetOption, Throw, Leave
      <3>2. /\ handle'.url = handle.url /\ handle'.method = handle.method
            /\ handle'.postFields = handle.postFields
            /\ handle'.headers = handle.headers /\ handle'.errorBuffer = call.id
        BY <2>2 DEF Options
      <3>3. HeaderList' = HeaderList
        BY <3>1 DEF HeaderList
      <3>4. QED
        BY <2>2, <3>1, <3>2, <3>3 DEF IInv, HandleOK
    <2>3. QED
      BY <2>1, <2>2, SetOptionKeeps
  <1>7. CASE SetWriteData
    <2> DEFINE configured == [handle EXCEPT !.writeData = call.id]
    <2>1. SetOption("setWriteData", "loop", configured)
      BY <1>7 DEF SetWriteData
    <2>2. ASSUME pc' = "loop", handle' = configured
          PROVE  HandleOK'
      <3>1. call' = call /\ pc = "setWriteData" /\ cv' = cv /\ attempt' = attempt
        BY <2>1, <2>2 DEF SetOption, Throw, Leave
      <3>2. /\ handle'.url = handle.url /\ handle'.method = handle.method
            /\ handle'.postFields = handle.postFields
            /\ handle'.headers = handle.headers
            /\ handle'.errorBuffer = handle.errorBuffer /\ handle'.writeData = call.id
        BY <2>2 DEF Options
      <3>3. HeaderList' = HeaderList /\ attempt' = 0
        BY <3>1 DEF HeaderList, IInv, ProgressOK
      <3>4. ~(attempt' > 0)
        BY <3>3
      <3>5. QED
        BY <2>2, <3>1, <3>2, <3>3, <3>4 DEF IInv, HandleOK
    <2>3. QED
      BY <2>1, <2>2, SetOptionKeeps
  <1>8. QED
    BY <1>1, <1>2, <1>3, <1>4, <1>5, <1>6, <1>7 DEF SetUp

(* Starting an attempt, and each event of its transfer, keep the invariant.    *)
LEMMA TransferKeeps ==
  ASSUME IInv, StartAttempt \/ AbandonAttempt \/ Transfer
  PROVE  ProgressOK' /\ HandleOK' /\ BufferOK' /\ CvOK'
  <1> USE DEF MethodSet, PayloadSet, UrlSet, CvTaken, HeadersSet, ErrorBufferSet,
              InLoop, Outside
  <1> attempt \in Nat
    BY AttemptsAreBounded DEF IInv
  <1>1. CASE StartAttempt
    <2>1. /\ pc = "loop" /\ pc' = "transfer" /\ attempt' = attempt + 1
          /\ readBuffer' = EmptyBuffer /\ reply' = NoReply
          /\ wire' = Request /\ received' = 0
          /\ UNCHANGED <<maxRetries, cv, call, handle, delay, result>>
      BY <1>1 DEF StartAttempt
    <2>2. attempt' > 0 /\ attempt' # 0
      BY <2>1
    <2>3. ProgressOK'
      BY <2>1, <2>2 DEF IInv, ProgressOK
    <2>4. HandleOK'
      <3>1. Request' = Request /\ HeaderList' = HeaderList
        BY <2>1 DEF Request, HeaderList
      <3>2. QED
        BY <2>1, <3>1 DEF IInv, HandleOK
    <2>5. BufferOK'
      <3>1. result'.code # "Success"
        BY <2>1 DEF IInv, ProgressOK, Abstract!Pending
      <3>2. readBuffer'.len = received' /\ readBuffer'.from = {}
        BY <2>1 DEF EmptyBuffer
      <3>3. QED
        BY <3>1, <3>2 DEF BufferOK, BodyIsTheAnswer
    <2>6. CvOK'
      <3>1. wire'.cv = cv.value
        <4>1. handle.headers = HeaderList
          BY <2>1 DEF IInv, HandleOK
        <4>2. QED
          BY <2>1, <4>1, Fields
      <3>2. cv.value \in 0 .. CvLimit
        BY DEF IInv, TypeOK
      <3>3. ~cv'.isFirstUse
        BY <2>1, Zenon DEF IInv, CvOK
      <3>4. QED
        BY <2>1, <2>2, <3>1, <3>2, <3>3 DEF CvOK
    <2>7. QED
      BY <2>3, <2>4, <2>5, <2>6
  <1>2. CASE AbandonAttempt
    BY <1>2, LeaveKeeps DEF AbandonAttempt
  <1>3. CASE TransferFails
    BY <1>3, ThrowKeeps DEF TransferFails, CurlCodeToResult, Thrown
  <1>4. CASE TransferCompletes
    <2>1. /\ pc = "transfer" /\ pc' = "answered" /\ reply' \in Reply
          /\ UNCHANGED <<maxRetries, cv, call, handle, attempt, readBuffer, delay,
                         result, wire, received>>
      BY <1>4 DEF TransferCompletes
    <2>2. attempt > 0 /\ attempt # 0
      BY <2>1 DEF IInv, ProgressOK
    <2>3. ProgressOK'
      BY <2>1, <2>2 DEF IInv, ProgressOK
    <2>4. HandleOK'
      BY <2>1 DEF IInv, HandleOK, Request, HeaderList
    <2>5. BufferOK'
      <3>1. result'.code # "Success"
        BY <2>1 DEF IInv, ProgressOK, Abstract!Pending
      <3>2. QED
        BY <2>1, <3>1 DEF IInv, BufferOK, BodyIsTheAnswer
    <2>6. CvOK'
      BY <2>1 DEF IInv, CvOK
    <2>7. QED
      BY <2>3, <2>4, <2>5, <2>6
  <1>5. CASE ReceiveChunk
    <2>1. PICK size \in ChunkSizes : AcceptChunk(size) \/ RefuseChunk(size)
      BY <1>5 DEF ReceiveChunk
    <2>2. CASE RefuseChunk(size)
      BY <2>2, ThrowKeeps DEF RefuseChunk, Thrown
    <2>3. CASE AcceptChunk(size)
      <3>1. /\ readBuffer' = [len |-> readBuffer.len + size,
                              from |-> readBuffer.from \cup {attempt}]
            /\ received' = received + size
            /\ UNCHANGED <<pc, maxRetries, cv, call, handle, attempt, reply, delay,
                           result, wire>>
            /\ pc = "transfer"
        BY <1>5, <2>3 DEF AcceptChunk, ReceiveChunk
      <3>2. ProgressOK'
        BY <3>1 DEF IInv, ProgressOK, TotalAttempts
      <3>3. HandleOK'
        BY <3>1 DEF IInv, HandleOK, Request, HeaderList
      <3>4. BufferOK'
        <4>1. result'.code # "Success"
          BY <3>1 DEF IInv, ProgressOK, Abstract!Pending
        <4>2. readBuffer.len = received /\ readBuffer.from \subseteq {attempt}
          BY <3>1 DEF IInv, BufferOK
        <4>3. readBuffer'.len = received' /\ readBuffer'.from \subseteq {attempt'}
          BY <3>1, <4>2
        <4>4. QED
          BY <4>1, <4>3 DEF BufferOK, BodyIsTheAnswer
      <3>5. CvOK'
        BY <3>1 DEF IInv, CvOK
      <3>6. QED
        BY <3>2, <3>3, <3>4, <3>5
    <2>4. QED
      BY <2>1, <2>2, <2>3
  <1>6. QED
    BY <1>1, <1>2, <1>3, <1>4, <1>5 DEF Transfer

(* Each decision on an answer keeps the invariant.                             *)
LEMMA DecideKeeps ==
  ASSUME IInv, Decide
  PROVE  ProgressOK' /\ HandleOK' /\ BufferOK' /\ CvOK'
  <1>1. "Success" \notin Thrown("ConnectionUnexpectedError")
    BY DEF Thrown
  <1>2. CASE GetInfoFails
    BY <1>1, <1>2, ThrowKeeps DEF GetInfoFails
  <1>3. CASE Succeed
    <2>1. LoopIsOver /\ Leave("Success", readBuffer)
      BY <1>3 DEF Succeed
    <2>2. ~(pc = "loop" /\ attempt = TotalAttempts)
      <3>1. pc = "loop" => attempt < TotalAttempts
        BY DEF IInv, ProgressOK
      <3>2. attempt \in Nat /\ TotalAttempts \in Nat
        BY AttemptsAreBounded DEF IInv
      <3>3. QED
        BY <3>1, <3>2
    <2>3. pc = "answered" /\ reply.status = 200
      BY <2>1, <2>2 DEF LoopIsOver, Abstract!IsSuccessfulSFSHttpCode
    <2>4. readBuffer.len = received /\ readBuffer.from \subseteq {attempt}
      BY <2>3 DEF IInv, BufferOK
    <2>5. QED
      BY <2>1, <2>3, <2>4, LeaveKeeps
  <1>4. CASE Reject
    <2>1. "Success" \notin Thrown(Abstract!HttpCodeToResult(reply.status))
      BY <1>4, StatusIsANumber, RejectedCodes DEF Reject, IInv
    <2>2. QED
      BY <1>4, <2>1, ThrowKeeps DEF Reject
  <1>5. CASE ProcessRetry
    <2> USE DEF MethodSet, PayloadSet, UrlSet, CvTaken, HeadersSet, ErrorBufferSet,
                InLoop, Outside
    <2>1. /\ pc = "answered" /\ pc' = "sleep" /\ CanRetry
          /\ UNCHANGED <<maxRetries, cv, call, handle, attempt, readBuffer, reply,
                         result, wire, received>>
      BY <1>5 DEF ProcessRetry
    <2>2. Abstract!IsRetriableHttpError(reply.status) /\ attempt # TotalAttempts
      BY <2>1 DEF CanRetry, CanRetryRequest
    <2>3. attempt < TotalAttempts
      BY <2>2, AttemptsAreBounded DEF IInv
    <2>4. ProgressOK'
      <3>1. attempt' < TotalAttempts' /\ Abstract!IsRetriableHttpError(reply'.status)
        BY <2>1, <2>2, <2>3 DEF TotalAttempts
      <3>2. QED
        BY <2>1, <3>1 DEF IInv, ProgressOK
    <2>5. HandleOK'
      BY <2>1 DEF IInv, HandleOK, Request, HeaderList
    <2>6. BufferOK'
      BY <2>1 DEF IInv, BufferOK, BodyIsTheAnswer
    <2>7. CvOK'
      BY <2>1 DEF IInv, CvOK
    <2>8. QED
      BY <2>4, <2>5, <2>6, <2>7
  <1>6. CASE RefuseRetryAfter
    BY <1>1, <1>6, ThrowKeeps DEF RefuseRetryAfter
  <1>7. CASE RetryFails
    BY <1>1, <1>7, ThrowKeeps DEF RetryFails
  <1>8. QED
    BY <1>2, <1>3, <1>4, <1>5, <1>6, <1>7 DEF Decide

(* The invariant holds initially.                                              *)
LEMMA InitKeeps == Init => IInv
  <1> SUFFICES ASSUME Init PROVE IInv
    OBVIOUS
  <1> USE DEF MethodSet, PayloadSet, UrlSet, CvTaken, HeadersSet, ErrorBufferSet,
              InLoop, Outside
  <1>1. /\ pc = "idle" /\ attempt = 0 /\ reply = NoReply /\ wire = NoRequest
        /\ cv = [value |-> 0, isFirstUse |-> TRUE]
        /\ result = [code |-> Abstract!Pending, body |-> EmptyBuffer]
    BY DEF Init
  <1>2. ProgressOK
    BY <1>1 DEF ProgressOK
  <1>3. HandleOK
    BY <1>1 DEF HandleOK
  <1>4. BufferOK
    BY <1>1 DEF BufferOK, BodyIsTheAnswer, Abstract!Pending
  <1>5. CvOK
    <2>1. cv.value = 0 /\ wire.cv = 0
      BY <1>1, Fields
    <2>2. QED
      BY <1>1, <2>1 DEF CvOK
  <1>6. QED
    BY <1>2, <1>3, <1>4, <1>5, InitTypes DEF IInv

(* Every step keeps the invariant.                                             *)
LEMMA NextKeeps ==
  ASSUME IInv, [Next]_vars
  PROVE  IInv'
  <1> USE DEF MethodSet, PayloadSet, UrlSet, CvTaken, HeadersSet, ErrorBufferSet,
              InLoop, Outside
  <1>1. CASE RefuseEmptyUrl
    <2>1. /\ pc = "idle" /\ pc' = pc /\ attempt' = 0 /\ reply' = NoReply
          /\ UNCHANGED <<maxRetries, cv, call, handle, readBuffer, delay, wire, received>>
      BY <1>1 DEF RefuseEmptyUrl
    <2>2. result'.code # "Success"
      BY <1>1 DEF RefuseEmptyUrl, Thrown
    <2>3. ProgressOK'
      BY <2>1 DEF IInv, ProgressOK
    <2>4. HandleOK'
      BY <2>1 DEF IInv, HandleOK
    <2>5. BufferOK'
      BY <2>1, <2>2 DEF BufferOK, BodyIsTheAnswer
    <2>6. CvOK'
      BY <2>1 DEF IInv, CvOK
    <2>7. QED
      BY <2>3, <2>4, <2>5, <2>6, NextTypes DEF IInv
  <1>2. ASSUME NEW method \in Methods, NEW url \in Urls, NEW data \in Bodies,
               Begin(method, url, data)
        PROVE  IInv'
    <2>1. /\ pc = "idle" /\ pc' = "setMethod" /\ attempt' = 0 /\ reply' = NoReply
          /\ call' = [id |-> call.id + 1, method |-> method, url |-> url, data |-> data]
          /\ method = "GET" => data = NoData
          /\ result' = [code |-> Abstract!Pending, body |-> EmptyBuffer]
          /\ UNCHANGED <<maxRetries, cv, handle, readBuffer, delay, wire, received>>
      BY <1>2 DEF Begin
    <2>2. ProgressOK'
      BY <2>1 DEF IInv, ProgressOK
    <2>3. HandleOK'
      BY <2>1 DEF IInv, HandleOK
    <2>4. BufferOK'
      BY <2>1 DEF BufferOK, BodyIsTheAnswer, Abstract!Pending
    <2>5. CvOK'
      BY <2>1 DEF IInv, CvOK
    <2>6. [Next]_vars
      OBVIOUS
    <2>7. QED
      BY <2>2, <2>3, <2>4, <2>5, <2>6, NextTypes DEF IInv
  <1>3. CASE SetUp
    BY <1>3, SetUpKeeps, NextTypes DEF IInv
  <1>4. CASE StartAttempt \/ AbandonAttempt \/ Transfer
    BY <1>4, TransferKeeps, NextTypes DEF IInv
  <1>5. CASE Decide
    BY <1>5, DecideKeeps, NextTypes DEF IInv
  <1>6. CASE Wake
    <2>1. /\ pc = "sleep" /\ pc' = "loop"
          /\ UNCHANGED <<maxRetries, cv, call, handle, attempt, readBuffer, reply,
                         result, wire, received>>
      BY <1>6 DEF Wake
    <2>2. ProgressOK'
      BY <2>1 DEF IInv, ProgressOK, TotalAttempts
    <2>3. HandleOK'
      BY <2>1 DEF IInv, HandleOK, Request, HeaderList
    <2>4. BufferOK'
      BY <2>1 DEF IInv, BufferOK, BodyIsTheAnswer
    <2>5. CvOK'
      BY <2>1 DEF IInv, CvOK
    <2>6. QED
      BY <2>2, <2>3, <2>4, <2>5, NextTypes DEF IInv
  <1>7. CASE Close
    <2>1. /\ pc = "idle" /\ pc' = "closed"
          /\ UNCHANGED <<maxRetries, cv, call, handle, attempt, readBuffer, reply,
                         result, wire, received>>
      BY <1>7 DEF Close
    <2>2. ProgressOK' /\ HandleOK' /\ BufferOK' /\ CvOK'
      BY <2>1 DEF IInv, ProgressOK, HandleOK, BufferOK, BodyIsTheAnswer, CvOK, TotalAttempts
    <2>3. QED
      BY <2>2, NextTypes DEF IInv
  <1>8. CASE UNCHANGED vars
    <2>1. ProgressOK'
      BY <1>8 DEF vars, IInv, ProgressOK, TotalAttempts
    <2>2. HandleOK'
      BY <1>8 DEF vars, IInv, HandleOK, Request, HeaderList
    <2>3. BufferOK'
      BY <1>8 DEF vars, IInv, BufferOK, BodyIsTheAnswer
    <2>4. CvOK'
      BY <1>8 DEF vars, IInv, CvOK
    <2>5. QED
      BY <2>1, <2>2, <2>3, <2>4, NextTypes DEF IInv
  <1>9. QED
    BY <1>1, <1>2, <1>3, <1>4, <1>5, <1>6, <1>7, <1>8 DEF Next, Operate, Closed

-----------------------------------------------------------------------------
(* The theorems. *)

(* The strengthening of every property below: how far the operation has got    *)
(* determines what is known of the handle, the answer, the body and the vector.*)
THEOREM InductiveInvariant == Spec => []IInv
  <1>1. Init => IInv
    BY InitKeeps
  <1>2. IInv /\ [Next]_vars => IInv'
    BY NextKeeps
  <1>3. QED
    BY <1>1, <1>2, PTL DEF Spec

(* The variables of a connection keep their types.                             *)
THEOREM TypeCorrect == Spec => []TypeOK
  <1>1. IInv => TypeOK
    BY DEF IInv
  <1>2. QED
    BY <1>1, InductiveInvariant, PTL

(* libcurl never follows a pointer to a local of an operation that is over.    *)
THEOREM PointersAreLive == Spec => []OnlyLivePointers
  <1>1. IInv => OnlyLivePointers
    <2> SUFFICES ASSUME IInv, pc = "transfer"
                 PROVE  /\ handle.headers.owner = call.id
                        /\ handle.writeData = call.id
                        /\ handle.errorBuffer = call.id
      BY DEF OnlyLivePointers
    <2>1. handle.headers = HeaderList /\ handle.writeData = call.id
          /\ handle.errorBuffer = call.id
      BY DEF IInv, HandleOK, InLoop, ErrorBufferSet, HeadersSet
    <2>2. QED
      BY <2>1, Fields
  <1>2. QED
    BY <1>1, InductiveInvariant, PTL

(* The service sees the method, URL, body and Content-Type of the operation.   *)
THEOREM RequestsAreTheCalls == Spec => []RequestIsTheCall
  <1>1. IInv => RequestIsTheCall
    <2> SUFFICES ASSUME IInv, pc = "transfer"
                 PROVE  /\ wire.method = call.method
                        /\ wire.url = call.url
                        /\ wire.data = call.data
                        /\ wire.type <=> call.method = "POST"
      BY DEF RequestIsTheCall
    <2> USE DEF MethodSet, PayloadSet, UrlSet, CvTaken, HeadersSet, ErrorBufferSet,
                InLoop, Outside
    <2>1. wire = Request
      <3>1. attempt > 0
        BY DEF IInv, ProgressOK
      <3>2. QED
        BY <3>1 DEF IInv, HandleOK
    <2>2. /\ handle.method = call.method /\ handle.url = call.url
          /\ call.method = "POST" => handle.postFields = call.data
          /\ call.method = "GET" => call.data = NoData
          /\ handle.headers = HeaderList
      BY DEF IInv, HandleOK
    <2>3. call.method \in {"GET", "POST"}
      BY DEF IInv, TypeOK, Operation, Methods
    <2>4. wire.type = (call.method = "POST")
      BY <2>1, <2>2, Fields
    <2>5. wire.data = call.data
      BY <2>1, <2>2, <2>3, Fields
    <2>6. wire.method = call.method /\ wire.url = call.url
      BY <2>1, <2>2, Fields
    <2>7. QED
      BY <2>4, <2>5, <2>6
  <1>2. QED
    BY <1>1, InductiveInvariant, PTL

(* A body returned is all of the 200 answer, and nothing of the answers before.*)
THEOREM BodiesAreAnswers == Spec => []BodyIsTheAnswer
  <1>1. IInv => BodyIsTheAnswer
    BY DEF IInv, BufferOK
  <1>2. QED
    BY <1>1, InductiveInvariant, PTL

(* The wait before a retry is the one its own answer asks for.                 *)
THEOREM WaitsAreForTheirAnswers == Spec => []WaitIsForThisAnswer
  <1>1. Init => WaitIsForThisAnswer
    BY DEF Init, WaitIsForThisAnswer
  <1>2. IInv /\ WaitIsForThisAnswer /\ [Next]_vars => WaitIsForThisAnswer'
    <2> SUFFICES ASSUME IInv, WaitIsForThisAnswer, [Next]_vars, pc' = "sleep"
                 PROVE  WaitIsForThisAnswer'
      BY DEF WaitIsForThisAnswer
    <2>1. CASE ProcessRetry
      <3>1. /\ attempt' = attempt /\ maxRetries' = maxRetries /\ reply' = reply
            /\ delay' \in RetryDelays /\ CanParseRetryAfter
        BY <2>1 DEF ProcessRetry
      <3>2. attempt <= maxRetries
        <4>1. pc = "answered" /\ CanRetry
          BY <2>1 DEF ProcessRetry
        <4>2. attempt # TotalAttempts
          BY <4>1, Zenon DEF CanRetry, CanRetryRequest
        <4>3. QED
          BY <4>2, AttemptsAreBounded DEF IInv, TotalAttempts
      <3>3. CASE reply.retryAfter.present
        <4>1. reply.retryAfter.seconds > 0
          BY <3>1, <3>3 DEF CanParseRetryAfter
        <4>2. reply.retryAfter.seconds \in Int
          <5>1. reply.retryAfter # NoRetryAfter
            BY <3>3 DEF NoRetryAfter
          <5>2. reply.retryAfter \in [present : {TRUE}, seconds : RetryAfters]
            BY <5>1, StatusIsANumber DEF IInv, RetryAfter
          <5>3. QED
            BY <5>2, DataAssumption
        <4>3. delay' = 1000 * reply.retryAfter.seconds
          BY <3>1, <3>3 DEF RetryDelays
        <4>4. delay' > 0
          BY <4>1, <4>2, <4>3
        <4>5. QED
          BY <3>1, <3>2, <3>3, <4>3, <4>4 DEF WaitIsForThisAnswer
      <3>4. CASE ~reply.retryAfter.present
        <4>1. \E base \in BaseDelays : delay' = base * 2^(attempt - 1)
          BY <3>1, <3>4 DEF RetryDelays, BackOff
        <4>2. QED
          BY <3>1, <3>2, <3>4, <4>1 DEF WaitIsForThisAnswer
      <3>5. QED
        BY <3>3, <3>4
    <2>2. CASE UNCHANGED vars
      BY <2>2 DEF vars, WaitIsForThisAnswer
    <2>3. ProcessRetry \/ UNCHANGED vars
      BY DEF Next, Operate, SetUp, SetMethod, SetPayload, SetUrl, IncrementCv, SetHeaders,
             SetErrorBuffer, SetWriteData, SetOption, StartAttempt, AbandonAttempt,
             Transfer, ReceiveChunk, AcceptChunk, RefuseChunk, TransferFails,
             TransferCompletes, Decide, GetInfoFails, Succeed, Reject, RefuseRetryAfter,
             RetryFails, Wake, RefuseEmptyUrl, Begin, Close, Closed, Throw, Leave
    <2>4. QED
      BY <2>1, <2>2, <2>3
  <1>3. QED
    BY <1>1, <1>2, InductiveInvariant, PTL DEF Spec

\* Where the number of attempts grows, a request is sent.
LEMMA OnlyStartAttemptSends ==
  ASSUME IInv, [Next]_vars, ~StartAttempt
  PROVE  attempt' = attempt \/ attempt' = 0
  BY DEF Next, vars, Operate, SetUp, SetMethod, SetPayload, SetUrl, IncrementCv, SetHeaders,
         SetErrorBuffer, SetWriteData, SetOption, AbandonAttempt,
         Transfer, ReceiveChunk, AcceptChunk, RefuseChunk, TransferFails,
         TransferCompletes, Decide, GetInfoFails, Succeed, Reject, ProcessRetry,
         RefuseRetryAfter, RetryFails, Wake, RefuseEmptyUrl, Begin, Close, Closed,
         Throw, Leave

(* A retry sends the same request with the same correlation vector, and the    *)
(* first request of an operation has a vector of its own.                      *)
THEOREM RetriesRepeat == Spec => RetriesRepeatTheRequest
  <1> DEFINE A == attempt' > attempt =>
                    IF attempt = 0
                    THEN wire'.cv > wire.cv \/ wire'.cv = CvLimit \/ wire = NoRequest
                    ELSE wire' = wire
  <1>1. IInv /\ [Next]_vars => A
    <2> SUFFICES ASSUME IInv, [Next]_vars, attempt' > attempt PROVE A
      OBVIOUS
    <2> USE DEF CvTaken, HeadersSet, ErrorBufferSet, InLoop, Outside
    <2>1. attempt \in Nat
      BY AttemptsAreBounded DEF IInv
    <2>2. StartAttempt
      BY <2>1, OnlyStartAttemptSends
    <2>3. pc = "loop" /\ wire' = Request
      BY <2>2 DEF StartAttempt
    <2>4. CASE attempt = 0
      <3>1. wire'.cv = cv.value
        <4>1. handle.headers = HeaderList
          BY <2>3 DEF IInv, HandleOK
        <4>2. QED
          BY <2>3, <4>1, Fields
      <3>2. wire = NoRequest \/ wire.cv < cv.value \/ cv.value = CvLimit
        BY <2>3, <2>4 DEF IInv, CvOK
      <3>3. cv.value \in Int /\ wire.cv \in Int
        <4>1. cv.value \in 0 .. CvLimit
          BY DEF IInv, TypeOK
        <4>2. wire \in Requests
          BY DEF IInv, TypeOK
        <4>3. wire.cv \in 0 .. CvLimit
          BY <4>2, Zenon DEF Requests
        <4>4. QED
          BY <4>1, <4>3, ConfigAssumption
      <3>4. QED
        BY <2>4, <3>1, <3>2, <3>3
    <2>5. CASE attempt # 0
      <3>1. attempt > 0
        BY <2>1, <2>5
      <3>2. wire = Request
        BY <2>3, <3>1 DEF IInv, HandleOK
      <3>3. QED
        BY <2>3, <2>5, <3>2
    <2>6. QED
      BY <2>4, <2>5
  <1>2. QED
    BY <1>1, InductiveInvariant, PTL DEF Spec, RetriesRepeatTheRequest

-----------------------------------------------------------------------------
(* The connection implements HttpRequest. *)

\* What the abstract connection is, seen from here.
Mapped == [code |-> result.code, body |-> result.body.from]

(* Leaving an operation is HttpRequest's Succeed, Reject or Fail.              *)
LEMMA LeavingIsAbstract ==
  ASSUME IInv, pc \notin Outside,
         NEW code, NEW body, Leave(code, body),
         \/ /\ code = "Success" /\ reply.status = 200
            /\ body.from \in {{}, {attempt}}
         \/ /\ code = Abstract!HttpCodeToResult(reply.status) /\ body.from = {}
            /\ reply.status # 0 /\ reply.status # 200
            /\ Abstract!IsRetriableHttpError(reply.status) => attempt = 1 + maxRetries
         \/ code \in Abstract!FailureCodes /\ body.from = {}
  PROVE  Abstract!Next
  <1>1. /\ pc' = "idle" /\ result' = [code |-> code, body |-> body]
        /\ UNCHANGED <<maxRetries, cv, call, attempt, reply, wire, received>>
    BY DEF Leave
  <1>2. /\ pc # "idle" /\ pc # "closed"
        /\ ~(pc' # "idle" /\ pc' # "closed")
    BY <1>1 DEF Outside
  <1>3. Mapped' = [code |-> code, body |-> body.from]
    BY <1>1 DEF Mapped
  <1>4. UNCHANGED <<maxRetries, attempt, reply.status>>
    BY <1>1
  <1>5. CASE /\ code = "Success" /\ reply.status = 200
             /\ body.from \in {{}, {attempt}}
    <2>1. Abstract!Succeed
      BY <1>2, <1>3, <1>4, <1>5
         DEF Abstract!Succeed, Abstract!IsSuccessfulSFSHttpCode, Abstract!Outcome, Mapped
    <2>2. QED
      BY <2>1 DEF Abstract!Next
  <1>6. CASE /\ code = Abstract!HttpCodeToResult(reply.status) /\ body.from = {}
             /\ reply.status # 0 /\ reply.status # 200
             /\ Abstract!IsRetriableHttpError(reply.status) => attempt = 1 + maxRetries
    <2>1. Abstract!Reject
      BY <1>2, <1>3, <1>4, <1>6
         DEF Abstract!Reject, Abstract!IsSuccessfulSFSHttpCode, Abstract!Outcome,
             Abstract!Unanswered, Mapped
    <2>2. QED
      BY <2>1 DEF Abstract!Next
  <1>7. CASE code \in Abstract!FailureCodes /\ body.from = {}
    <2>1. Abstract!Fail
      BY <1>2, <1>3, <1>4, <1>7
         DEF Abstract!Fail, Abstract!Outcome, Mapped
    <2>2. QED
      BY <2>1 DEF Abstract!Next
  <1>8. QED
    BY <1>5, <1>6, <1>7

\* Throwing a failure that is no answer of the service.
LEMMA FailingIsAbstract ==
  ASSUME IInv, pc \notin Outside,
         NEW codes \in SUBSET Abstract!FailureCodes, Throw(codes)
  PROVE  Abstract!Next
  <1>1. PICK code \in codes : Leave(code, EmptyBuffer)
    BY DEF Throw
  <1>2. code \in Abstract!FailureCodes /\ EmptyBuffer.from = {}
    BY DEF EmptyBuffer
  <1>3. QED
    BY <1>1, <1>2, LeavingIsAbstract

(* Setting an option is a stutter of HttpRequest, or its Fail.                 *)
LEMMA SetUpIsAbstract ==
  ASSUME IInv, SetUp
  PROVE  [Abstract!Next]_(Abstract!vars)
  <1>1. CASE Throw(Thrown("ConnectionSetupFailed"))
    <2>1. attempt = 0 /\ pc \notin Outside
      BY DEF IInv, ProgressOK, SetUp, SetMethod, SetPayload, SetUrl, IncrementCv,
             SetHeaders, SetErrorBuffer, SetWriteData, SetOption, Outside, InLoop
    <2>2. Thrown("ConnectionSetupFailed") \in SUBSET Abstract!FailureCodes
      BY <2>1 DEF Thrown, Abstract!FailureCodes
    <2>3. QED
      BY <1>1, <2>1, <2>2, FailingIsAbstract
  <1>2. CASE /\ pc \notin Outside /\ pc' \notin Outside
             /\ UNCHANGED <<maxRetries, attempt, reply, result>>
    BY <1>2 DEF Abstract!vars, Outside
  <1>3. QED
    BY <1>1, <1>2 DEF SetUp, SetMethod, SetPayload, SetUrl, IncrementCv,
             SetHeaders, SetErrorBuffer, SetWriteData, SetOption, Outside

(* A transfer's steps are HttpRequest's Attempt, Answer, Fail, or stutters.    *)
LEMMA TransferIsAbstract ==
  ASSUME IInv, StartAttempt \/ AbandonAttempt \/ Transfer
  PROVE  [Abstract!Next]_(Abstract!vars)
  <1>1. pc \notin Outside
    BY DEF StartAttempt, AbandonAttempt, Transfer, ReceiveChunk, TransferFails,
           TransferCompletes, Outside
  <1>2. CASE StartAttempt
    <2>1. /\ pc = "loop" /\ pc' = "transfer" /\ attempt' = attempt + 1
          /\ attempt < TotalAttempts
          /\ reply' = NoReply /\ UNCHANGED <<maxRetries, result>>
      BY <1>2 DEF StartAttempt
    <2>2. attempt = 0 \/ Abstract!IsRetriableHttpError(reply.status)
      <3>1. attempt \in Nat
        BY AttemptsAreBounded DEF IInv
      <3>2. attempt > 0 => Abstract!IsRetriableHttpError(reply.status)
        BY <2>1 DEF IInv, ProgressOK
      <3>3. QED
        BY <3>1, <3>2
    <2>3. attempt <= maxRetries
      BY <2>1, AttemptsAreBounded DEF IInv, TotalAttempts
    <2>4. reply'.status = 0
      BY <2>1 DEF NoReply
    <2>5. Abstract!Attempt
      BY <2>1, <2>2, <2>3, <2>4 DEF Abstract!Attempt, Abstract!Unanswered
    <2>6. QED
      BY <2>5 DEF Abstract!Next
  <1>3. CASE AbandonAttempt
    <2>1. Leave("ForeignException", EmptyBuffer)
      BY <1>3 DEF AbandonAttempt
    <2>2. "ForeignException" \in Abstract!FailureCodes /\ EmptyBuffer.from = {}
      BY DEF Abstract!FailureCodes, EmptyBuffer
    <2>3. QED
      BY <1>1, <2>1, <2>2, LeavingIsAbstract
  <1>4. ASSUME pc = "transfer"
        PROVE  {"HttpTimeout", "ConnectionUnexpectedError", "ForeignException"}
                 \subseteq Abstract!FailureCodes
    <2>1. attempt > 0 /\ reply = NoReply
      BY <1>4 DEF IInv, ProgressOK
    <2>2. attempt # 0 /\ reply.status = 0
      BY <2>1 DEF NoReply
    <2>3. QED
      BY <2>2 DEF Abstract!FailureCodes, Abstract!Unanswered
  <1>5. CASE TransferFails
    <2>1. PICK curlCode : /\ pc = "transfer"
                          /\ Throw(Thrown(CurlCodeToResult(curlCode)))
      BY <1>5 DEF TransferFails
    <2>2. Thrown(CurlCodeToResult(curlCode)) \in SUBSET Abstract!FailureCodes
      BY <1>4, <2>1 DEF Thrown, CurlCodeToResult
    <2>3. QED
      BY <1>1, <2>1, <2>2, FailingIsAbstract
  <1>6. CASE TransferCompletes
    <2>1. /\ pc = "transfer" /\ pc' = "answered" /\ reply' \in Reply
          /\ UNCHANGED <<maxRetries, attempt, result>>
      BY <1>6 DEF TransferCompletes
    <2>2. attempt > 0 /\ reply.status = 0
      BY <2>1 DEF IInv, ProgressOK, NoReply
    <2>3. reply'.status \in Statuses
      BY <2>1 DEF Reply
    <2>4. Abstract!Answer
      BY <2>1, <2>2, <2>3 DEF Abstract!Answer, Abstract!Unanswered
    <2>5. QED
      BY <2>4 DEF Abstract!Next
  <1>7. CASE ReceiveChunk
    <2>1. PICK size \in ChunkSizes : AcceptChunk(size) \/ RefuseChunk(size)
      BY <1>7 DEF ReceiveChunk
    <2>2. CASE RefuseChunk(size)
      <3>1. Thrown("ConnectionUnexpectedError") \in SUBSET Abstract!FailureCodes
        BY <1>4, <1>7 DEF Thrown, ReceiveChunk
      <3>2. QED
        BY <1>1, <2>2, <3>1, FailingIsAbstract DEF RefuseChunk
    <2>3. CASE AcceptChunk(size)
      BY <2>3 DEF AcceptChunk, Abstract!vars
    <2>4. QED
      BY <2>1, <2>2, <2>3
  <1>8. QED
    BY <1>2, <1>3, <1>5, <1>6, <1>7 DEF Transfer

(* A decision is HttpRequest's Succeed, Reject or Fail, or a stutter.          *)
LEMMA DecideIsAbstract ==
  ASSUME IInv, Decide
  PROVE  [Abstract!Next]_(Abstract!vars)
  <1>1. attempt \in Nat /\ TotalAttempts = 1 + maxRetries
    BY AttemptsAreBounded DEF IInv, TotalAttempts
  <1>2. ASSUME pc = "answered"
        PROVE  Thrown("ConnectionUnexpectedError") \in SUBSET Abstract!FailureCodes
    <2>1. attempt > 0
      BY <1>2 DEF IInv, ProgressOK
    <2>2. attempt # 0
      BY <2>1
    <2>3. QED
      BY <2>2 DEF Thrown, Abstract!FailureCodes
  <1>3. ASSUME pc = "answered", Throw(Thrown("ConnectionUnexpectedError"))
        PROVE  Abstract!Next
    BY <1>2, <1>3, FailingIsAbstract DEF Outside
  <1>4. CASE GetInfoFails \/ RefuseRetryAfter \/ RetryFails
    BY <1>3, <1>4 DEF GetInfoFails, RefuseRetryAfter, RetryFails
  <1>5. CASE Succeed
    <2>1. LoopIsOver /\ Leave("Success", readBuffer)
      BY <1>5 DEF Succeed
    <2>2. ~(pc = "loop" /\ attempt = TotalAttempts)
      <3>1. pc = "loop" => attempt < TotalAttempts
        BY DEF IInv, ProgressOK
      <3>2. attempt \in Nat /\ TotalAttempts \in Nat
        BY AttemptsAreBounded DEF IInv
      <3>3. QED
        BY <3>1, <3>2
    <2>3. pc = "answered" /\ reply.status = 200
      BY <2>1, <2>2 DEF LoopIsOver, Abstract!IsSuccessfulSFSHttpCode
    <2>4. readBuffer.from \in {{}, {attempt}}
      BY <2>3 DEF IInv, BufferOK
    <2>5. QED
      BY <2>1, <2>3, <2>4, LeavingIsAbstract DEF Outside
  <1>6. CASE Reject
    <2>1. /\ pc = "answered" /\ ~Abstract!IsSuccessfulSFSHttpCode(reply.status)
          /\ ~CanRetry
          /\ Throw(Thrown(Abstract!HttpCodeToResult(reply.status)))
      BY <1>6 DEF Reject
    <2>2. PICK code \in Thrown(Abstract!HttpCodeToResult(reply.status)) :
            Leave(code, EmptyBuffer)
      BY <2>1 DEF Throw
    <2>3. EmptyBuffer.from = {}
      BY DEF EmptyBuffer
    <2>4. CASE code = "ForeignException"
      <3>1. "ForeignException" \in Abstract!FailureCodes
        BY DEF Abstract!FailureCodes
      <3>2. QED
        BY <2>1, <2>2, <2>3, <2>4, <3>1, LeavingIsAbstract DEF Outside
    <2>5. CASE code = Abstract!HttpCodeToResult(reply.status)
      <3>1. reply.status # 200
        BY <2>1 DEF Abstract!IsSuccessfulSFSHttpCode
      <3>2. reply.status # 0
        <4>1. reply \in Reply
          BY <2>1 DEF IInv, ProgressOK
        <4>2. reply.status \in Statuses
          BY <4>1 DEF Reply
        <4>3. QED
          BY <4>2, DataAssumption
      <3>3. Abstract!IsRetriableHttpError(reply.status) => attempt = 1 + maxRetries
        BY <1>1, <2>1, Zenon DEF CanRetry, CanRetryRequest
      <3>4. QED
        BY <2>1, <2>2, <2>3, <2>5, <3>1, <3>2, <3>3, LeavingIsAbstract DEF Outside
    <2>6. QED
      BY <2>2, <2>4, <2>5 DEF Thrown
  <1>7. CASE ProcessRetry
    BY <1>7 DEF ProcessRetry, Abstract!vars
  <1>8. QED
    BY <1>4, <1>5, <1>6, <1>7 DEF Decide

(* Every step of the connection is a step that HttpRequest allows, or one it   *)
(* does not see: bounded attempts, retries only after an answer worth one, and *)
(* a result that reports the last answer.                                      *)
THEOREM ImplementsSafely == Spec => Abstract!SafeSpec
  <1>1. Init => Abstract!Init
    <2> SUFFICES ASSUME Init PROVE Abstract!Init
      OBVIOUS
    <2>1. /\ pc = "idle" /\ maxRetries \in {0, c_maxRetries} /\ attempt = 0
          /\ reply = NoReply
          /\ result = [code |-> Abstract!Pending, body |-> EmptyBuffer]
      BY DEF Init
    <2>2. reply.status = 0
      BY <2>1 DEF NoReply
    <2>3. result.code = Abstract!Pending /\ result.body.from = {}
      BY <2>1 DEF EmptyBuffer
    <2>4. QED
      BY <2>1, <2>2, <2>3 DEF Abstract!Init, Abstract!Outcome, Abstract!Unanswered
  <1>2. IInv /\ [Next]_vars => [Abstract!Next]_(Abstract!vars)
    <2> SUFFICES ASSUME IInv, [Next]_vars
                 PROVE  [Abstract!Next]_(Abstract!vars)
      OBVIOUS
    <2>1. CASE RefuseEmptyUrl
      <3>1. PICK code \in Thrown("InvalidArg") :
              result' = [code |-> code, body |-> EmptyBuffer]
        BY <2>1 DEF RefuseEmptyUrl
      <3>2. /\ pc = "idle" /\ pc' = "idle" /\ attempt' = 0 /\ reply'.status = 0
            /\ maxRetries' = maxRetries
        BY <2>1 DEF RefuseEmptyUrl, NoReply
      <3>3. result'.code = code /\ result'.body.from = {}
        BY <3>1 DEF EmptyBuffer
      <3>4. Abstract!Refuse
        BY <3>2, <3>3 DEF Thrown, Abstract!Refuse, Abstract!Outcome, Abstract!Unanswered
      <3>5. QED
        BY <3>4 DEF Abstract!Next
    <2>2. ASSUME NEW method \in Methods, NEW url \in Urls, NEW data \in Bodies,
                 Begin(method, url, data)
          PROVE  [Abstract!Next]_(Abstract!vars)
      <3>1. /\ pc = "idle" /\ pc' = "setMethod" /\ attempt' = 0 /\ reply'.status = 0
            /\ maxRetries' = maxRetries
            /\ result'.code = Abstract!Pending /\ result'.body.from = {}
        BY <2>2 DEF Begin, NoReply, EmptyBuffer
      <3>2. Abstract!Begin
        BY <3>1 DEF Abstract!Begin, Abstract!Outcome, Abstract!Unanswered
      <3>3. QED
        BY <3>2 DEF Abstract!Next
    <2>3. CASE SetUp
      BY <2>3, SetUpIsAbstract
    <2>4. CASE StartAttempt \/ AbandonAttempt \/ Transfer
      BY <2>4, TransferIsAbstract
    <2>5. CASE Decide
      BY <2>5, DecideIsAbstract
    <2>6. CASE Wake
      BY <2>6 DEF Wake, Abstract!vars
    <2>7. CASE Close
      BY <2>7 DEF Close, Abstract!vars
    <2>8. CASE UNCHANGED vars
      BY <2>8 DEF vars, Abstract!vars
    <2>9. QED
      BY <2>1, <2>2, <2>3, <2>4, <2>5, <2>6, <2>7, <2>8 DEF Next, Operate, Closed
  <1>3. QED
    BY <1>1, <1>2, InductiveInvariant, PTL DEF Spec, Abstract!SafeSpec

=============================================================================
