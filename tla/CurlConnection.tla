--------------------------- MODULE CurlConnection ---------------------------
(***************************************************************************)
(* One CurlConnection and the thread that uses it: a series of Get and     *)
(* Post operations on one libcurl easy handle.  The options of the handle  *)
(* outlive an operation; what most of them point to (the header list, the  *)
(* read buffer, the error buffer) are locals of the operation and do not.  *)
(*                                                                         *)
(* libcurl and the service behind it are external: a transfer delivers     *)
(* chunks to WriteCallback and then completes with a status, or fails.     *)
(***************************************************************************)
EXTENDS Integers

CONSTANTS
  c_maxRetries,             \* RequestParams.h
  MAX_RESPONSE_CHARACTERS,  \* WriteCallback's limit on the length of a body
  Statuses,                 \* HTTP status codes the service can answer with
  RetryAfters,              \* Retry-After values, in seconds from now; 0 also
                            \* stands for text that is no number and no date
  BaseDelays,               \* milliseconds: 15 s, or the test override
  ChunkSizes,               \* characters libcurl hands over at a time
  Urls, Bodies,             \* what Get and Post are called with
  CvLimit,                  \* the correlation vector is full, and frozen
  MaxCalls                  \* bound: operations on the connection

NoAnswer == 0
EmptyUrl == ""
NoData   == ""

ASSUME ConfigAssumption ==
  /\ c_maxRetries \in Nat
  /\ MAX_RESPONSE_CHARACTERS \in Nat
  /\ CvLimit \in Nat
  /\ MaxCalls \in Nat
ASSUME DataAssumption ==
  /\ Statuses \subseteq Nat \ {NoAnswer}
  /\ RetryAfters \subseteq Int
  /\ BaseDelays \subseteq Int
  /\ ChunkSizes \subseteq Nat \ {0}
  /\ EmptyUrl \notin Urls
  /\ NoData \in Bodies

VARIABLES
  pc,          \* where the thread is in Get, Post and CurlPerform
  maxRetries,  \* m_maxRetries
  cv,          \* m_cv: its last component, and m_isFirstUse
  call,        \* the operation: its number and arguments
  handle,      \* options set on m_handle
  attempt,     \* requests performed by the operation
  readBuffer,  \* the local read buffer
  reply,       \* status and Retry-After that m_handle holds of the last transfer
  delay,       \* retryDelay, in ms, while the thread sleeps
  result,      \* what the operation returned or threw
  wire,        \* history: the latest request the service saw
  received     \* history: characters the service sent in the latest transfer

vars == <<pc, maxRetries, cv, call, handle, attempt, readBuffer, reply, delay,
          result, wire, received>>

-----------------------------------------------------------------------------

Abstract ==
  INSTANCE HttpRequest WITH
    busy     <- pc # "idle" /\ pc # "closed",
    attempts <- attempt,
    last     <- reply.status,
    outcome  <- [code |-> result.code, body |-> result.body.from]

Methods == {"GET", "POST"}

NoRetryAfter == [present |-> FALSE, seconds |-> 0]
RetryAfter   == [present : {TRUE}, seconds : RetryAfters] \cup {NoRetryAfter}
NoReply      == [status |-> NoAnswer, retryAfter |-> NoRetryAfter]
Reply        == [status : Statuses, retryAfter : RetryAfter]

\* A body is known by its length and the attempts that sent some of it.
EmptyBuffer == [len |-> 0, from |-> {}]

\* A pointer is the number of the operation whose local it points to.
Null      == 0
NoHeaders == [owner |-> Null, type |-> FALSE, cv |-> 0]

NoRequest == [method |-> "GET", url |-> EmptyUrl, data |-> NoData,
              type |-> FALSE, cv |-> 0]

Init ==
  /\ pc = "idle"
  /\ maxRetries \in {0, c_maxRetries}
  /\ cv = [value |-> 0, isFirstUse |-> TRUE]
  /\ call = [id |-> 0, method |-> "GET", url |-> EmptyUrl, data |-> NoData]
  /\ handle = [method |-> "GET", url |-> EmptyUrl, postFields |-> NoData,
               headers |-> NoHeaders, writeData |-> Null, errorBuffer |-> Null]
  /\ attempt = 0
  /\ readBuffer = EmptyBuffer
  /\ reply = NoReply
  /\ delay = 0
  /\ result = [code |-> Abstract!Pending, body |-> EmptyBuffer]
  /\ wire = NoRequest
  /\ received = 0

-----------------------------------------------------------------------------
(* Get and Post. *)

\* A failure is reported to the logging callback before it is thrown, and the
\* callback may throw an exception of its own instead.
Thrown(code) == {code, "ForeignException"}

(* The operation ends: its locals are destroyed, and ~CurlErrorBuffer unsets   *)
(* the error buffer if it was set (when that fails it is only logged).         *)
Leave(code, body) ==
  /\ pc' = "idle"
  /\ result' = [code |-> code, body |-> body]
  /\ \E errorBuffer \in {handle.errorBuffer, Null} :
       /\ handle.errorBuffer # call.id => errorBuffer = handle.errorBuffer
       /\ handle' = [handle EXCEPT !.errorBuffer = errorBuffer]
  /\ readBuffer' = EmptyBuffer
  /\ delay' = 0
  /\ UNCHANGED <<maxRetries, cv, call, attempt, reply, wire, received>>

Throw(codes) == \E code \in codes : Leave(code, EmptyBuffer)

RefuseEmptyUrl ==
  /\ pc = "idle"
  /\ attempt' = 0
  /\ reply' = NoReply
  /\ \E code \in Thrown("InvalidArg") :
       result' = [code |-> code, body |-> EmptyBuffer]
  /\ UNCHANGED <<pc, maxRetries, cv, call, handle, readBuffer, delay, wire, received>>

Begin(method, url, data) ==
  /\ pc = "idle"
  /\ call.id < MaxCalls
  /\ method = "GET" => data = NoData
  /\ pc' = "setMethod"
  /\ call' = [id |-> call.id + 1, method |-> method, url |-> url, data |-> data]
  /\ attempt' = 0
  /\ reply' = NoReply
  /\ result' = [code |-> Abstract!Pending, body |-> EmptyBuffer]
  /\ UNCHANGED <<maxRetries, cv, handle, readBuffer, delay, wire, received>>

(* One step of setting up the handle: the option takes its new value, or       *)
(* setting it fails and the operation with it, the earlier options left set.   *)
SetOption(here, next, configured) ==
  /\ pc = here
  /\ \/ /\ pc' = next
        /\ handle' = configured
        /\ UNCHANGED <<maxRetries, cv, call, attempt, readBuffer, reply, delay,
                       result, wire, received>>
     \/ Throw(Thrown("ConnectionSetupFailed"))

BugGetIsTheDefault ==
  SetOption("setMethod", "setPayload",
            IF call.method = "GET" THEN handle ELSE [handle EXCEPT !.method = "POST"])

SetMethod ==
  SetOption("setMethod", "setPayload", [handle EXCEPT !.method = call.method])

SetPayload ==
  SetOption("setPayload", "setUrl",
    IF call.method = "GET" THEN [handle EXCEPT !.headers = NoHeaders]
    ELSE [handle EXCEPT !.method = "POST", !.postFields = call.data])

SetUrl ==
  SetOption("setUrl", "incrementCv", [handle EXCEPT !.url = call.url])

BugAlwaysFirstUse ==
  IF cv.isFirstUse THEN cv
  ELSE [cv EXCEPT !.value = IF @ < CvLimit THEN @ + 1 ELSE @]

\* CorrelationVector::IncrementAndGet; the library freezes a full vector.
IncrementAndGet ==
  IF cv.isFirstUse THEN [cv EXCEPT !.isFirstUse = FALSE]
  ELSE [cv EXCEPT !.value = IF @ < CvLimit THEN @ + 1 ELSE @]

IncrementCv ==
  /\ pc = "incrementCv"
  /\ pc' = "setHeaders"
  /\ cv' = IncrementAndGet
  /\ UNCHANGED <<maxRetries, call, handle, attempt, readBuffer, reply, delay,
                 result, wire, received>>

\* The local list: MS-CV and User-Agent, after Content-Type in a Post.
HeaderList == [owner |-> call.id, type |-> call.method = "POST", cv |-> cv.value]

SetHeaders ==
  SetOption("setHeaders", "setErrorBuffer", [handle EXCEPT !.headers = HeaderList])

SetErrorBuffer ==
  SetOption("setErrorBuffer", "setWriteData",
            [handle EXCEPT !.errorBuffer = call.id])

BugSetWriteDataOnce ==
  SetOption("setWriteData", "loop",
            [handle EXCEPT !.writeData = IF @ = Null THEN call.id ELSE @])

SetWriteData ==
  SetOption("setWriteData", "loop", [handle EXCEPT !.writeData = call.id])

-----------------------------------------------------------------------------
(* The retry loop of CurlPerform. *)

TotalAttempts == 1 + maxRetries

\* What libcurl sends, given the options of the handle.
Request ==
  [method |-> handle.method, url |-> handle.url,
   data |-> IF handle.method = "POST" THEN handle.postFields ELSE NoData,
   type |-> handle.headers.type, cv |-> handle.headers.cv]

BugKeepReadBuffer ==
  /\ pc = "loop"
  /\ attempt < TotalAttempts
  /\ pc' = "transfer"
  /\ attempt' = attempt + 1
  /\ reply' = NoReply
  /\ wire' = Request
  /\ received' = 0
  /\ UNCHANGED <<maxRetries, cv, call, handle, readBuffer, delay, result>>

StartAttempt ==
  /\ pc = "loop"
  /\ attempt < TotalAttempts
  /\ pc' = "transfer"
  /\ attempt' = attempt + 1
  /\ readBuffer' = EmptyBuffer
  /\ reply' = NoReply
  /\ wire' = Request
  /\ received' = 0
  /\ UNCHANGED <<maxRetries, cv, call, handle, delay, result>>

\* The callback throws when told of the attempt.
AbandonAttempt ==
  /\ pc = "loop"
  /\ Leave("ForeignException", EmptyBuffer)

BugCheckBeforeAppending(size) ==
  /\ readBuffer.len <= MAX_RESPONSE_CHARACTERS
  /\ readBuffer' = [len |-> readBuffer.len + size, from |-> readBuffer.from \cup {attempt}]
  /\ received' = received + size
  /\ UNCHANGED <<pc, maxRetries, cv, call, handle, attempt, reply, delay, result, wire>>

(* WriteCallback: a chunk that does not fit makes the transfer fail. *)
AcceptChunk(size) ==
  /\ readBuffer.len + size <= MAX_RESPONSE_CHARACTERS
  /\ readBuffer' = [len |-> readBuffer.len + size, from |-> readBuffer.from \cup {attempt}]
  /\ received' = received + size
  /\ UNCHANGED <<pc, maxRetries, cv, call, handle, attempt, reply, delay, result, wire>>

RefuseChunk(size) ==
  /\ readBuffer.len + size > MAX_RESPONSE_CHARACTERS
  /\ Throw(Thrown("ConnectionUnexpectedError"))

ReceiveChunk ==
  /\ pc = "transfer"
  /\ \E size \in ChunkSizes : AcceptChunk(size) \/ RefuseChunk(size)

(* curl_easy_perform fails: no retry, whatever the reason. *)
CurlCodeToResult(curlCode) ==
  IF curlCode = "CURLE_OPERATION_TIMEDOUT" THEN "HttpTimeout"
  ELSE "ConnectionUnexpectedError"

TransferFails ==
  /\ pc = "transfer"
  /\ \E curlCode \in {"CURLE_OPERATION_TIMEDOUT", "CURLE_COULDNT_CONNECT"} :
       Throw(Thrown(CurlCodeToResult(curlCode)))

TransferCompletes ==
  /\ pc = "transfer"
  /\ pc' = "answered"
  /\ reply' \in Reply
  /\ UNCHANGED <<maxRetries, cv, call, handle, attempt, readBuffer, delay,
                 result, wire, received>>

GetInfoFails ==
  /\ pc = "answered"
  /\ Throw(Thrown("ConnectionUnexpectedError"))

\* The loop is left by its break, or because the attempts are used up.
LoopIsOver ==
  \/ pc = "answered" /\ Abstract!IsSuccessfulSFSHttpCode(reply.status)
  \/ pc = "loop" /\ attempt = TotalAttempts

Succeed ==
  /\ LoopIsOver
  /\ Leave("Success", readBuffer)

BugRetryWhateverTheCode(lastAttempt, httpCode) == ~lastAttempt

CanRetryRequest(lastAttempt, httpCode) ==
  ~lastAttempt /\ Abstract!IsRetriableHttpError(httpCode)

CanRetry == CanRetryRequest(attempt = TotalAttempts, reply.status)

Reject ==
  /\ pc = "answered"
  /\ ~Abstract!IsSuccessfulSFSHttpCode(reply.status)
  /\ ~CanRetry
  /\ Throw(Thrown(Abstract!HttpCodeToResult(reply.status)))

-----------------------------------------------------------------------------
(* ProcessRetry: Retry-After when the answer has one, else a back-off. *)

BugBackOffTooLong(base) == base * 2^attempt

BackOff(base) == base * 2^(attempt - 1)

RetryDelays ==
  IF reply.retryAfter.present THEN {1000 * reply.retryAfter.seconds}
  ELSE {BackOff(base) : base \in BaseDelays}

\* ParseRetryAfterValue accepts only a time that is still to come.
CanParseRetryAfter == reply.retryAfter.present => reply.retryAfter.seconds > 0

ProcessRetry ==
  /\ pc = "answered"
  /\ ~Abstract!IsSuccessfulSFSHttpCode(reply.status)
  /\ CanRetry
  /\ CanParseRetryAfter
  /\ pc' = "sleep"
  /\ delay' \in RetryDelays
  /\ UNCHANGED <<maxRetries, cv, call, handle, attempt, readBuffer, reply,
                 result, wire, received>>

RefuseRetryAfter ==
  /\ pc = "answered"
  /\ ~Abstract!IsSuccessfulSFSHttpCode(reply.status)
  /\ CanRetry
  /\ ~CanParseRetryAfter
  /\ Throw(Thrown("ConnectionUnexpectedError"))

\* The header cannot be read, the override of the base delay is no number, or
\* the callback throws when told of the retry.
RetryFails ==
  /\ pc = "answered"
  /\ ~Abstract!IsSuccessfulSFSHttpCode(reply.status)
  /\ CanRetry
  /\ Throw(Thrown("ConnectionUnexpectedError"))

BugForgetAttempts ==
  /\ pc = "sleep"
  /\ pc' = "loop"
  /\ delay' = 0
  /\ attempt' = 0
  /\ UNCHANGED <<maxRetries, cv, call, handle, readBuffer, reply, result, wire, received>>

Wake ==
  /\ pc = "sleep"
  /\ pc' = "loop"
  /\ delay' = 0
  /\ UNCHANGED <<maxRetries, cv, call, handle, attempt, readBuffer, reply,
                 result, wire, received>>

-----------------------------------------------------------------------------

(* ~CurlConnection. *)
Close ==
  /\ pc = "idle"
  /\ pc' = "closed"
  /\ UNCHANGED <<maxRetries, cv, call, handle, attempt, readBuffer, reply, delay,
                 result, wire, received>>

Closed == pc = "closed" /\ UNCHANGED vars

SetUp == \/ SetMethod \/ SetPayload \/ SetUrl \/ IncrementCv
         \/ SetHeaders \/ SetErrorBuffer \/ SetWriteData

Transfer == ReceiveChunk \/ TransferFails \/ TransferCompletes

Decide == \/ GetInfoFails \/ Succeed \/ Reject
          \/ ProcessRetry \/ RefuseRetryAfter \/ RetryFails

Operate == SetUp \/ StartAttempt \/ AbandonAttempt \/ Transfer \/ Decide \/ Wake

Next ==
  \/ RefuseEmptyUrl
  \/ \E method \in Methods, url \in Urls, data \in Bodies : Begin(method, url, data)
  \/ Operate
  \/ Close
  \/ Closed

\* A thread inside an operation keeps running, and curl_easy_perform returns.
Spec == Init /\ [][Next]_vars /\ WF_vars(Operate)

-----------------------------------------------------------------------------
(* Correctness. *)

\* The waits there can be: none, a Retry-After, or a back-off.
Delays ==
  {0} \cup {1000 * seconds : seconds \in RetryAfters}
      \cup {base * 2^(n - 1) : base \in BaseDelays, n \in 1 .. c_maxRetries}

Operation == [id : 0 .. MaxCalls, method : Methods,
              url : Urls \cup {EmptyUrl}, data : Bodies]
Headers   == [owner : 0 .. MaxCalls, type : BOOLEAN, cv : 0 .. CvLimit]
Options   == [method : Methods, url : Urls \cup {EmptyUrl}, postFields : Bodies,
              headers : Headers, writeData : 0 .. MaxCalls, errorBuffer : 0 .. MaxCalls]
Requests  == [method : Methods, url : Urls \cup {EmptyUrl}, data : Bodies,
              type : BOOLEAN, cv : 0 .. CvLimit]
Buffer    == [len : 0 .. MAX_RESPONSE_CHARACTERS, from : SUBSET (0 .. 1 + c_maxRetries)]
Locations == {"idle", "closed", "setMethod", "setPayload", "setUrl", "incrementCv",
              "setHeaders", "setErrorBuffer", "setWriteData",
              "loop", "transfer", "answered", "sleep"}

TypeOK ==
  /\ pc \in Locations
  /\ maxRetries \in {0, c_maxRetries}
  /\ cv \in [value : 0 .. CvLimit, isFirstUse : BOOLEAN]
  /\ call \in Operation
  /\ handle \in Options
  /\ attempt \in 0 .. TotalAttempts
  /\ readBuffer \in Buffer
  /\ reply \in Reply \cup {NoReply}
  /\ delay \in Delays
  /\ result \in [code : Abstract!Codes, body : Buffer]
  /\ wire \in Requests
  /\ received \in Nat

(* libcurl follows the pointers it was given only during a transfer, and then  *)
(* each of them points to a local of the operation that is running: none is    *)
(* left over from an operation that returned or threw half-way.                *)
OnlyLivePointers ==
  pc = "transfer" =>
    /\ handle.headers.owner = call.id
    /\ handle.writeData = call.id
    /\ handle.errorBuffer = call.id

(* What the service sees is what Get or Post was called with, whatever the     *)
(* handle was used for before: no method, URL, body or Content-Type left over. *)
RequestIsTheCall ==
  pc = "transfer" =>
    /\ wire.method = call.method
    /\ wire.url = call.url
    /\ wire.data = call.data
    /\ wire.type <=> call.method = "POST"

(* A body is returned whole and alone: every character of the 200 answer, and  *)
(* none of the error pages of the attempts before it.                          *)
BodyIsTheAnswer ==
  result.code = "Success" =>
    /\ reply.status = 200
    /\ result.body.len = received
    /\ result.body.from \subseteq {attempt}

(* A wait is the one that the answer just received asks for: its Retry-After,  *)
(* always positive, or the back-off of this attempt; never an earlier one's.   *)
WaitIsForThisAnswer ==
  pc = "sleep" =>
    /\ attempt <= maxRetries
    /\ IF reply.retryAfter.present
       THEN delay > 0 /\ delay = 1000 * reply.retryAfter.seconds
       ELSE \E base \in BaseDelays : delay = base * 2^(attempt - 1)

(* The attempts of one operation are one request sent again, correlation       *)
(* vector included, and each operation is distinguished from all the earlier   *)
(* ones by its vector, until the vector is full.                               *)
RetriesRepeatTheRequest ==
  [][attempt' > attempt =>
       IF attempt = 0
       THEN wire'.cv > wire.cv \/ wire'.cv = CvLimit \/ wire = NoRequest
       ELSE wire' = wire]_vars

(* Every operation returns: no server, by the length of its answers or the     *)
(* Retry-After it sends, keeps the caller in the retry loop for ever.          *)
EveryCallReturns == pc = "setMethod" ~> pc = "idle"

(* The connection does what HttpRequest says of one. *)
ImplementsHttpRequest == Abstract!Spec

-----------------------------------------------------------------------------
(* The inductive invariant behind these properties: how far the operation has  *)
(* got, and what that says of the handle, the answer, the body and the vector. *)

\* Where the thread can be once an option is set.
InLoop         == {"loop", "transfer", "answered", "sleep"}
ErrorBufferSet == InLoop \cup {"setWriteData"}
HeadersSet     == ErrorBufferSet \cup {"setErrorBuffer"}
CvTaken        == HeadersSet \cup {"setHeaders"}
UrlSet         == CvTaken \cup {"incrementCv"}
PayloadSet     == UrlSet \cup {"setUrl"}
MethodSet      == PayloadSet \cup {"setPayload"}
Outside        == {"idle", "closed"}

ProgressOK ==
  /\ pc \in {"transfer", "answered", "sleep"} => attempt > 0
  /\ pc \notin InLoop \cup Outside => attempt = 0
  /\ pc \notin Outside => result.code = Abstract!Pending
  /\ pc = "transfer" => reply = NoReply
  /\ pc = "answered" => reply \in Reply
  /\ pc = "sleep" \/ (pc = "loop" /\ attempt > 0) =>
       Abstract!IsRetriableHttpError(reply.status)
  /\ attempt = 0 => reply = NoReply
  /\ pc \in {"loop", "sleep"} => attempt < TotalAttempts

HandleOK ==
  /\ pc \notin Outside /\ call.method = "GET" => call.data = NoData
  /\ pc \in MethodSet => handle.method = call.method
  /\ pc \in PayloadSet /\ call.method = "POST" => handle.postFields = call.data
  /\ pc \in UrlSet => handle.url = call.url
  /\ pc \in HeadersSet => handle.headers = HeaderList
  /\ pc \in ErrorBufferSet => handle.errorBuffer = call.id
  /\ pc \in InLoop => handle.writeData = call.id
  /\ pc \in InLoop /\ attempt > 0 => wire = Request

BufferOK ==
  /\ pc \in {"transfer", "answered"} =>
       readBuffer.len = received /\ readBuffer.from \subseteq {attempt}
  /\ BodyIsTheAnswer

CvOK ==
  /\ cv.isFirstUse => wire = NoRequest /\ cv.value = 0
  /\ pc \in CvTaken => ~cv.isFirstUse
  /\ wire.cv <= cv.value
  /\ pc \in CvTaken /\ attempt = 0 =>
       wire = NoRequest \/ wire.cv < cv.value \/ cv.value = CvLimit

IInv == TypeOK /\ ProgressOK /\ HandleOK /\ BufferOK /\ CvOK

=============================================================================
