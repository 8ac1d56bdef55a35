# The SFS client in TLA+

sfs-client is a C++ library that asks the Simple File Solutions (SFS) service
for the latest version of a product and for the download URLs of its files.
This directory specifies the library and the two programs that come with it,
checks the specifications with TLC on small instances, and proves the main
results with TLAPS for all instances.

## The system

| Component | State it keeps | Operations | What makes it correct |
|---|---|---|---|
| `CurlConnection` | a libcurl easy handle whose options outlive an operation, a correlation vector, the number of retries | `Get`, `Post` (through `CurlPerform`, `WriteCallback`, `ProcessRetry`), destructor | no option or pointer left over, whole bodies, the right wait, a bounded number of attempts, every operation returns |
| `CorrelationVector` | the vector, "first use" | `IncrementAndGet` | each operation has its own value, its retries share it |
| `ReportingHandler` | the logging callback, a mutex | `SetLoggingCallback`, `CallLoggingCallback` | calls are serialized, a replaced callback is over |
| `SFSClientImpl` | account, instance, namespace, connection manager | `GetLatestDownloadInfo`, `GetLatestAppDownloadInfo`, and the requests they are made of | one consistent, complete content that was the latest during the call, or an error and nothing else |
| `SFSClient` | the implementation | `Make`, the two download calls | exceptions become `Result`s; the caller's vector changes only on success |
| Entities (`VersionEntity`, `FileEntity`) | none | JSON to entities, entities to files and ids | what is delivered is what the service means, whole and in order; nothing malformed gets through, nothing usable is refused |
| `CurlConnectionManager` | libcurl's global count | constructor, destructor, `MakeConnection` | libcurl is initialised while a client lives |
| `UrlBuilder`, `SFSUrlBuilder` | libcurl's URL handle, and the path so far beside it | set, append, reset, get; the URLs of four endpoints | the URL is that of the request, whatever the builder made before; different requests have different URLs |
| `Env`, `TestOverride` | the process's environment | get, set, unset, scoped set | a scope leaves the environment as it was |
| Content types (`Content`, `File`, ...), `ContentUtil`, `Result` | their fields | `Make`, getters, comparisons | values move whole |
| `SFSClientTool` (sample) | settings, an environment variable, an output file | one run from `main` to its exit status | it asks what its arguments say, prints or saves what it got, and its exit status tells |
| `IntegrationDOClient` (sample) | a directory of downloads that outlasts the runs | runs, by several processes; Delivery Optimization downloads | after a run that succeeds the files are there, whole and of that version |
| Mock connection, tests, test servers, scripts | | | not part of the library |

A call of the API runs in the caller's thread. `SFSClient` calls
`SFSClientImpl`, which makes a connection for this call alone, and sends it a
`Post` for the latest version, then a `Post` for the files of that version,
then one for the files of each prerequisite of an app. The connection drives
libcurl, which calls back into `WriteCallback`, and sleeps between attempts.
Everything logs through the one `ReportingHandler` of the client; the user's
callback runs in the calling thread with the handler's mutex held and may throw.
The service goes on publishing versions meanwhile. What is hard here:

- options and pointers that stay in the handle when an operation fails half-way;
- retries: shared buffers, last attempts, waits that belong to the right answer;
- several requests whose answers must fit together though the service changes;
- failures at every step, and a callback that throws while a failure is reported;
- threads that share the callback, and clients that share libcurl;
- a path that is kept twice, once by libcurl, which may refuse to change its own;
- documents in which one part of many is missing or is not what it should be;
- programs that are run again over what a failed or killed run has left.

`PROJECT.json` lists each hazard with its line and the properties that catch it.

## The modules

| Module | What it models |
|---|---|
| `HttpRequest` | what a connection promises its user: one operation at a time, bounded attempts, a further attempt only after a retriable answer, a result that reports the last answer |
| `CurlConnection` | the code of `CurlConnection.cpp`, step by step; implements `HttpRequest` |
| `CurlConnectionProofs` | theorems about `CurlConnection` |
| `ReportingHandler` | the shared callback and its mutex, for a set of threads |
| `DownloadInfo` | what a call of the API promises: atomically, a content that was the latest during the call, or an error |
| `SFSClientImpl` | the calls of the API, composed with `HttpRequest` and a service that publishes; implements `DownloadInfo` |
| `SFSClientImplProofs` | theorems about `SFSClientImpl` |
| `ClientLifetime` | `SFSClient::Make`, the constructor, the destructor, and libcurl's count, for several clients |
| `SharedStateProofs` | theorems about `ClientLifetime` and `ReportingHandler`: what clients share, and what the threads of one client share |
| `Environment` | the environment, nested scopes, and what the library reads of it |
| `EnvironmentProofs` | theorems about `Environment` |
| `UrlBuilder` | a URL handle and the path beside it, with the methods that change them |
| `SFSUrlBuilder` | the life of one builder: the URLs of the endpoints as rows of `UrlBuilder`'s methods, or any of these methods |
| `SFSUrlBuilderProofs` | theorems about `SFSUrlBuilder` |
| `Entities` | `VersionEntity` and `FileEntity` as operators on JSON values |
| `Documents` | what the service's documents say, told from their meaning: the reference for `Requests` |
| `Requests` | the four requests of `SFSClientInterface` and the conversion of files, on `Entities` |
| `RequestsProofs` | theorems about `Requests` |
| `CommandLine` | `ParseArguments` of the samples, and what a command line means |
| `ContentJson` | the contents that the API delivers, and the JSON that the tool prints of one |
| `SFSClientTool` | a run of the tool, on `CommandLine` and `ContentJson` |
| `SFSClientToolProofs` | theorems about `SFSClientTool` and its parser |
| `IntegrationDOClient` | runs of the other sample over one disk, on `CommandLine` |
| `IntegrationDOClientProofs` | theorems about `IntegrationDOClient` |
| `MC...` | values for the constants of the module of that name |

The two refinements meet in `HttpRequest`: `SFSClientImpl` is built on it and
`CurlConnection` implements it. `SFSClientImpl` has an entity as one that is good
or bad in one of several ways; what makes it so is in `Requests` and `Entities`,
and the URL that stands behind a request is in `SFSUrlBuilder`.

```
DownloadInfo  <-- implements --  SFSClientImpl
                                      | uses the actions of
                                 HttpRequest  <-- implements --  CurlConnection

SFSUrlBuilder --> UrlBuilder          Requests --> Documents --> Entities
                                      ContentJson --> Entities
SFSClientTool --> CommandLine, ContentJson
IntegrationDOClient --> CommandLine
```

Definitions whose names start with `Bug` are wrong versions of the definition
that follows them. No specification uses them; putting one in the place of the
right definition must make a property fail, which shows that the property is
about that code.

### CurlConnection

`pc` follows the thread through `Get` or `Post` and `CurlPerform`. Each
`curl_easy_setopt` is a step that sets an option or fails and ends the
operation, leaving the earlier options set (`SetOption`). A pointer given to
libcurl (header list, error buffer, read buffer) is the number of the operation
whose local it points to, so that a dangling pointer is one with an earlier
number. `StartAttempt` is the head of the retry loop up to the start of
`curl_easy_perform`; during a transfer libcurl hands over chunks
(`AcceptChunk`, `RefuseChunk` are the two ends of `WriteCallback`), fails, or
completes with any status. `Succeed`, `Reject`, `ProcessRetry`,
`RefuseRetryAfter`, `RetryFails` and `GetInfoFails` are the ways on from an
answer. `Leave` is the end of the operation by return or exception, with the
destruction of the locals; `~CurlErrorBuffer` may fail to unset its option.

A body is abstracted to its length and the attempts it came from, a
Retry-After value to the seconds it says (0 for anything that is refused: a
time that has passed, or text that is neither a number nor a date). Failures are
logged before they are thrown, so each may be replaced by an exception of the
user's callback (`Thrown`). `wire` and `received` are history: the request the
service last saw, and how much it sent.

### ReportingHandler

Each thread logs (`Log`, `LockToLog`, `SkipCall` or `Call`, `EndCallback`) or
replaces the callback (`SetLoggingCallback`, `LockToSet`, `Assign`). The
callback runs between `Call` and `EndCallback` with the mutex held, and returning
and throwing are the same step, since the lock guard is destroyed either way.
`replaced` is history: the callbacks whose replacement has returned and that
have not been set again.

### SFSClientImpl

The variables of `HttpRequest` are variables of this module, and a call's
connection is made by resetting them (`MakeConnection`). `Send` begins an
operation of the connection; `Transmit`, `Answer` and `EndRequest` are the
connection's own steps. The body of an answer is taken from what the service has
published when it answers, may be malformed, may describe another product,
namespace or type of content, and is looked at once the operation has returned
(`ReceiveVersion`, `RefuseVersion`, `ReceiveFiles`, `RefuseFiles`).
`Parts` are the ContentIds whose files the call needs: the product's and, for an
app, its prerequisites'. Files carry the request that they answer (`of`), so that
a property can say whose they are. `Return` is the way of every failure out of
the library: logged, rethrown, and turned into a code, with `Unexpected` for an
exception that is not the library's own.

A call shares only the logging callback with other calls of the same client;
one caller therefore stands for any of several threads.

### ClientLifetime

Each element of `Clients` is a variable of the application that holds a client.
`pc` follows `Make` through its steps: `Reset` destroys the client that the
variable held, `Validate`, `InitializeCurl`, `CheckFeatures` and `LogOverrides`
are the constructors of `SFSClientImpl` and `CurlConnectionManager` in order, and
`Store` and `LogCreated` the rest of `Make`. Each failure ends it with a code, or
with `Unexpected` when the logging callback throws. The destructor of the manager
runs only when its constructor has completed: after a failed `LogOverrides`, not
after a failed `CheckFeatures`. libcurl's count is one number for all; the
initialisation itself can fail only for its first user. `abandoned` is history.
The application makes or destroys a client while no call runs on it.

### Environment

A scope is pushed by the constructor of `ScopedEnv` and popped by its
destructor, which goes through `SetEnv` or `UnsetEnv` as the code does. The model
is of a POSIX system, where a variable can be empty; on Windows an empty variable
is one that is not set. That `setenv` fails for lack of memory is left out.
`base` is history: the environment as direct changes outside the scopes of a
variable have left it. `GetTestOverride`, `GetTestOverrideAsInt` and
`MakeUrlBuilder` only read and are operators.

### UrlBuilder and SFSUrlBuilder

A string is a sequence of characters, of which only the slash matters, and the
words of the code (`api`, `versions`, ...) are one character each; `Escaped` is
`curl_easy_escape`, an escaped character being a character of its own. Each
method of `UrlBuilder` is an action, which libcurl may refuse and which may be
refused for an empty argument; `m_path` changes before libcurl is asked, as in the
code, so that the two paths come apart when it refuses. `wanted` and `settled` are
history: the path that the successful methods ask for, and whether nothing has
failed since the path was last replaced.

In `SFSUrlBuilder` each endpoint is a row of methods (`SetNamesUrlPath`,
`GetDownloadInfoUrl`, ...) that `Step` performs one by one; an exception ends the
row and leaves the builder where it is, unless it was in the constructor. A
builder of the kind `plain` has any of `UrlBuilder`'s methods called in any order,
but for one use: a path that begins with a slash is not appended unencoded. The code
doubles that slash after a path that has been set to a slash alone and does not after
a path that has been reset, though the URL is the same; no caller does it.

### Entities and Requests

A JSON value is a record of its kind and its text, number, members or elements.
`FromJson` throws the same code from every check, so that the checks of a
document are one condition (`IsVersion`, `IsFileList`) and what is made of a
document that satisfies it is an operator (`VersionOf`, `FilesOf`). `Refusal` and
`Conversions` are `ToFile` and `ToAppFile`; the latter is a set because hash types
that differ only in case fall on one key and the order of an unordered map
decides which one stays.

`Requests` sends a request, gets any answer and delivers or throws: `GetVersion`,
`GetLatestVersionBatch`, `GetDownloadInfo`, then `Convert`, which the caller does
with the files. An answer comes with its meaning, or with none when the document is
damaged; the checks see the document, the properties compare with the meaning.
`Documents` says when a document has a meaning (`SaysVersion`, `SaysFile`: the
members that the format requires are there and hold what is meant, beside any
others) and when it has none (`SaysNoVersion`, `SaysNoFile`: one of them is missing or
of another kind). `AnswerAssumption` asks one or the other of every answer, and TLC
evaluates it for those of the run. A document that the library cannot parse as JSON
is an answer of its own (`NotJson`).

### CommandLine, ContentJson and SFSClientTool

`Read` reads one argument as the loop of `ParseArguments` does, `Readers` is what
has been read after each of them, and `Parse` what comes of all. A line is put
together from options as they are typed and their values (`pieces`), so that
`MeaningOf` can say what it means without reading it; `Lines` strings these
together, and `IsLine` says that a piece's option is the one its text names and that
only a switch at the very end lacks its value. `AllStrings` stands for the strings
that arguments and contents are made of.

The actions of `SFSClientTool` are the stages of `main`: `ParseStep`, `Configure`
(which sets the override of the URL and does not look whether it could),
`MakeClient`, `GetLatestDownloadInfo`, `DisplayResults`, or `OpenFile` and
`WriteFile`. The library's answers are external here. Of the result codes, the low
16 bits are kept; of an exit status, `ExitModulus`. A write may fall short, leaving
the file empty or torn; as in the code nobody looks, and the tool ends with zero.
`ZeroIsSuccess` therefore says of a saved answer only that its file was opened.

### IntegrationDOClient

Each process runs the program again and again: `Start` parses the line,
`GetLatestDownloadInfo` fixes the version, `GetOutDir` finds the directory, and for
each file `CheckFile` skips it or `CreateDownload` and `StartDownload` hand it over to
Delivery Optimization, another process, which is external: it begins to write
(`BeginDownload`), and completes or fails (`CompleteDownload`, `FailDownload`); a
failed download may or may not leave what it has. `Kill` can come at any place, and
does not stop a download that has been handed over: it becomes one of `leftover`,
which begins, completes or fails at any later time (`GoOn`), and so may one whose
failure the program has been told of. The disk outlasts the runs.

`before` and `touched` are history: the files that were in the directory when a run
began, and those that another run, or a download left over, was at while it ran
(`Busy`, `Disturb`). The properties hold file by file for all others, so that runs
that overlap are covered wherever they are not at one file.

## The runs

| Run | Instance | What it shows |
|---|---|---|
| `connection` | 3 retries as in the code, 3 operations, statuses 200, 404, 429 and 500, bodies of up to 2 characters in chunks of 1 and 2, Retry-After usable and not, two base delays, 2 URLs, with and without data | the inductive invariant `IInv`, `OnlyLivePointers`, `RequestIsTheCall`, `BodyIsTheAnswer`, `WaitIsForThisAnswer`, `RetriesRepeatTheRequest`, `EveryCallReturns`, and that the connection implements `HttpRequest`, liveness included |
| `reporting_handler` | 3 threads, 2 callbacks and none | `OneCallAtATime`, `ReplacedCallbackIsOver`, `SomeoneGetsIn`; no deadlock |
| `client_one_call` | 1 retry, 2 products, 2 namespaces, 2 versions, no, one and two prerequisites, five lists of files, 1 call | `FilesBelongToTheirContent`, `ContentIsComplete`, `FirstFailureIsReported`, `EveryCallReturns`, implements `DownloadInfo` |
| `client_several_calls` | 1 product, 3 versions, one list of prerequisites, 2 calls | the inductive invariant `IInv`, `RequestBudget`, and `DownloadInfo` of calls that follow each other |
| `client_lifetime` | 3 clients, 2 configurations that are accepted and 2 that are refused, libcurl with any of 2 features | `CurlIsUp`, `InitsAreUndone`, `ResultTellsOut`, `ClientsHaveTheirFeatures`, `IInv` |
| `environment` | the 2 override variables, 2 values, scopes 3 deep | `ScopesComeUndone`, `OverridesEndWithTheirScopes` |
| `environment_empty` | the same, with variables that are empty at the start | expected violation of `ScopesComeUndone` |
| `sfs_urls` | 2 URLs a builder, or any methods, with paths that begin or end with a slash and are appended to while shorter than 2 characters; names that contain slashes and words of paths; libcurl may refuse anything | `UrlIsTheRequested`, `UrlsIdentifyRequests`, `PathSettles` |
| `requests` | answers with up to 2 elements, each a good document or one that is damaged in one place | `EntitiesAreMeant`, `PromisedIsAccepted`, `FilesAreMeant`, `FirstDefectIsTold` |
| `tool` | lines of up to 2 options alone, or up to 3 after the required ones, complete or not, with values that look like options; every failure of every stage | `LineIsUnderstood`, `AsksWhatTheLineSays`, `OutputIsTheAnswer`, `FailureKeepsTheFile`, `ZeroIsSuccess` |
| `tool_exit_status` | the same on a system that keeps 8 bits of an exit status | expected violation of `ZeroIsSuccess` |
| `do_client` | 2 processes, 3 runs, 2 directories, 2 versions that share a file, kills at any step, any number of downloads left over | `UntouchedFilesAreWhole`, `OldFilesStay` |

### Bounds, and why they are enough

- The number of retries is the code's own in `connection`, so that the third
  back-off and the last attempt are reached; elsewhere one retry suffices to tell a
  first, a repeated and a last attempt apart.
- The limit on a body is 2 instead of 100000. The code only compares with it;
  chunks of 1 and 2 reach it exactly, stay below and go over it.
- `MaxCalls` bounds the operations on a handle. An option can be left over from
  an operation to a later one; three put one that fails at any step between two
  others. The proofs have no such bound.
- `CvLimit` 2 makes the vector full within the operations of a run.
- Statuses are one of each kind that the code tells apart (success, retriable
  and not, with and without a code of its own).
- Two products and two namespaces make a wrong name and a wrong namespace
  possible; two versions make the first answer stale before the second; two
  prerequisites make their order matter. The list of files with a bad file after a
  good one, and the one with a bad file first, make the order of the checks matter.
- Three clients let one be made and one be destroyed while a third is used.
  `MaxCalls` 2 tells the last call on a client from others. `MaxAbandoned` stops
  further Makes on a libcurl without the features, which could go on for ever;
  the proofs need no such bound, nor one on clients and configurations.
- Three scopes on two variables nest a variable in itself, and around another.
- Two URLs a builder leave the first one's path and query, or what a failure left
  of them, to the second; a third could find nothing else. `MaxLength` 2 lets
  each path that can be set, with a slash at either end, be appended to. The product names and versions spell out
  parts of other requests' paths, which only escaping keeps apart.
- Two elements of an answer make one good and one bad in either order, and two
  good ones in the wrong one. `MCRequests` drops or replaces each member that the
  format requires, one at a time: each check is the only one to refuse some document.
- Three options after the required ones include every pair that could be taken for
  option and value, and a repeat after an empty and after a full value.
- Three runs are one to leave something behind, one to meet it, and one beside
  either. Of the two versions' files one is common and one is not.

### Fairness

`WF_vars(Operate)` in `CurlConnection` and `SFSClientImpl`: a thread inside a
call keeps running. Nothing in the library waits for another thread there. It
includes that `curl_easy_perform` returns; the code sets no time limit on it, so
this is an assumption about libcurl and the network, and so is that a sleep ends.
Callers need never call again, and the service need not publish, so `Begin`,
`Call` and `Publish` have no fairness. In `ReportingHandler` each thread that
wants the mutex, or is in the callback, goes on if it can: API.md asks for
callbacks that do not block. A `std::mutex` promises no order, so the liveness
property is only that someone gets in. The other modules state no liveness: their
code runs straight through, without loops that could go on, and waits for nothing
but Delivery Optimization, which promises nothing.

Some models really stop, and their runs do not check for deadlock: `SFSClientImpl`
and `IntegrationDOClient` when the calls or runs of the bound are used up (that a
call does not get stuck is `EveryCallReturns`), `ClientLifetime` at
`MaxAbandoned`, `SFSUrlBuilder` when the builder is destroyed, and
`SFSClientTool` at the end of `main`.

## The proofs

`CurlConnectionProofs` proves, from `ConfigAssumption` and `DataAssumption`
alone (any number of retries and operations, any limit, statuses and delays):

- `InductiveInvariant`: `Spec => []IInv`. The properties are not inductive: that
  the read buffer holds the answer at the end depends on its being empty at the
  start of the attempt and on every chunk since being of this attempt, and that
  no pointer is left over depends on where in `CurlPerform` the thread is.
  `IInv` therefore says, for each place the thread can be at, how far the
  operation has got (`ProgressOK`), which options have been set for it
  (`HandleOK`), what the buffer holds (`BufferOK`) and which correlation vectors
  are in use (`CvOK`).
- `TypeCorrect`, `PointersAreLive`, `RequestsAreTheCalls`, `BodiesAreAnswers`,
  `WaitsAreForTheirAnswers`: the invariants of the runs, from `IInv`.
- `RetriesRepeat`: the action property, from `IInv` before and after a step.
- `ImplementsSafely`: the refinement of `HttpRequest` without its fairness,
  action by action.

`SharedStateProofs` proves, of `ReportingHandler`, `OneCallAtATime` and
`ReplacedCallbackIsOver` for any sets of threads and callbacks, from the invariant
that the mutex is held by exactly the thread that is inside (`HandlerInv`).

Of `ClientLifetime` it proves every property of the run, for any finite set of
clients and any configurations. `CurlIsUp` is not inductive: why one client's
cleanup leaves enough for the others is a matter of counting. `CountIsExact` says
that libcurl's count is the number of `Managers` plus the abandoned
initialisations; each step adds its client to the managers, takes it out, or
leaves them, and the theorems on cardinality do the rest. `StagesFit` and
`ResultsFit` say what a variable holds at each stage of `Make`.

`EnvironmentProofs` proves `ScopesComeUndone` and `OverridesEndWithTheirScopes`
for any variables, values and depth, in a process that starts without empty
variables, an assumption that `environment_empty` shows to be needed. The
inductive part is that the outermost scope of a variable remembers the base.

`SFSClientImplProofs` proves every safety property of `SFSClientImpl`, for any
products, versions, lists of files and prerequisites, and numbers of retries and
calls, from the assumptions on the constants. It knows the connection by the
actions of `HttpRequest` only. None of the properties is inductive, since the
content is put together over several requests; `IInv` has, for each stage of a
call, what that stage knows:

- `StageOK`: what the connection and the entity are at each place of the call;
- `AnswerOK`: which request the connection is busy with, and that a 200 answer
  to a request for files holds files of that request;
- `PartsOK`: the parts received so far are the first ones of `Parts`, with the
  files that belong to them;
- `BudgetOK`: the requests sent are at most those of the completed operations
  and the attempts of the running one;
- `OfferOK`: the version of the entity was the latest one during the call.

Every way to fail is first shown to be a step `Fails`, which leaves the vector
and the connection alone (`RefusalsFail`), so that each part of the invariant is
proved over 13 kinds of steps (`Steps`). From `IInv` follow
`FilesBelongToTheContent`, `SuccessIsComplete` and `BudgetIsKept`; the action
property `FailureIsReported`; and `ImplementsSafely`, the refinement of
`DownloadInfo` without its fairness, step by step. That the code of
`CheckFiles` reports the first refused file needs that a set of indices has a least
element, which the library's theorems on well-founded relations give.

`IntegrationDOClientProofs` proves both properties of `do_client`, for any
processes, directories and versions with any lists of files, and for any number of
runs. It assumes that the lines the program is called with name directories of the
model (`LineAssumption`), which TLC evaluates for those of the run. That a download is
stopped by the end of its run is not assumed. `IInv` says why
`UntouchedFilesAreWhole` lasts: what others are at in the directory of a run is
always among what the run knows to be touched (`ClaimsOK`); a run has every other
file of its version whole, in its list of files to do, or found there (`RunOf`); and
once it has succeeded nobody is at a file that it answers for (`DoneOK`): a download
left over was at it before and is known, and a later run finds the file there.

`SFSUrlBuilderProofs` proves every property of `sfs_urls`, for any names, custom
URLs and escaping that satisfy `NameAssumption`, `EscapeAssumption` and
`UrlAssumption`: names are not empty, a custom URL has an absolute path, and an
escaped character is never a slash and tells what it was. The number of calls, of
failures and of the characters of a name has no bound. The argument has two halves.

- `UrlIsTheRequested` and `PathSettles` are kept by `IInv`, which says for each
  place in a row what the row has done so far: `BaseOK`, that scheme and host are
  the constructor's; `PathFits`, that `m_path` and libcurl's path agree while the
  path is settled; and `RowOK`, that after i appended elements the path is the one of
  the first i elements of the request (`Built`), and `m_path` is the same without
  its first slash. `RowLayout` says which method comes where in each row, `RowStep`
  what a method that succeeds adds.
- `UrlsIdentifyRequests` is about the paths themselves. `PathsProperties` shows that
  the recursive function `Paths` is defined and satisfies its equation; the
  induction over numbers that this needs is carried out for one set at a time, from
  the least number that is not in it. A path is then taken apart from its end:
  escaped elements hold no slash, so the last slash of two equal paths is at one
  place, what follows it is one element, and escaping can be undone
  (`EncodeProperties`, `LastElement`, `PathsDetermine`). The query tells
  the endpoint, and then the elements the names (`UrlsDiffer`).

`RequestsProofs` proves every property of `requests`, for any products, any
documents that satisfy `AnswerAssumption`, any case folding, and answers that are
lists of any length. It starts from the documents: `VersionsAreRead` and
`FilesAreRead` show that the checks accept every document that says something, with
whatever other members, and make of it what it says; `NoVersionIsRefused` and
`NoFileIsRefused`, that they refuse every document that says nothing. For each of
the requests, an answer is then delivered exactly when it is `Usable`
(`VersionIsUsable`, `BatchIsUsable`, `FileListIsUsable`), which gives
`EntitiesAreMeant` and `PromisedIsAccepted`: what the interface promises of the
version asked for and of all products of a batch is left free, since the code accepts
an answer without it but need not. `IInv` adds that an answer that is being
dealt with has the meaning of its documents, one by one (`AnswerFits`). Of the
conversion, `RefusalTells` says what each code means, and `ConversionKeeps` that a
file keeps all it has, with hashes and architectures under their own names; that a list
with a defect has a first one is again the least element of a set.

`SFSClientToolProofs` proves every property of `tool`, for any lines of any length,
any strings and any contents that the library may deliver. It assumes what the module
does of its constants: that answers are contents as the API has them
(`AnswersAssumption`), that a command line is put together as `CommandLine` says
(`LineAssumption`), and that `Nothing` is nothing else (`NothingAssumption`). The
second leaves nothing out: `ArgumentsAreLines` shows that whatever strings the program
is called with are such a line. The argument has three parts.

- The parser reads argument by argument, the meaning of a line is about all of its
  options at once, and a value can look like an option. `ReadSoFar` says what the
  parser holds after the arguments of the first n options: settings that fit what
  these say (`Fits`) as long as they are in order (`Good`), a complaint when they are
  not, or a switch that still waits for its value, which only the last option can be.
  `ReadStep` adds one option, `ParseIsMeaning` is the result for the whole line. The
  recursive functions `Readers` and `Lines` are first shown to be defined, and the
  induction over numbers is again for one set at a time.
- `ContentDescribed`: what `ContentJson` makes of a content is accepted by the checks
  of `Entities`, and read back as that content, file by file (`FileIsRead`,
  `AppFileIsRead`, `FilesAreRead`, `PartDescribed`).
- `IInv` ties the stages together: the settings are the parser's (`SettingsOK`), the
  environment and the request are those of the settings (`RequestOK`), the JSON is
  the answer's, which has the type asked for (`AnswerOK`), and the file is touched
  only where no failure can follow (`FileOK`).

What a status of zero tells is stated three times, since it depends on what a system
keeps of one. `ZeroMeansSuccessOrUnseen`, for any system that keeps eight bits or more,
says that nothing `main` looks at has failed, or that the code of a failure has nothing
in the bits kept (`Unseen`). Where all of a code is kept, as in `tool`, there are no
such failures (`ZeroMeansSuccess`); where eight bits are kept there are four
(`ZeroMayHideFourFailures`), and `tool_exit_status` shows one. `GoingOnOK`, a part of
`IInv`, is what these need: that `main` goes on only without a failure, and writes only
to a file that it has opened.

`EveryCallReturns`, `SomeoneGetsIn` and the fairness part of the two refinements
(`ImplementsHttpRequest`, `ImplementsDownloadInfo`) are liveness, which the prover does
not do: TLC checks them, and only it. Every other property of a passing run is proved.

## Where the code and its documents differ

Two runs show a violation:

- `tool_exit_status`: `main` returns the result code, of which a POSIX system keeps
  eight bits: `ConnectionSetupFailed`, `HttpTimeout`, `HttpBadRequest` and
  `ServiceInvalidResponse` end the tool with status zero.
- `environment_empty`: the test of `ScopedEnv` says "Variable goes back to previous
  value"; an empty value is not put back, because `SetEnv` refuses it.

These were met while modelling. The models follow the code, and no run is spent on
them:

- The names of the retry tests (`CurlConnectionTests.cpp:476`) compute the waits as
  "50ms + 2*50ms + 3*50ms"; the code doubles (`CurlConnection.cpp:426`), as API.md
  says, and waits 350 ms.
- `TestOverride.h:39` says that `GetTestOverrideAsInt` returns nothing "in case of
  failure"; `std::stoi` throws.
- `UrlBuilder.h:117` says of `SetUrl` that "Other methods can still be called later to
  modify the URl"; what `AppendPath` appends then goes to the path before it, because
  `m_path` does not follow (`UrlBuilder.cpp:183`, `:133`).
- `SFSClientInterface.h:68` promises the latest versions of all products asked for;
  an answer that leaves one out is accepted (`SFSClientImpl.cpp:93`).
- `SFSClientInterface.h:75` promises the version asked for; the version of the
  answer is not compared (`SFSClientImpl.cpp:265`).
- The tool refuses `-v` alone, although its README (`:77`) shows it so
  (`SFSClientTool.cpp:177`); the other sample refuses help alone
  (`IntegrationDOClient.cpp:130`), against its own usage text (`:28`).
- The tool's README (`:57`) has an option "To save the JSON output to a file"; the
  tool says that the output is saved, and ends with zero, without looking whether all
  of it was written (`SFSClientTool.cpp:348`).

## Not modelled, and the plan

Left out, and why:

- Messages, colours, logging levels and the wording of failures: no property is
  about them. A logging callback that throws is modelled where the library reports a
  failure, and at those informational messages whose exception a property could see:
  in `Make` and before an entity is returned; not in `~CurlErrorBuffer`
  (`CurlConnection.cpp:74`), a destructor, where it would terminate the process.
- A `UrlBuilder` whose `curl_url()` fails (`UrlBuilder.cpp:48`): its constructor throws,
  and there is no builder to say anything of.
- `std::bad_alloc`, but for where libcurl reports it; the proxy string, which is
  passed on unread.
- `GetPath` and `GetQuery` of `UrlBuilder`, which only the tests call; URLs given to
  `SetUrl` that are relative or have dot segments. The path of a custom URL is
  dropped by the first `ResetPath`, and the model does so too.
- Duplicate keys of a JSON object: the parser keeps one of them before the library
  sees it.
- A logging callback that calls the client again, which API.md forbids and which
  would wait for itself; a Retry-After or a transfer that lasts for ever.
- An environment that changes in the middle of a call of the library.
- What runs of `IntegrationDOClient` that are at one file at the same time leave there
  is in the model, but nothing says what they promise each other: the properties are
  about the files that a run has to itself.
- The mock connection, the tests, the test servers and the scripts.

Still to come, in this order:

1. The comparisons of `ContentUtil` and the `Make` functions of the content types.
2. Several threads on one client: the calls of `SFSClientImpl` with the mutex of
   `ReportingHandler`.
