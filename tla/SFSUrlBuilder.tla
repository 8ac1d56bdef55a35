--------------------------- MODULE SFSUrlBuilder ---------------------------
(***************************************************************************)
(* A builder of URLs, of one of two kinds.  An SFSUrlBuilder makes the     *)
(* URLs of the service's endpoints, each by a row of UrlBuilder's methods, *)
(* and goes on from the URL that it made before, or from wherever a method *)
(* failed.  A plain UrlBuilder has any of its methods called.              *)
(***************************************************************************)
EXTENDS Naturals, Sequences

CONSTANTS
  Characters,   \* what strings are made of, the words of the code being one each
  Escaped,      \* what curl_easy_escape makes of each character
  AccountIds,
  Urls,         \* custom URLs
  InstanceIds,
  NameSpaces,
  Products,     \* names of products
  Versions,
  Strings,      \* paths that the methods of a plain builder are given
  Names,        \* hosts, keys and values that they are given
  CurlFails,    \* whether libcurl ever refuses something
  MaxCalls,     \* bound: URLs asked of a builder
  MaxLength,    \* bound: length of a plain builder's path that is appended to
  Nothing       \* a URL, or a part of one, that is not there

VARIABLES
  handle, m_path, held, got, result, wanted, settled,  \* see UrlBuilder
  m_instanceId,
  m_nameSpace,
  base,     \* the scheme and host that the builder was made with
  pc,       \* where the builder is
  request,  \* the request whose URL is being made
  todo,     \* the methods of UrlBuilder still to be called for it
  calls,    \* URLs asked for so far
  urls      \* history: each request whose URL has been made, with it

builder == <<handle, m_path, held, got, result, wanted, settled>>
members == <<m_instanceId, m_nameSpace>>
vars    == <<builder, members, base, pc, request, todo, calls, urls>>

Builder == INSTANCE UrlBuilder

\* The strings of the code that are parts of URLs.
Words == {"api", "v2", "contents", "namespaces", "names", "versions", "latest", "files",
          "action", "select", "BatchUpdates", "GenerateDownloadInfo"}
c_apiDomain == ".api.cdp.microsoft.com"

ASSUME NameAssumption ==
  /\ Words \cup {c_apiDomain} \subseteq Characters
  /\ AccountIds \cup InstanceIds \cup NameSpaces \cup Products \cup Versions
       \subseteq Seq(Characters) \ {<<>>}

\* An escaped character tells what it was and is never a slash; the words of the
\* code, which are letters and digits, are left as they are.
ASSUME EscapeAssumption ==
  /\ Builder!Slash \in Characters
  /\ \A word \in Words : Escaped[word] = word
  /\ \A c \in Characters : Escaped[c] # Builder!Slash
  /\ \A c, d \in Characters : Escaped[c] = Escaped[d] => c = d

\* A URL has these parts and no other.
IsUrl(url) ==
  url = [scheme |-> url.scheme, host |-> url.host, path |-> url.path, query |-> url.query]

ASSUME UrlAssumption ==
  /\ Strings \cup Names \subseteq Seq(Characters)
  /\ \A url \in Urls :
       IsUrl(url) /\ url.path \in Seq(Characters) \ {<<>>} /\ Head(url.path) = Builder!Slash
ASSUME BoundAssumption ==
  CurlFails \in BOOLEAN /\ MaxLength \in Nat /\ MaxCalls \in Nat

-----------------------------------------------------------------------------
(* The rows of methods. *)

Method(name, arg)     == [name |-> name, arg |-> arg]
AppendWord(word)      == Method("AppendPath", <<word>>)
AppendEncoded(string) == Method("AppendPathEncoded", string)
SetAction(word)       == Method("SetQuery", <<word>>)

ConstructForAccount(accountId) ==
  <<Method("SetScheme", Nothing), Method("SetHost", Append(accountId, c_apiDomain))>>

ConstructForUrl(customUrl) == <<Method("SetUrl", customUrl)>>

BugSetNamesUrlPath ==
  <<Method("ResetPath", Nothing), AppendWord("api"), AppendWord("v2"),
    AppendWord("contents"), AppendEncoded(m_instanceId),
    AppendWord("namespaces"), AppendEncoded(m_nameSpace), AppendWord("names")>>

SetNamesUrlPath ==
  <<Method("ResetPath", Nothing), Method("ResetQuery", Nothing),
    AppendWord("api"), AppendWord("v2"), AppendWord("contents"), AppendEncoded(m_instanceId),
    AppendWord("namespaces"), AppendEncoded(m_nameSpace), AppendWord("names")>>

SetVersionsUrlPath(product) ==
  SetNamesUrlPath \o <<AppendEncoded(product), AppendWord("versions")>>

GetLatestVersionUrl(product) ==
  SetVersionsUrlPath(product) \o <<AppendWord("latest"), SetAction("select")>>

GetLatestVersionBatchUrl == Append(SetNamesUrlPath, SetAction("BatchUpdates"))

GetSpecificVersionUrl(product, version) ==
  Append(SetVersionsUrlPath(product), AppendEncoded(version))

GetDownloadInfoUrl(product, version) ==
  SetVersionsUrlPath(product)
    \o <<AppendEncoded(version), AppendWord("files"), SetAction("GenerateDownloadInfo")>>

Requests ==
  [endpoint : {"latestBatch"}] \cup [endpoint : {"latest"}, product : Products]
    \cup [endpoint : {"version", "files"}, product : Products, version : Versions]

Row(r) ==
  CASE r.endpoint = "latest"      -> GetLatestVersionUrl(r.product)
    [] r.endpoint = "latestBatch" -> GetLatestVersionBatchUrl
    [] r.endpoint = "version"     -> GetSpecificVersionUrl(r.product, r.version)
    [] r.endpoint = "files"       -> GetDownloadInfoUrl(r.product, r.version)

-----------------------------------------------------------------------------

ConstructSFSUrlBuilder ==
  /\ pc = "constructing"
  /\ m_instanceId \in InstanceIds
  /\ m_nameSpace \in NameSpaces
  /\ \/ \E accountId \in AccountIds :
          /\ base = [scheme |-> "https", host |-> Append(accountId, c_apiDomain)]
          /\ todo = ConstructForAccount(accountId)
     \/ \E customUrl \in Urls :
          /\ base = [scheme |-> customUrl.scheme, host |-> customUrl.host]
          /\ todo = ConstructForUrl(customUrl)

ConstructUrlBuilder ==
  /\ pc = "plain"
  /\ m_instanceId = Nothing
  /\ m_nameSpace = Nothing
  /\ base = Nothing
  /\ todo = <<>>

Init ==
  /\ Builder!Init
  /\ ConstructSFSUrlBuilder \/ ConstructUrlBuilder
  /\ request = Nothing
  /\ calls = 0
  /\ urls = {}

Perform(m) ==
  CASE m.name = "SetScheme"         -> Builder!SetScheme
    [] m.name = "SetHost"           -> Builder!SetHost(m.arg)
    [] m.name = "SetUrl"            -> Builder!SetUrl(m.arg)
    [] m.name = "ResetPath"         -> Builder!ResetPath
    [] m.name = "ResetQuery"        -> Builder!ResetQuery
    [] m.name = "AppendPath"        -> Builder!AppendPath(m.arg, FALSE)
    [] m.name = "AppendPathEncoded" -> Builder!AppendPath(m.arg, TRUE)
    [] m.name = "SetQuery"          -> Builder!SetQuery(<<"action">>, m.arg)
    [] m.name = "GetUrl"            -> Builder!GetUrl

\* An exception ends the row; one in the constructor leaves no builder.
Step ==
  /\ pc \in {"constructing", "calling"}
  /\ todo # <<>>
  /\ Perform(Head(todo))
  /\ IF result' = "Success" THEN todo' = Tail(todo) /\ UNCHANGED pc
     ELSE todo' = <<>> /\ pc' = IF pc = "calling" THEN "ready" ELSE "gone"
  /\ urls' = IF Head(todo).name = "GetUrl" /\ result' = "Success" /\ request # Nothing
             THEN urls \cup {[request |-> request, url |-> got']} ELSE urls
  /\ UNCHANGED <<members, base, request, calls>>

Finish ==
  /\ pc \in {"constructing", "calling"}
  /\ todo = <<>>
  /\ pc' = "ready"
  /\ UNCHANGED <<builder, members, base, request, todo, calls, urls>>

Call(r, row) ==
  /\ pc = "ready"
  /\ calls < MaxCalls
  /\ pc' = "calling"
  /\ request' = r
  /\ todo' = Append(row, Method("GetUrl", Nothing))
  /\ calls' = calls + 1
  /\ UNCHANGED <<builder, members, base, urls>>

Destroy ==
  /\ pc = "ready"
  /\ pc' = "gone"
  /\ UNCHANGED <<builder, members, base, request, todo, calls, urls>>

Use ==
  /\ pc = "plain"
  /\ Builder!Next
  /\ UNCHANGED <<members, base, pc, request, todo, calls, urls>>

\* An SFSUrlBuilder's GetUrl may be called by itself, too.
Next ==
  \/ Step \/ Finish \/ Destroy \/ Use
  \/ \E r \in Requests : Call(r, Row(r))
  \/ Call(Nothing, <<>>)

Spec == Init /\ [][Next]_vars

-----------------------------------------------------------------------------
(* Correctness. *)

\* What each URL should be.
Paths(elements) ==
  LET Prefix[i \in 0 .. Len(elements)] ==
        IF i = 0 THEN <<>> ELSE Prefix[i - 1] \o <<Builder!Slash>> \o elements[i]
  IN  Prefix
Path(elements) == Paths(elements)[Len(elements)]

NamesUrlPath == <<<<"api">>, <<"v2">>, <<"contents">>, Builder!Encode(m_instanceId),
                  <<"namespaces">>, Builder!Encode(m_nameSpace), <<"names">>>>

Elements(r) ==
  IF r.endpoint = "latestBatch" THEN NamesUrlPath
  ELSE NamesUrlPath \o <<Builder!Encode(r.product), <<"versions">>>>
         \o CASE r.endpoint = "latest"  -> <<<<"latest">>>>
              [] r.endpoint = "version" -> <<Builder!Encode(r.version)>>
              [] r.endpoint = "files"   -> <<Builder!Encode(r.version), <<"files">>>>

Actions == [latest |-> "select", latestBatch |-> "BatchUpdates", files |-> "GenerateDownloadInfo"]

UrlOf(r) ==
  [scheme |-> base.scheme, host |-> base.host, path |-> Path(Elements(r)),
   query  |-> IF r.endpoint = "version" THEN <<>>
              ELSE <<<<<<"action">>, <<Actions[r.endpoint]>>>>>>]

(* Every URL is that of the request it was asked for, on the builder's base,   *)
(* whatever URLs the builder has made before and wherever making one failed.   *)
UrlIsTheRequested == \A made \in urls : made.url = UrlOf(made.request)

(* Different requests have different URLs, slashes and words of the paths in   *)
(* the names of products and versions notwithstanding.                         *)
UrlsIdentifyRequests ==
  \A made, other \in urls : made.url = other.url => made.request = other.request

(* Whatever libcurl has refused, a path that is set or reset is again the      *)
(* URL's, and appending to it keeps it so: the URL has the elements that the   *)
(* caller's methods ask for, and no other.                                     *)
PathSettles == Builder!PathSettles

-----------------------------------------------------------------------------
(* The inductive invariant behind these properties.                            *)

\* Characters of URLs, and the methods that rows are made of.
Chars == Characters \cup {Escaped[c] : c \in Characters}
Methods ==
  [name : {"SetScheme", "SetHost", "ResetPath", "ResetQuery", "SetQuery", "GetUrl"},
   arg  : Seq(Characters) \cup {Nothing}]
    \cup [name : {"SetUrl"}, arg : Urls]
    \cup [name : {"AppendPath"}, arg : {<<word>> : word \in Words}]
    \cup [name : {"AppendPathEncoded"}, arg : Seq(Characters) \ {<<>>}]

TypeOK ==
  /\ m_path \in Seq(Chars) /\ wanted \in Seq(Chars)
  /\ IsUrl(handle)
  /\ pc \in {"constructing", "ready", "calling", "gone", "plain"}
  /\ pc # "plain" => m_instanceId \in InstanceIds /\ m_nameSpace \in NameSpaces
  /\ pc = "plain" => urls = {}
  /\ request \in Requests \cup {Nothing}
  /\ todo \in Seq(Methods)
  /\ \A made \in urls : made.request \in Requests

(* As long as the path is settled, m_path is what libcurl was given of it.     *)
PathFits == settled => handle.path = wanted /\ Builder!Absolute(m_path) = wanted

HasBase == handle.scheme = base.scheme /\ handle.host = base.host

(* No row touches the base that the constructor has set.                       *)
BaseOK ==
  /\ pc \in {"ready", "calling"} => HasBase
  /\ pc = "constructing" =>
       \/ \E accountId \in AccountIds :
            /\ base = [scheme |-> "https", host |-> Append(accountId, c_apiDomain)]
            /\ \/ todo = ConstructForAccount(accountId)
               \/ todo = Tail(ConstructForAccount(accountId)) /\ handle.scheme = base.scheme
       \/ \E customUrl \in Urls :
            /\ base = [scheme |-> customUrl.scheme, host |-> customUrl.host]
            /\ todo = ConstructForUrl(customUrl)
       \/ todo = <<>> /\ HasBase

\* The path has the first i elements, and m_path has them without the first slash.
Built(elements, i) ==
  IF i = 0 THEN m_path = <<>>
  ELSE /\ Paths(elements)[i] = <<Builder!Slash>> \o m_path
       /\ handle.path = <<Builder!Slash>> \o m_path
       /\ m_path # <<>>
       /\ Head(m_path) # Builder!Slash /\ m_path[Len(m_path)] # Builder!Slash

\* What is left of a request's row, from its k-th method on.
Left(r, k) ==
  LET row == Append(Row(r), Method("GetUrl", Nothing)) IN SubSeq(row, k, Len(row))

(* While a row is being performed, what it has done is what the URL has of the *)
(* request, whatever was there before the row.                                 *)
RowOK ==
  pc = "calling" =>
    \/ todo = <<>>
    \/ request = Nothing /\ todo = <<Method("GetUrl", Nothing)>>
    \/ /\ request \in Requests
       /\ \/ todo = Left(request, 1)
          \/ todo = Left(request, 2) /\ m_path = <<>>
          \/ \E i \in 0 .. Len(Elements(request)) :
               /\ todo = Left(request, i + 3)
               /\ Built(Elements(request), i)
               /\ handle.query = <<>>
          \/ todo = <<Method("GetUrl", Nothing)>> /\ handle = UrlOf(request)

IInv == TypeOK /\ PathFits /\ BaseOK /\ RowOK /\ UrlIsTheRequested

=============================================================================
