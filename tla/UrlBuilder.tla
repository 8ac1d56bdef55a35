----------------------------- MODULE UrlBuilder -----------------------------
(***************************************************************************)
(* UrlBuilder: a libcurl URL handle, and beside it the path that has been  *)
(* built so far, kept as a string in m_path because libcurl can set a path *)
(* but not append to one.  Any method can fail, since libcurl may refuse   *)
(* the part or have no memory; the builder lives on.                       *)
(*                                                                         *)
(* A string is a sequence of characters, of which only the slash matters.  *)
(***************************************************************************)
EXTENDS Naturals, Sequences

CONSTANTS
  Characters,  \* what strings are made of
  Escaped,     \* what curl_easy_escape makes of each character
  Strings,     \* paths that methods are given
  Names,       \* hosts, keys and values that methods are given
  Urls,        \* complete URLs that methods are given
  CurlFails,   \* whether libcurl ever refuses something
  MaxLength,   \* bound: length of a path that is appended to
  Nothing      \* a URL, or a part of one, that is not there

Slash == "/"

VARIABLES
  handle,  \* the parts of the URL that m_handle has
  m_path,  \* the path so far
  held,    \* strings that libcurl has allocated and nobody has freed
  got,     \* the URL that GetUrl returned last
  result,  \* how the last method ended
  wanted,  \* history: the path that the successful methods ask for
  settled  \* history: no SetUrl and no failure since the path was last replaced

builder == <<handle, m_path, held, got, result, wanted, settled>>

EmptyUrl == [scheme |-> Nothing, host |-> Nothing, path |-> <<Slash>>, query |-> <<>>]

Init ==
  /\ handle = EmptyUrl
  /\ m_path = <<>>
  /\ held = 0
  /\ got = Nothing
  /\ result = "Success"
  /\ wanted = <<Slash>>
  /\ settled = TRUE

\* curl_easy_escape.
Encode(string) == [i \in DOMAIN string |-> Escaped[string[i]]]

\* libcurl puts a slash before a path that has none.
Absolute(path) == IF path # <<>> /\ Head(path) = Slash THEN path ELSE <<Slash>> \o path

\* A path that goes on from where it is put.
Relative(path) == path # <<>> => Head(path) # Slash

\* The code of the failure, or whatever the logging callback throws instead.
Throw(code) == result' \in {code, "ForeignException"}

Refuse == Throw("InvalidArg") /\ UNCHANGED <<handle, m_path, held, got, wanted, settled>>

\* THROW_IF_CURL_URL_SETUP_ERROR, after a call that leaves the handle alone.
CurlError ==
  /\ Throw("ConnectionUrlSetupFailed")
  /\ UNCHANGED <<handle, held, got, wanted>>
CurlRefuses == CurlFails /\ CurlError

\* A successful curl_url_set.
CurlSets(url) == handle' = url /\ result' = "Success" /\ UNCHANGED <<held, got>>

SetPart(url) ==
  /\ \/ CurlSets(url) /\ UNCHANGED wanted
     \/ CurlRefuses
  /\ UNCHANGED <<m_path, settled>>

SetScheme == SetPart([handle EXCEPT !.scheme = "https"])

SetHost(host) == IF host = <<>> THEN Refuse ELSE SetPart([handle EXCEPT !.host = host])

\* m_path has changed already when libcurl refuses it.
SetPathPart(path, settles) ==
  \/ CurlSets([handle EXCEPT !.path = Absolute(m_path')]) /\ wanted' = path /\ settled' = settles
  \/ CurlRefuses /\ settled' = FALSE

SetPath(path) ==
  IF path = <<>> THEN Refuse ELSE m_path' = path /\ SetPathPart(Absolute(path), TRUE)

WithSlash(path) ==
  IF path = <<>> \/ path[Len(path)] = Slash THEN path ELSE Append(path, Slash)

BugAppendUnencoded(path, encode) ==
  IF path = <<>> THEN Refuse
  ELSE /\ m_path' = WithSlash(m_path) \o path
       /\ SetPathPart(WithSlash(wanted) \o path, settled)

\* The slash is appended before the element is encoded, which may fail.
AppendPath(path, encode) ==
  IF path = <<>> THEN Refuse
  ELSE LET element == IF encode THEN Encode(path) ELSE path
       IN \/ /\ m_path' = WithSlash(m_path) \o element
             /\ SetPathPart(WithSlash(wanted) \o element, settled)
          \/ encode /\ m_path' = WithSlash(m_path) /\ CurlRefuses /\ settled' = FALSE

BugKeepPath ==
  /\ UNCHANGED m_path
  /\ \/ CurlSets([handle EXCEPT !.path = <<Slash>>]) /\ wanted' = <<Slash>> /\ settled' = TRUE
     \/ CurlRefuses /\ settled' = FALSE

ResetPath == m_path' = <<>> /\ SetPathPart(<<Slash>>, TRUE)

\* That a key or a value cannot be encoded ends as a refusal of libcurl does.
SetQuery(key, value) ==
  IF key = <<>> \/ value = <<>> THEN Refuse
  ELSE SetPart([handle EXCEPT !.query = <<<<Encode(key), Encode(value)>>>>])

AppendQuery(key, value) ==
  IF key = <<>> \/ value = <<>> THEN Refuse
  ELSE SetPart([handle EXCEPT !.query = Append(@, <<Encode(key), Encode(value)>>)])

ResetQuery == SetPart([handle EXCEPT !.query = <<>>])

\* The URL is replaced as a whole; m_path stays what it is.
SetUrl(url) ==
  IF url = Nothing THEN Refuse
  ELSE /\ \/ CurlSets(url) /\ wanted' = url.path /\ settled' = FALSE
          \/ CurlRefuses /\ UNCHANGED settled
       /\ UNCHANGED m_path

\* The string that libcurl allocates is copied, and stays allocated.
GetUrl ==
  /\ IF Nothing \in {handle.scheme, handle.host} THEN CurlError
     ELSE \/ /\ got' = handle
             /\ held' = held + 1
             /\ result' = "Success"
             /\ UNCHANGED <<handle, wanted>>
          \/ CurlRefuses
  /\ UNCHANGED <<m_path, settled>>

-----------------------------------------------------------------------------
(* Any use of the methods that build a URL.  What is appended as it is does not *)
(* begin with a slash, which would or would not be doubled depending on what   *)
(* the path was set to.                                                        *)

Next ==
  \/ SetScheme \/ ResetPath \/ ResetQuery
  \/ \E host \in Names : SetHost(host)
  \/ \E path \in Strings : SetPath(path)
  \/ \E path \in Strings, encode \in BOOLEAN :
       /\ encode \/ Relative(path)
       /\ Len(m_path) < MaxLength /\ Len(wanted) < MaxLength
       /\ AppendPath(path, encode)
  \/ \E key, value \in Names : SetQuery(key, value)
  \/ \E key, value \in Names : handle.query = <<>> /\ AppendQuery(key, value)
  \/ \E url \in Urls \cup {Nothing} : SetUrl(url)
  \/ held = 0 /\ GetUrl

-----------------------------------------------------------------------------
(* Correctness. *)

(* The URL has the path that the caller's methods ask for: the one that was    *)
(* set, and every element that has been appended to it.                        *)
PathIsWanted == handle.path = wanted

(* SetPath and ResetPath put the path back in step with the URL, whatever has  *)
(* failed before them, and appending keeps it so.                              *)
PathSettles == settled => PathIsWanted

=============================================================================
