-------------------------- MODULE MCSFSClientTool --------------------------
(* Values for model checking SFSClientTool: lines of up to three options,    *)
(* alone or after those that are required; values may look like options.     *)
EXTENDS SFSClientTool, SequencesExt

Piece(typed, option, value) == [typed |-> typed, option |-> option, value |-> value]

Required == <<Piece("--product", "product", "p"), Piece("--ACCOUNTID", "accountId", "a")>>

Options ==
  {Piece("--help", "help", Nothing), Piece("-H", "help", Nothing),
   Piece("--version", "version", Nothing), Piece("-v", "version", Nothing),
   Piece("--isApp", "isApp", Nothing), Piece("--what", Nothing, Nothing),
   Piece("-o", "outputFile", "f"), Piece("--outputFile", "outputFile", ""),
   Piece("--product", "product", ""), Piece("--product", "product", "--isApp"),
   Piece("--accountId", "accountId", "a"), Piece("--instanceId", "instanceId", "i"),
   Piece("--namespace", "namespace", "--namespace"), Piece("--customUrl", "customUrl", "u")}

\* A line may end with an option whose value is missing.
Ends == {<<>>, <<Piece("--product", "product", Nothing)>>, <<Piece("-o", "outputFile", Nothing)>>}

MCCommandLines ==
  {start \o options \o end : start \in {<<>>, Required}, options \in BoundedSeq(Options, 2), end \in Ends}
    \cup {Required \o options : options \in [1 .. 3 -> Options \ {Piece("--what", Nothing, Nothing)}]}

Id(name) == [nameSpace |-> "ns", name |-> name, version |-> "1"]
File(id, hashes) ==
  [type |-> "Generic", fileId |-> id, url |-> "url", sizeInBytes |-> 3, hashes |-> hashes]
AppFile(id, architectures) ==
  [type |-> "App", fileId |-> id, url |-> "url", sizeInBytes |-> 3, hashes |-> [Sha1 |-> "h"],
   fileMoniker |-> "m", architectures |-> architectures, platforms |-> <<"Windows">>]
App(files, prerequisites) ==
  [type |-> "App", contentId |-> Id("p"), updateId |-> "u", files |-> files,
   prerequisites |-> prerequisites]

MCAnswers ==
  {[type |-> "Generic", contentId |-> Id("p"), files |-> files] :
     files \in {<<>>, <<File("f", [Sha1 |-> "h", Sha256 |-> "h2"]), File("g", [Sha1 |-> "h"])>>}}
    \cup {App(<<>>, <<>>),
          App(<<AppFile("f", <<>>), AppFile("g", <<"x86", "arm">>)>>,
              <<[contentId |-> Id("q"), files |-> <<AppFile("h", <<"None">>)>>],
                [contentId |-> Id("r"), files |-> <<>>]>>)}

Typed ==
  {"--help", "-H", "--version", "-v", "--isApp", "--what", "-o", "--outputFile", "--product",
   "--accountId", "--ACCOUNTID", "--instanceId", "--namespace", "--customUrl", "-h",
   "p", "a", "f", "i", "u", ""}
MCStrings ==
  Typed \cup {"ns", "q", "r", "1", "url", "m", "g", "h", "h2", "Windows"}
MCLower ==
  [s \in Typed |-> CASE s = "-H" -> "-h" [] s \in {"--ACCOUNTID", "--accountId"} -> "--accountid"
                     [] OTHER -> s]

=============================================================================
