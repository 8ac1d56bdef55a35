----------------------- MODULE MCIntegrationDOClient -----------------------
(* Values for model checking IntegrationDOClient: two versions that share a  *)
(* file, and lines that download, ask for help, or are refused.              *)
EXTENDS IntegrationDOClient

Piece(typed, option, value) == [typed |-> typed, option |-> option, value |-> value]

product == Piece("--product", "product", "p")
help    == Piece("-h", "help", Nothing)

\* Values may look like options, a value or a product may be missing, an option may
\* be unknown or given twice.
MCLines ==
  {<<Piece("--accountId", "accountId", "--product"), product>>,
   <<product, Piece("--outDir", "outDir", "d")>>, <<>>, <<help>>,
   <<Piece("--help", "help", Nothing), product>>,
   <<product, Piece("--outDir", "outDir", ""), Piece("--Help", Nothing, Nothing)>>,
   <<product, Piece("--accountId", "accountId", Nothing)>>, <<product, product>>}

MCDirs    == {"", "d"}
MCFileIds == {"f", "g"}
MCFilesOf == <<<<"f">>, <<"f", "g">>>>

MCSymmetry == Permutations(Processes)

=============================================================================
