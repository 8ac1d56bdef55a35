--------------------------- MODULE MCSFSClientImpl ---------------------------
(* Small instances of SFSClientImpl. *)
EXTENDS SFSClientImpl

MCStatuses    == {200, 404, 503}
MCProducts    == {"app", "framework"}

MCNameSpaces  == {"default", "windows"}

Id(name, version) == [nameSpace |-> "default", name |-> name, version |-> version]

\* No prerequisite, one of another product, and two of which one is the product.
MCPrerequisiteLists ==
  {<<>>, <<Id("framework", 1)>>, <<Id("framework", 2), Id("app", 1)>>}

Shape(app, known) == [app |-> app, known |-> known]

\* No file, one file of each type, and a good one before one that is not known.
MCFileLists ==
  {<<>>, <<Shape(TRUE, TRUE)>>, <<Shape(FALSE, TRUE)>>,
   <<Shape(TRUE, TRUE), Shape(TRUE, FALSE)>>, <<Shape(FALSE, FALSE), Shape(TRUE, TRUE)>>}

\* For several calls: one product, one prerequisite, one file or none.
MCFewStatuses          == {200, 503}
MCOneProduct           == {"app"}
MCOneNameSpace         == {"default"}
MCOnePrerequisiteList  == {<<Id("app", 1)>>}
MCFewFileLists         == {<<Shape(TRUE, TRUE)>>, <<Shape(FALSE, TRUE)>>}

=============================================================================
