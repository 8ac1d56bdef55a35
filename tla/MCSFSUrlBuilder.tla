-------------------------- MODULE MCSFSUrlBuilder --------------------------
(* Values for model checking SFSUrlBuilder: names that contain what separates *)
(* the elements of a path, or that are words of it.                           *)
EXTENDS SFSUrlBuilder

MCCharacters  == Words \cup {c_apiDomain, "/", "a", "1"}
MCEscaped     == [c \in MCCharacters |-> IF c = "/" THEN "%2f" ELSE c]
MCAccountIds  == {<<"a">>}
MCUrls ==
  {[scheme |-> "http", host |-> <<"a">>, path |-> <<"/", "a">>,
    query |-> <<<<<<"a">>, <<"1">>>>>>]}
MCInstanceIds == {<<"a">>, <<"a", "/", "namespaces">>}
MCNameSpaces  == {<<"a">>}
MCProducts    == {<<"a">>, <<"a", "/", "versions", "/", "1">>}
MCStrings     == {<<>>, <<"a">>, <<"/">>, <<"/", "a">>, <<"a", "/">>}
MCNames       == {<<>>, <<"a">>}
MCVersions    == {<<"1">>, <<"latest">>, <<"1", "/", "versions", "/", "1">>}

=============================================================================
