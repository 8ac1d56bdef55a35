------------------------------ MODULE Entities ------------------------------
(***************************************************************************)
(* VersionEntity and FileEntity: what the library makes of the service's   *)
(* JSON documents.  A document is checked as a whole, and every check that *)
(* fails refuses it in the same way, so that the checks are conditions     *)
(* here; what comes of a document that satisfies them is an entity.        *)
(*                                                                         *)
(* A JSON value has a kind, and with it a text, a number, the members of   *)
(* an object or the elements of an array.  The kind "unsigned" is that of  *)
(* the numbers that nlohmann::json keeps as unsigned.                      *)
(***************************************************************************)
EXTENDS Naturals, Sequences, TLC

CONSTANT Lower  \* std::tolower on the strings that are compared ignoring case

JsonString(text)     == [kind |-> "string", text |-> text]
JsonUnsigned(number) == [kind |-> "unsigned", number |-> number]
JsonObject(members)  == [kind |-> "object", members |-> members]
JsonArray(elements)  == [kind |-> "array", elements |-> elements]

AreEqualI(a, b) == Lower[a] = Lower[b]

Has(object, key, kind) ==
  key \in DOMAIN object.members /\ object.members[key].kind = kind

HasStrings(object, keys) == \A key \in keys : Has(object, key, "string")

\* object[key], of each kind.
Text(object, key)     == object.members[key].text
Elements(object, key) == object.members[key].elements
HasStringArray(object, key) ==
  /\ Has(object, key, "array")
  /\ \A i \in DOMAIN Elements(object, key) : Elements(object, key)[i].kind = "string"
Texts(object, key) ==
  [i \in DOMAIN Elements(object, key) |-> Elements(object, key)[i].text]

-----------------------------------------------------------------------------
(* Versions. *)

IsContentId(value) ==
  value.kind = "object" /\ HasStrings(value, {"Namespace", "Name", "Version"})

ContentIdOf(value) ==
  [nameSpace |-> Text(value, "Namespace"), name |-> Text(value, "Name"),
   version   |-> Text(value, "Version")]

BugIsVersion(data) ==
  /\ data.kind = "object"
  /\ Has(data, "ContentId", "object")
  /\ IsContentId(data.members["ContentId"])
  /\ "UpdateId" \in DOMAIN data.members =>
       HasStrings(data, {"UpdateId"}) /\ "Prerequisites" \in DOMAIN data.members
  /\ "Prerequisites" \in DOMAIN data.members =>
       /\ Has(data, "Prerequisites", "array")
       /\ \A i \in DOMAIN Elements(data, "Prerequisites") :
            IsContentId(Elements(data, "Prerequisites")[i])

\* An UpdateId makes it the version of an app, which has prerequisites.
IsVersion(data) ==
  /\ data.kind = "object"
  /\ Has(data, "ContentId", "object")
  /\ IsContentId(data.members["ContentId"])
  /\ "UpdateId" \in DOMAIN data.members =>
       /\ HasStrings(data, {"UpdateId"})
       /\ Has(data, "Prerequisites", "array")
       /\ \A i \in DOMAIN Elements(data, "Prerequisites") :
            IsContentId(Elements(data, "Prerequisites")[i])

VersionOf(data) ==
  LET contentId == ContentIdOf(data.members["ContentId"])
  IN  IF "UpdateId" \notin DOMAIN data.members
      THEN [type |-> "Generic", contentId |-> contentId]
      ELSE [type |-> "App", contentId |-> contentId, updateId |-> Text(data, "UpdateId"),
            prerequisites |-> [i \in DOMAIN Elements(data, "Prerequisites") |->
                                 ContentIdOf(Elements(data, "Prerequisites")[i])]]

-----------------------------------------------------------------------------
(* Files. *)

IsApplicabilityDetails(value) ==
  /\ value.kind = "object"
  /\ HasStringArray(value, "Architectures")
  /\ HasStringArray(value, "PlatformApplicabilityForPackage")

\* A moniker makes it the file of an app.
IsFile(file) ==
  /\ file.kind = "object"
  /\ HasStrings(file, {"FileId", "Url"})
  /\ Has(file, "SizeInBytes", "unsigned")
  /\ Has(file, "Hashes", "object")
  /\ HasStrings(file.members["Hashes"], DOMAIN file.members["Hashes"].members)
  /\ "FileMoniker" \in DOMAIN file.members =>
       /\ HasStrings(file, {"FileMoniker"})
       /\ "ApplicabilityDetails" \in DOMAIN file.members
       /\ IsApplicabilityDetails(file.members["ApplicabilityDetails"])

FileOf(file) ==
  LET hashes  == file.members["Hashes"].members
      details == file.members["ApplicabilityDetails"]
      generic == [type        |-> "Generic",
                  fileId      |-> Text(file, "FileId"),
                  url         |-> Text(file, "Url"),
                  sizeInBytes |-> file.members["SizeInBytes"].number,
                  hashes      |-> [name \in DOMAIN hashes |-> hashes[name].text]]
  IN  IF "FileMoniker" \notin DOMAIN file.members THEN generic
      ELSE [type          |-> "App",
            fileId        |-> generic.fileId,
            url           |-> generic.url,
            sizeInBytes   |-> generic.sizeInBytes,
            hashes        |-> generic.hashes,
            fileMoniker   |-> Text(file, "FileMoniker"),
            architectures |-> Texts(details, "Architectures"),
            platforms     |-> Texts(details, "PlatformApplicabilityForPackage")]

IsFileList(data) ==
  data.kind = "array" /\ \A i \in DOMAIN data.elements : IsFile(data.elements[i])

FilesOf(data) == [i \in DOMAIN data.elements |-> FileOf(data.elements[i])]

-----------------------------------------------------------------------------
(* From the entities to the files of the API. *)

HashTypes     == {"Sha1", "Sha256"}
Architectures == {"None", "x86", "amd64", "arm", "arm64"}

\* The values that a string of the service names.
Names(string, values) == {value \in values : AreEqualI(string, value)}

\* The code of the refusal, the content type being looked at first.
Refusal(entity, type) ==
  IF entity.type # type THEN "ServiceUnexpectedContentType"
  ELSE IF \/ \E name \in DOMAIN entity.hashes : Names(name, HashTypes) = {}
          \/ /\ type = "App"
             /\ \E i \in DOMAIN entity.architectures :
                  Names(entity.architectures[i], Architectures) = {}
  THEN "Unexpected" ELSE "Success"

HashTypesOf(entity) == UNION {Names(name, HashTypes) : name \in DOMAIN entity.hashes}

BugHashes(entity) ==
  {hashes \in [HashTypesOf(entity) -> {entity.hashes[name] : name \in DOMAIN entity.hashes}] :
     \A type \in HashTypesOf(entity) :
       \E name \in DOMAIN entity.hashes : hashes[type] = entity.hashes[name]}

\* Names that differ in case alone are one type, which gets the hash of any of
\* them: the entity's map has no order.
Hashes(entity) ==
  {hashes \in [HashTypesOf(entity) -> {entity.hashes[name] : name \in DOMAIN entity.hashes}] :
     \A type \in HashTypesOf(entity) :
       \E name \in DOMAIN entity.hashes :
         AreEqualI(name, type) /\ hashes[type] = entity.hashes[name]}

\* The files that may come of an entity that is not refused.
Conversions(entity) ==
  {IF entity.type = "Generic" THEN [entity EXCEPT !.hashes = hashes]
   ELSE [entity EXCEPT !.hashes = hashes,
                       !.architectures = [i \in DOMAIN entity.architectures |->
                          CHOOSE a \in Names(entity.architectures[i], Architectures) : TRUE]]
   : hashes \in Hashes(entity)}

=============================================================================
