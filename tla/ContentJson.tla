---------------------------- MODULE ContentJson ----------------------------
(***************************************************************************)
(* What SFSClientTool prints: contents as JSON documents, whose parts have *)
(* the format of the service's own.                                        *)
(***************************************************************************)
EXTENDS Entities

CONSTANT AllStrings  \* the strings that contents, and arguments, are made of

(* The contents of the library's interface. *)

ContentIds == [nameSpace : AllStrings, name : AllStrings, version : AllStrings]

\* A file may lack the hashes of some types.
HashMaps ==
  [{} -> AllStrings] \cup [{"Sha1"} -> AllStrings] \cup [{"Sha256"} -> AllStrings] \cup [HashTypes -> AllStrings]

Files ==
  [type : {"Generic"}, fileId : AllStrings, url : AllStrings, sizeInBytes : Nat, hashes : HashMaps]

AppFiles ==
  [type : {"App"}, fileId : AllStrings, url : AllStrings, sizeInBytes : Nat, hashes : HashMaps,
   fileMoniker : AllStrings, architectures : Seq(Architectures), platforms : Seq(AllStrings)]

Contents == [type : {"Generic"}, contentId : ContentIds, files : Seq(Files)]

\* Prerequisites have no prerequisites of their own.
AppPrerequisites == [contentId : ContentIds, files : Seq(AppFiles)]

AppContents ==
  [type : {"App"}, contentId : ContentIds, updateId : AllStrings, files : Seq(AppFiles),
   prerequisites : Seq(AppPrerequisites)]

-----------------------------------------------------------------------------
(* Their JSON. *)

ContentIdToJson(id) ==
  JsonObject([Namespace |-> JsonString(id.nameSpace), Name |-> JsonString(id.name),
              Version   |-> JsonString(id.version)])

Strings(texts) == JsonArray([i \in DOMAIN texts |-> JsonString(texts[i])])

HashesToJson(hashes) == JsonObject([type \in DOMAIN hashes |-> JsonString(hashes[type])])

FileToJson(file) ==
  JsonObject([FileId      |-> JsonString(file.fileId),
              Url         |-> JsonString(file.url),
              SizeInBytes |-> JsonUnsigned(file.sizeInBytes),
              Hashes      |-> HashesToJson(file.hashes)])

DetailsToJson(architectures, platforms) ==
  JsonObject([Architectures                   |-> Strings(architectures),
              PlatformApplicabilityForPackage |-> Strings(platforms)])

BugAppFileToJson(file) ==
  JsonObject([FileId               |-> JsonString(file.fileId),
              Url                  |-> JsonString(file.url),
              SizeInBytes          |-> JsonUnsigned(file.sizeInBytes),
              FileMoniker          |-> JsonString(file.fileMoniker),
              Hashes               |-> HashesToJson(file.hashes),
              ApplicabilityDetails |-> DetailsToJson(file.architectures, file.architectures)])

AppFileToJson(file) ==
  JsonObject([FileId               |-> JsonString(file.fileId),
              Url                  |-> JsonString(file.url),
              SizeInBytes          |-> JsonUnsigned(file.sizeInBytes),
              FileMoniker          |-> JsonString(file.fileMoniker),
              Hashes               |-> HashesToJson(file.hashes),
              ApplicabilityDetails |-> DetailsToJson(file.architectures, file.platforms)])

FilesToJson(files) ==
  JsonArray([i \in DOMAIN files |->
               IF files[i].type = "App" THEN AppFileToJson(files[i]) ELSE FileToJson(files[i])])

PartToJson(part) ==
  JsonObject([ContentId |-> ContentIdToJson(part.contentId), Files |-> FilesToJson(part.files)])

\* The content of an app has an UpdateId and prerequisites, which are contents, too.
ContentToJson(content) ==
  IF content.type = "Generic" THEN PartToJson(content)
  ELSE JsonObject([ContentId     |-> ContentIdToJson(content.contentId),
                   UpdateId      |-> JsonString(content.updateId),
                   Files         |-> FilesToJson(content.files),
                   Prerequisites |-> JsonArray([i \in DOMAIN content.prerequisites |->
                                                  PartToJson(content.prerequisites[i])])])

ContentsToJson(contents) == JsonArray([i \in DOMAIN contents |-> ContentToJson(contents[i])])

-----------------------------------------------------------------------------
(* Reading it as the library reads the service's documents. *)

Describes(json, part) ==
  /\ json.kind = "object"
  /\ Has(json, "ContentId", "object") /\ IsContentId(json.members["ContentId"])
  /\ ContentIdOf(json.members["ContentId"]) = part.contentId
  /\ Has(json, "Files", "array") /\ IsFileList(json.members["Files"])
  /\ FilesOf(json.members["Files"]) = part.files

DescribesApp(json, content) ==
  /\ Describes(json, content)
  /\ HasStrings(json, {"UpdateId"}) /\ Text(json, "UpdateId") = content.updateId
  /\ Has(json, "Prerequisites", "array")
  /\ DOMAIN Elements(json, "Prerequisites") = DOMAIN content.prerequisites
  /\ \A i \in DOMAIN content.prerequisites :
       Describes(Elements(json, "Prerequisites")[i], content.prerequisites[i])

=============================================================================
