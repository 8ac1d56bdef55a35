----------------------------- MODULE Documents -----------------------------
(***************************************************************************)
(* What the service's JSON documents say, told from their meaning and not  *)
(* from the library's checks: the reference that Requests is held to.      *)
(***************************************************************************)
EXTENDS Entities

\* An object has these members, and may have others.
HasMembers(json, members) ==
  /\ json.kind = "object"
  /\ \A key \in DOMAIN members :
       key \in DOMAIN json.members /\ json.members[key] = members[key]

SaysId(json, id) ==
  /\ id = [nameSpace |-> id.nameSpace, name |-> id.name, version |-> id.version]
  /\ HasMembers(json, [Namespace |-> JsonString(id.nameSpace), Name |-> JsonString(id.name),
                       Version   |-> JsonString(id.version)])

SaysIds(json, ids) ==
  /\ json.kind = "array"
  /\ ids = [i \in DOMAIN json.elements |-> ids[i]]
  /\ \A i \in DOMAIN json.elements : SaysId(json.elements[i], ids[i])

SaysTexts(json, texts) ==
  /\ json.kind = "array"
  /\ texts = [i \in DOMAIN json.elements |-> texts[i]]
  /\ \A i \in DOMAIN json.elements : json.elements[i] = JsonString(texts[i])

SaysVersion(json, version) ==
  /\ json.kind = "object"
  /\ "ContentId" \in DOMAIN json.members
  /\ SaysId(json.members["ContentId"], version.contentId)
  /\ IF "UpdateId" \notin DOMAIN json.members
     THEN version = [type |-> "Generic", contentId |-> version.contentId]
     ELSE /\ version = [type |-> "App", contentId |-> version.contentId,
                        updateId |-> version.updateId, prerequisites |-> version.prerequisites]
          /\ HasMembers(json, [UpdateId |-> JsonString(version.updateId)])
          /\ "Prerequisites" \in DOMAIN json.members
          /\ SaysIds(json.members["Prerequisites"], version.prerequisites)

GenericFields == {"type", "fileId", "url", "sizeInBytes", "hashes"}
AppFields     == GenericFields \cup {"fileMoniker", "architectures", "platforms"}

SaysFile(json, file) ==
  LET HasFields(fields) == file = [field \in fields |-> file[field]]
  IN  /\ file.hashes = [name \in DOMAIN file.hashes |-> file.hashes[name]]
      /\ HasMembers(json,
           [FileId      |-> JsonString(file.fileId),
            Url         |-> JsonString(file.url),
            SizeInBytes |-> JsonUnsigned(file.sizeInBytes),
            Hashes      |-> JsonObject([name \in DOMAIN file.hashes |->
                                          JsonString(file.hashes[name])])])
      /\ IF "FileMoniker" \notin DOMAIN json.members
         THEN HasFields(GenericFields) /\ file.type = "Generic"
         ELSE /\ HasFields(AppFields) /\ file.type = "App"
              /\ HasMembers(json, [FileMoniker |-> JsonString(file.fileMoniker)])
              /\ "ApplicabilityDetails" \in DOMAIN json.members
              /\ LET details == json.members["ApplicabilityDetails"]
                 IN  /\ details.kind = "object"
                     /\ {"Architectures", "PlatformApplicabilityForPackage"}
                          \subseteq DOMAIN details.members
                     /\ SaysTexts(details.members["Architectures"], file.architectures)
                     /\ SaysTexts(details.members["PlatformApplicabilityForPackage"],
                                  file.platforms)

-----------------------------------------------------------------------------
(* Documents that say nothing: a part of them is missing or of another kind.  *)

Lacks(json, key, kind) ==
  \/ json.kind # "object"
  \/ key \notin DOMAIN json.members
  \/ json.members[key].kind # kind

LacksTexts(json, key) ==
  \/ Lacks(json, key, "array")
  \/ \E i \in DOMAIN json.members[key].elements :
       json.members[key].elements[i].kind # "string"

SaysNoId(json) == \E key \in {"Namespace", "Name", "Version"} : Lacks(json, key, "string")

SaysNoVersion(json) ==
  \/ Lacks(json, "ContentId", "object")
  \/ SaysNoId(json.members["ContentId"])
  \/ /\ "UpdateId" \in DOMAIN json.members
     /\ \/ Lacks(json, "UpdateId", "string")
        \/ Lacks(json, "Prerequisites", "array")
        \/ \E i \in DOMAIN json.members["Prerequisites"].elements :
             SaysNoId(json.members["Prerequisites"].elements[i])

SaysNoFile(json) ==
  \/ \E key \in {"FileId", "Url"} : Lacks(json, key, "string")
  \/ Lacks(json, "SizeInBytes", "unsigned")
  \/ Lacks(json, "Hashes", "object")
  \/ \E name \in DOMAIN json.members["Hashes"].members :
       Lacks(json.members["Hashes"], name, "string")
  \/ /\ "FileMoniker" \in DOMAIN json.members
     /\ \/ Lacks(json, "FileMoniker", "string")
        \/ Lacks(json, "ApplicabilityDetails", "object")
        \/ \E key \in {"Architectures", "PlatformApplicabilityForPackage"} :
             LacksTexts(json.members["ApplicabilityDetails"], key)

=============================================================================
