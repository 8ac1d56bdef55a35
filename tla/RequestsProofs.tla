--------------------------- MODULE RequestsProofs ---------------------------
(***************************************************************************)
(* Proofs about Requests, for any documents that say what they are taken   *)
(* to mean or say nothing, lists of any length, and any number of calls.   *)
(***************************************************************************)
EXTENDS Requests, SequenceTheorems, WellFoundedInduction, TLAPS

-----------------------------------------------------------------------------
(* Documents: the checks accept those that say something, and what is made of  *)
(* them is what they say.                                                      *)

LEMMA IdsAreRead ==
  ASSUME NEW json, NEW id, SaysId(json, id)
  PROVE  IsContentId(json) /\ ContentIdOf(json) = id
  <1>1. /\ json.kind = "object"
        /\ {"Namespace", "Name", "Version"} \subseteq DOMAIN json.members
        /\ json.members["Namespace"] = JsonString(id.nameSpace)
        /\ json.members["Name"] = JsonString(id.name)
        /\ json.members["Version"] = JsonString(id.version)
    BY DEF SaysId, HasMembers
  <1>2. id = [nameSpace |-> id.nameSpace, name |-> id.name, version |-> id.version]
    BY DEF SaysId
  <1> QED
    BY <1>1, <1>2 DEF IsContentId, HasStrings, Has, ContentIdOf, Text, JsonString

LEMMA NoIdIsRefused ==
  ASSUME NEW json, SaysNoId(json)
  PROVE  ~IsContentId(json)
  BY DEF SaysNoId, Lacks, IsContentId, HasStrings, Has

LEMMA VersionsAreRead ==
  ASSUME NEW json, NEW version, SaysVersion(json, version)
  PROVE  IsVersion(json) /\ VersionOf(json) = version
  <1>1. /\ json.kind = "object" /\ "ContentId" \in DOMAIN json.members
        /\ SaysId(json.members["ContentId"], version.contentId)
    BY DEF SaysVersion
  <1>2. /\ IsContentId(json.members["ContentId"])
        /\ ContentIdOf(json.members["ContentId"]) = version.contentId
    BY <1>1, IdsAreRead
  <1>3. Has(json, "ContentId", "object")
    BY <1>1, <1>2 DEF Has, IsContentId
  <1>4. CASE "UpdateId" \notin DOMAIN json.members
    <2>1. version = [type |-> "Generic", contentId |-> version.contentId]
      BY <1>4 DEF SaysVersion
    <2> QED
      BY <1>1, <1>2, <1>3, <1>4, <2>1 DEF IsVersion, VersionOf
  <1>5. CASE "UpdateId" \in DOMAIN json.members
    <2> DEFINE list == json.members["Prerequisites"]
               ids  == version.prerequisites
    <2>1. /\ version = [type |-> "App", contentId |-> version.contentId,
                        updateId |-> version.updateId, prerequisites |-> ids]
          /\ HasMembers(json, [UpdateId |-> JsonString(version.updateId)])
          /\ "Prerequisites" \in DOMAIN json.members
          /\ SaysIds(list, ids)
      BY <1>5 DEF SaysVersion
    <2>2. json.members["UpdateId"] = JsonString(version.updateId)
      BY <2>1 DEF HasMembers
    <2>3. HasStrings(json, {"UpdateId"}) /\ Text(json, "UpdateId") = version.updateId
      BY <1>5, <2>2 DEF HasStrings, Has, Text, JsonString
    <2>4. /\ Has(json, "Prerequisites", "array") /\ Elements(json, "Prerequisites") = list.elements
          /\ ids = [i \in DOMAIN list.elements |-> ids[i]]
      BY <2>1 DEF SaysIds, Has, Elements
    <2>5. \A i \in DOMAIN list.elements :
            IsContentId(list.elements[i]) /\ ContentIdOf(list.elements[i]) = ids[i]
      BY <2>1, IdsAreRead DEF SaysIds
    <2>6. [i \in DOMAIN list.elements |-> ContentIdOf(list.elements[i])] = ids
      BY <2>4, <2>5
    <2>7. IsVersion(json)
      BY <1>1, <1>2, <1>3, <2>3, <2>4, <2>5 DEF IsVersion
    <2>8. VersionOf(json) = [type |-> "App", contentId |-> version.contentId,
                             updateId |-> version.updateId, prerequisites |-> ids]
      BY <1>2, <1>5, <2>3, <2>4, <2>6 DEF VersionOf
    <2> QED
      BY <2>1, <2>7, <2>8
  <1> QED
    BY <1>4, <1>5

LEMMA NoVersionIsRefused ==
  ASSUME NEW json, SaysNoVersion(json)
  PROVE  ~IsVersion(json)
  <1>1. CASE Lacks(json, "ContentId", "object")
    BY <1>1 DEF Lacks, IsVersion, Has
  <1>2. CASE SaysNoId(json.members["ContentId"])
    BY <1>2, NoIdIsRefused DEF IsVersion
  <1>3. CASE /\ "UpdateId" \in DOMAIN json.members
             /\ \/ Lacks(json, "UpdateId", "string")
                \/ Lacks(json, "Prerequisites", "array")
                \/ \E i \in DOMAIN json.members["Prerequisites"].elements :
                     SaysNoId(json.members["Prerequisites"].elements[i])
    <2>1. CASE Lacks(json, "UpdateId", "string") \/ Lacks(json, "Prerequisites", "array")
      BY <1>3, <2>1 DEF Lacks, IsVersion, Has, HasStrings
    <2>2. ASSUME NEW i \in DOMAIN json.members["Prerequisites"].elements,
                 SaysNoId(json.members["Prerequisites"].elements[i])
          PROVE  ~IsVersion(json)
      BY <1>3, <2>2, NoIdIsRefused DEF IsVersion, Elements
    <2> QED
      BY <1>3, <2>1, <2>2
  <1> QED
    BY <1>1, <1>2, <1>3 DEF SaysNoVersion

LEMMA TextsAreRead ==
  ASSUME NEW object, NEW key, NEW texts, key \in DOMAIN object.members,
         SaysTexts(object.members[key], texts)
  PROVE  HasStringArray(object, key) /\ Texts(object, key) = texts
  <1> DEFINE list == object.members[key].elements
  <1>1. /\ object.members[key].kind = "array"
        /\ texts = [i \in DOMAIN list |-> texts[i]]
        /\ \A i \in DOMAIN list : list[i] = JsonString(texts[i])
    BY DEF SaysTexts
  <1>2. ASSUME NEW i \in DOMAIN list
        PROVE  list[i].kind = "string" /\ list[i].text = texts[i]
    <2>1. list[i] = JsonString(texts[i])
      BY <1>1
    <2>2. list[i] = [kind |-> "string", text |-> texts[i]]
      BY <2>1 DEF JsonString
    <2> HIDE DEF list
    <2> QED
      BY <2>2
  <1>3. [i \in DOMAIN list |-> list[i].text] = texts
    BY <1>1, <1>2
  <1>4. HasStringArray(object, key)
    BY <1>1, <1>2 DEF HasStringArray, Has, Elements
  <1>5. Texts(object, key) = texts
    BY <1>3 DEF Elements, Texts
  <1> QED
    BY <1>4, <1>5

(* The fields that a file has depend on whether it is an app's. *)
LEMMA FileFields ==
  ASSUME NEW json, NEW file, SaysFile(json, file)
  PROVE  /\ file.type \in {"Generic", "App"}
         /\ file = IF file.type = "Generic"
                   THEN [type |-> "Generic", fileId |-> file.fileId, url |-> file.url,
                         sizeInBytes |-> file.sizeInBytes, hashes |-> file.hashes]
                   ELSE [type |-> "App", fileId |-> file.fileId, url |-> file.url,
                         sizeInBytes |-> file.sizeInBytes, hashes |-> file.hashes,
                         fileMoniker |-> file.fileMoniker,
                         architectures |-> file.architectures, platforms |-> file.platforms]
         /\ (file.type = "App") = ("FileMoniker" \in DOMAIN json.members)
  <1>1. CASE "FileMoniker" \notin DOMAIN json.members
    <2>1. file = [field \in GenericFields |-> file[field]] /\ file.type = "Generic"
      BY <1>1 DEF SaysFile
    <2>2. file = [type |-> "Generic", fileId |-> file.fileId, url |-> file.url,
                  sizeInBytes |-> file.sizeInBytes, hashes |-> file.hashes]
      BY <2>1 DEF GenericFields
    <2> QED
      BY <1>1, <2>1, <2>2
  <1>2. CASE "FileMoniker" \in DOMAIN json.members
    <2>1. file = [field \in AppFields |-> file[field]] /\ file.type = "App"
      BY <1>2 DEF SaysFile
    <2>2. file = [type |-> "App", fileId |-> file.fileId, url |-> file.url,
                  sizeInBytes |-> file.sizeInBytes, hashes |-> file.hashes,
                  fileMoniker |-> file.fileMoniker,
                  architectures |-> file.architectures, platforms |-> file.platforms]
      BY <2>1 DEF GenericFields, AppFields
    <2> QED
      BY <1>2, <2>1, <2>2
  <1> QED
    BY <1>1, <1>2

LEMMA FilesAreRead ==
  ASSUME NEW json, NEW file, SaysFile(json, file)
  PROVE  IsFile(json) /\ FileOf(json) = file
  <1> DEFINE hashes == json.members["Hashes"].members
             details == json.members["ApplicabilityDetails"]
  <1>1. /\ json.kind = "object"
        /\ {"FileId", "Url", "SizeInBytes", "Hashes"} \subseteq DOMAIN json.members
        /\ json.members["FileId"] = JsonString(file.fileId)
        /\ json.members["Url"] = JsonString(file.url)
        /\ json.members["SizeInBytes"] = JsonUnsigned(file.sizeInBytes)
        /\ json.members["Hashes"] = JsonObject([name \in DOMAIN file.hashes |->
                                                 JsonString(file.hashes[name])])
    BY DEF SaysFile, HasMembers
  <1>2. /\ HasStrings(json, {"FileId", "Url"})
        /\ Text(json, "FileId") = file.fileId /\ Text(json, "Url") = file.url
    BY <1>1 DEF HasStrings, Has, Text, JsonString
  <1>3. /\ Has(json, "SizeInBytes", "unsigned")
        /\ json.members["SizeInBytes"].number = file.sizeInBytes
    BY <1>1 DEF Has, JsonUnsigned
  <1>4. /\ Has(json, "Hashes", "object")
        /\ hashes = [name \in DOMAIN file.hashes |-> JsonString(file.hashes[name])]
    BY <1>1 DEF Has, JsonObject
  <1>5. /\ DOMAIN hashes = DOMAIN file.hashes
        /\ \A name \in DOMAIN hashes :
             hashes[name].kind = "string" /\ hashes[name].text = file.hashes[name]
    BY <1>4 DEF JsonString
  <1>6. HasStrings(json.members["Hashes"], DOMAIN hashes)
    BY <1>5 DEF HasStrings, Has
  <1>7. [name \in DOMAIN hashes |-> hashes[name].text] = file.hashes
    <2>1. file.hashes = [name \in DOMAIN file.hashes |-> file.hashes[name]]
      BY DEF SaysFile
    <2> QED
      BY <1>5, <2>1
  <1>8. CASE file.type = "Generic"
    <2>1. "FileMoniker" \notin DOMAIN json.members
      BY <1>8, FileFields
    <2>2. IsFile(json)
      BY <1>1, <1>2, <1>3, <1>4, <1>6, <2>1 DEF IsFile
    <2>3. FileOf(json) = [type |-> "Generic", fileId |-> file.fileId, url |-> file.url,
                          sizeInBytes |-> file.sizeInBytes, hashes |-> file.hashes]
      BY <1>2, <1>3, <1>7, <2>1 DEF FileOf
    <2> QED
      BY <1>8, <2>2, <2>3, FileFields
  <1>9. CASE file.type = "App"
    <2>1. "FileMoniker" \in DOMAIN json.members
      BY <1>9, FileFields
    <2>2. /\ HasMembers(json, [FileMoniker |-> JsonString(file.fileMoniker)])
          /\ "ApplicabilityDetails" \in DOMAIN json.members
          /\ details.kind = "object"
          /\ {"Architectures", "PlatformApplicabilityForPackage"} \subseteq DOMAIN details.members
          /\ SaysTexts(details.members["Architectures"], file.architectures)
          /\ SaysTexts(details.members["PlatformApplicabilityForPackage"], file.platforms)
      BY <2>1 DEF SaysFile
    <2>3. json.members["FileMoniker"] = JsonString(file.fileMoniker)
      BY <2>2 DEF HasMembers
    <2>4. HasStrings(json, {"FileMoniker"}) /\ Text(json, "FileMoniker") = file.fileMoniker
      BY <2>1, <2>3 DEF HasStrings, Has, Text, JsonString
    <2>5. /\ HasStringArray(details, "Architectures")
          /\ Texts(details, "Architectures") = file.architectures
      BY <2>2, TextsAreRead
    <2>6. /\ HasStringArray(details, "PlatformApplicabilityForPackage")
          /\ Texts(details, "PlatformApplicabilityForPackage") = file.platforms
      BY <2>2, TextsAreRead
    <2>7. IsFile(json)
      BY <1>1, <1>2, <1>3, <1>4, <1>6, <2>2, <2>4, <2>5, <2>6 DEF IsFile, IsApplicabilityDetails
    <2>8. FileOf(json) =
            [type |-> "App", fileId |-> file.fileId, url |-> file.url,
             sizeInBytes |-> file.sizeInBytes, hashes |-> file.hashes,
             fileMoniker |-> file.fileMoniker,
             architectures |-> file.architectures, platforms |-> file.platforms]
      BY <1>2, <1>3, <1>7, <2>1, <2>4, <2>5, <2>6 DEF FileOf
    <2> QED
      BY <1>9, <2>7, <2>8, FileFields
  <1> QED
    BY <1>8, <1>9, FileFields

LEMMA NoFileIsRefused ==
  ASSUME NEW json, SaysNoFile(json)
  PROVE  ~IsFile(json)
  <1>1. CASE \/ \E key \in {"FileId", "Url"} : Lacks(json, key, "string")
             \/ Lacks(json, "SizeInBytes", "unsigned")
             \/ Lacks(json, "Hashes", "object")
             \/ \E name \in DOMAIN json.members["Hashes"].members :
                  Lacks(json.members["Hashes"], name, "string")
    BY <1>1 DEF Lacks, IsFile, Has, HasStrings
  <1>2. CASE /\ "FileMoniker" \in DOMAIN json.members
             /\ \/ Lacks(json, "FileMoniker", "string")
                \/ Lacks(json, "ApplicabilityDetails", "object")
    BY <1>2 DEF Lacks, IsFile, Has, HasStrings, IsApplicabilityDetails
  <1>3. ASSUME "FileMoniker" \in DOMAIN json.members,
               NEW key \in {"Architectures", "PlatformApplicabilityForPackage"},
               LacksTexts(json.members["ApplicabilityDetails"], key), IsFile(json)
        PROVE  FALSE
    <2> DEFINE details == json.members["ApplicabilityDetails"]
    <2>1. HasStringArray(details, key) /\ details.kind = "object"
      BY <1>3 DEF IsFile, IsApplicabilityDetails
    <2> QED
      BY <1>3, <2>1 DEF LacksTexts, Lacks, HasStringArray, Has, Elements
  <1> QED
    BY <1>1, <1>2, <1>3 DEF SaysNoFile

-----------------------------------------------------------------------------
(* Answers: a document means something exactly when the checks accept it.      *)

LEMMA VersionAnswer ==
  ASSUME NEW answer \in VersionAnswers
  PROVE  /\ answer.document.kind # "array"
         /\ answer.meaning # Nothing <=> IsVersion(answer.document)
         /\ answer.meaning # Nothing => VersionOf(answer.document) = answer.meaning
  <1>1. answer.document.kind # "array"
    BY AnswerAssumption
  <1>2. CASE answer.meaning = Nothing
    <2>1. SaysNoVersion(answer.document)
      BY <1>2, AnswerAssumption
    <2> QED
      BY <1>1, <1>2, <2>1, NoVersionIsRefused
  <1>3. CASE answer.meaning # Nothing
    <2>1. SaysVersion(answer.document, answer.meaning)
      BY <1>3, AnswerAssumption
    <2> QED
      BY <1>1, <1>3, <2>1, VersionsAreRead
  <1> QED
    BY <1>2, <1>3

LEMMA FileAnswer ==
  ASSUME NEW answer \in FileAnswers
  PROVE  /\ answer.document.kind # "array"
         /\ answer.meaning # Nothing <=> IsFile(answer.document)
         /\ answer.meaning # Nothing =>
              FileOf(answer.document) = answer.meaning /\ SaysFile(answer.document, answer.meaning)
  <1>1. answer.document.kind # "array"
    BY AnswerAssumption
  <1>2. CASE answer.meaning = Nothing
    <2>1. SaysNoFile(answer.document)
      BY <1>2, AnswerAssumption
    <2> QED
      BY <1>1, <1>2, <2>1, NoFileIsRefused
  <1>3. CASE answer.meaning # Nothing
    <2>1. SaysFile(answer.document, answer.meaning)
      BY <1>3, AnswerAssumption
    <2> QED
      BY <1>1, <1>3, <2>1, FilesAreRead
  <1> QED
    BY <1>2, <1>3

(* What a document of an answer and what it means have to do with each other.  *)
Stands(document, meaning, answers) ==
  \E answer \in answers : document = answer.document /\ meaning = answer.meaning

(* The two lists of an answer that is an array.                                *)
Lists(answers) ==
  /\ body.kind = "array"
  /\ body.elements \in Seq({answer.document : answer \in answers})
  /\ meant \in Seq({answer.meaning : answer \in answers})
  /\ Len(meant) = Len(body.elements)
  /\ \A i \in 1 .. Len(meant) : Stands(body.elements[i], meant[i], answers)

Single(answers) ==
  /\ body.kind # "array"
  /\ \E meaning :
       /\ meant = <<meaning>>
       /\ \/ body = NotJson /\ meaning = Nothing
          \/ Stands(body, meaning, answers)

LEMMA AnswerCases ==
  ASSUME AnswerFits, pc \in {"answered", "files"}
  PROVE  Single(AnswersTo(call)) \/ Lists(AnswersTo(call))
  <1> DEFINE answers == AnswersTo(call)
  <1>1. CASE body = NotJson /\ meant = <<Nothing>>
    BY <1>1 DEF Single, NotJson
  <1>2. ASSUME NEW answer \in answers, body = answer.document, meant = <<answer.meaning>>
        PROVE  Single(answers)
    <2>1. answer \in VersionAnswers \cup FileAnswers
      BY <1>2 DEF AnswersTo
    <2>2. body.kind # "array"
      BY <1>2, <2>1, VersionAnswer, FileAnswer
    <2>3. Stands(body, answer.meaning, answers)
      BY <1>2 DEF Stands
    <2> QED
      BY <1>2, <2>2, <2>3 DEF Single
  <1>3. ASSUME NEW list \in Seq(answers),
               body = JsonArray([i \in DOMAIN list |-> list[i].document]),
               meant = [i \in DOMAIN list |-> list[i].meaning]
        PROVE  Lists(answers)
    <2> DEFINE n == Len(list)
    <2> HIDE DEF answers
    <2>1. n \in Nat /\ DOMAIN list = 1 .. n /\ \A i \in 1 .. n : list[i] \in answers
      BY <1>3, LenProperties, ElementOfSeq
    <2>2. body.kind = "array" /\ body.elements = [i \in 1 .. n |-> list[i].document]
      BY <1>3, <2>1 DEF JsonArray
    <2>3. meant = [i \in 1 .. n |-> list[i].meaning]
      BY <1>3, <2>1
    <2>4. body.elements \in [1 .. n -> {answer.document : answer \in answers}]
      BY <2>1, <2>2
    <2>5. meant \in [1 .. n -> {answer.meaning : answer \in answers}]
      BY <2>1, <2>3
    <2>6. body.elements \in Seq({answer.document : answer \in answers}) /\ Len(body.elements) = n
      BY <2>1, <2>4, SeqDef
    <2>7. meant \in Seq({answer.meaning : answer \in answers}) /\ Len(meant) = n
      BY <2>1, <2>5, SeqDef
    <2>8. \A i \in 1 .. n : Stands(body.elements[i], meant[i], answers)
      BY <2>1, <2>2, <2>3 DEF Stands
    <2> QED
      BY <2>2, <2>6, <2>7, <2>8 DEF Lists
  <1> QED
    BY <1>1, <1>2, <1>3 DEF AnswerFits

(* A list is whole exactly when all of its documents mean something.           *)
LEMMA ListProperties ==
  ASSUME NEW answers, Lists(answers)
  PROVE  /\ Len(meant) \in Nat
         /\ DOMAIN meant = 1 .. Len(meant) /\ DOMAIN body.elements = 1 .. Len(meant)
         /\ meant = [i \in 1 .. Len(meant) |-> meant[i]]
         /\ (meant = <<>>) = (body.elements = <<>>)
  <1>1. /\ meant \in Seq({answer.meaning : answer \in answers})
        /\ body.elements \in Seq({answer.document : answer \in answers})
        /\ Len(meant) = Len(body.elements)
    BY DEF Lists
  <1>2. /\ Len(meant) \in Nat /\ DOMAIN meant = 1 .. Len(meant)
        /\ meant \in [1 .. Len(meant) -> {answer.meaning : answer \in answers}]
        /\ DOMAIN body.elements = 1 .. Len(meant)
    BY <1>1, LenProperties
  <1>3. (meant = <<>>) = (Len(meant) = 0)
    BY <1>1, EmptySeq
  <1>4. (body.elements = <<>>) = (Len(body.elements) = 0)
    BY <1>1, EmptySeq
  <1> QED
    BY <1>1, <1>2, <1>3, <1>4

-----------------------------------------------------------------------------
(* What is accepted is what is usable, for each of the requests.               *)

LEMMA VersionIsUsable ==
  ASSUME AnswerFits, pc = "answered", call.endpoint \in {"latest", "version"}
  PROVE  /\ Usable <=> IsVersion(body) /\ Matches(VersionOf(body).contentId, call.product)
         /\ IsVersion(body) => <<VersionOf(body)>> = meant
  <1>1. AnswersTo(call) = VersionAnswers
    BY DEF AnswersTo
  <1>2. CASE Lists(VersionAnswers)
    <2>1. body.kind = "array"
      BY <1>2 DEF Lists
    <2> QED
      BY <2>1 DEF Usable, IsList, IsVersion
  <1>3. CASE Single(VersionAnswers)
    <2>1. PICK meaning : /\ meant = <<meaning>>
                         /\ \/ body = NotJson /\ meaning = Nothing
                            \/ Stands(body, meaning, VersionAnswers)
      BY <1>3 DEF Single
    <2>2. body.kind # "array"
      BY <1>3 DEF Single
    <2>3. CASE body = NotJson /\ meaning = Nothing
      <3>1. ~IsVersion(body) /\ ~Whole
        BY <2>1, <2>3 DEF IsVersion, NotJson, Whole
      <3> QED
        BY <3>1 DEF Usable
    <2>4. CASE Stands(body, meaning, VersionAnswers)
      <3>1. /\ meaning # Nothing <=> IsVersion(body)
            /\ meaning # Nothing => VersionOf(body) = meaning
        BY <2>4, VersionAnswer DEF Stands
      <3>2. Whole <=> meaning # Nothing
        BY <2>1 DEF Whole
      <3>3. meant[1] = meaning
        BY <2>1
      <3>4. Usable <=> /\ meaning # Nothing
                       /\ meaning.contentId.name = call.product
                       /\ meaning.contentId.nameSpace = NameSpace
        BY <2>2, <3>2, <3>3 DEF Usable, IsList
      <3> QED
        BY <2>1, <3>1, <3>4 DEF Matches
    <2> QED
      BY <2>1, <2>3, <2>4
  <1> QED
    BY <1>1, <1>2, <1>3, AnswerCases

LEMMA BatchIsUsable ==
  ASSUME AnswerFits, pc = "answered", call.endpoint = "latestBatch"
  PROVE  /\ Usable <=> IsBatch(body, call.products)
         /\ IsBatch(body, call.products) =>
              [i \in DOMAIN body.elements |-> VersionOf(body.elements[i])] = meant
  <1>1. AnswersTo(call) = VersionAnswers
    BY DEF AnswersTo
  <1>2. CASE Single(VersionAnswers)
    <2>1. body.kind # "array"
      BY <1>2 DEF Single
    <2> QED
      BY <2>1 DEF Usable, IsList, IsBatch
  <1>3. CASE Lists(VersionAnswers)
    <2> DEFINE elements == body.elements
    <2>1. /\ body.kind = "array"
          /\ DOMAIN meant = 1 .. Len(meant) /\ DOMAIN elements = 1 .. Len(meant)
          /\ meant = [i \in 1 .. Len(meant) |-> meant[i]]
          /\ (meant = <<>>) = (elements = <<>>)
      BY <1>3, ListProperties DEF Lists
    <2>2. ASSUME NEW i \in 1 .. Len(meant)
          PROVE  /\ meant[i] # Nothing <=> IsVersion(elements[i])
                 /\ IsVersion(elements[i]) =>
                      /\ VersionOf(elements[i]) = meant[i]
                      /\ ContentIdOf(elements[i].members["ContentId"]) = meant[i].contentId
      <3>1. PICK answer \in VersionAnswers :
              elements[i] = answer.document /\ meant[i] = answer.meaning
        BY <1>3 DEF Lists, Stands
      <3>2. /\ meant[i] # Nothing <=> IsVersion(elements[i])
            /\ meant[i] # Nothing => VersionOf(elements[i]) = meant[i]
        BY <3>1, VersionAnswer
      <3>3. VersionOf(elements[i]).contentId = ContentIdOf(elements[i].members["ContentId"])
        BY DEF VersionOf
      <3> QED
        BY <3>2, <3>3
    <2> HIDE DEF elements
    <2>3. Whole <=> elements # <<>> /\ \A i \in 1 .. Len(meant) : IsVersion(elements[i])
      BY <2>1, <2>2 DEF Whole
    <2>4. Usable <=> /\ Whole
                     /\ \A i \in 1 .. Len(meant) :
                          /\ meant[i].contentId.name \in call.products
                          /\ AreEqualI(meant[i].contentId.nameSpace, NameSpace)
      BY <2>1 DEF Usable, IsList, AreEqualI
    <2>5. IsBatch(body, call.products) <=>
            /\ elements # <<>>
            /\ \A i \in 1 .. Len(meant) :
                 /\ IsVersion(elements[i])
                 /\ ContentIdOf(elements[i].members["ContentId"]).name \in call.products
                 /\ AreEqualI(ContentIdOf(elements[i].members["ContentId"]).nameSpace, NameSpace)
      BY <2>1 DEF IsBatch, elements
    <2>6. Usable <=> IsBatch(body, call.products)
      BY <2>2, <2>3, <2>4, <2>5
    <2>7. IsBatch(body, call.products) => [i \in DOMAIN elements |-> VersionOf(elements[i])] = meant
      BY <2>1, <2>2, <2>5
    <2> QED
      BY <2>6, <2>7 DEF elements
  <1> QED
    BY <1>1, <1>2, <1>3, AnswerCases

LEMMA FileListIsUsable ==
  ASSUME AnswerFits, pc \in {"answered", "files"}, call.endpoint = "files"
  PROVE  /\ Usable <=> IsFileList(body)
         /\ IsFileList(body) =>
              /\ FilesOf(body) = meant
              /\ Lists(FileAnswers)
              /\ \A i \in 1 .. Len(meant) : \E json : SaysFile(json, meant[i])
  <1>1. AnswersTo(call) = FileAnswers
    BY DEF AnswersTo
  <1>2. CASE Single(FileAnswers)
    <2>1. body.kind # "array"
      BY <1>2 DEF Single
    <2> QED
      BY <2>1 DEF Usable, IsList, IsFileList
  <1>3. CASE Lists(FileAnswers)
    <2> DEFINE elements == body.elements
    <2>1. /\ body.kind = "array"
          /\ DOMAIN meant = 1 .. Len(meant) /\ DOMAIN elements = 1 .. Len(meant)
          /\ meant = [i \in 1 .. Len(meant) |-> meant[i]]
      BY <1>3, ListProperties DEF Lists
    <2>2. ASSUME NEW i \in 1 .. Len(meant)
          PROVE  /\ meant[i] # Nothing <=> IsFile(elements[i])
                 /\ meant[i] # Nothing =>
                      FileOf(elements[i]) = meant[i] /\ SaysFile(elements[i], meant[i])
      <3>1. PICK answer \in FileAnswers :
              elements[i] = answer.document /\ meant[i] = answer.meaning
        BY <1>3 DEF Lists, Stands
      <3> QED
        BY <3>1, FileAnswer
    <2> HIDE DEF elements
    <2>3. Usable <=> \A i \in 1 .. Len(meant) : meant[i] # Nothing
      BY <2>1 DEF Usable, IsList
    <2>4. IsFileList(body) <=> \A i \in 1 .. Len(meant) : IsFile(elements[i])
      BY <2>1 DEF IsFileList, elements
    <2>5. IsFileList(body) => FilesOf(body) = meant
      <3>1. FilesOf(body) = [i \in 1 .. Len(meant) |-> FileOf(elements[i])]
        BY <2>1 DEF FilesOf, elements
      <3> QED
        BY <2>1, <2>2, <2>4, <3>1
    <2> QED
      BY <1>3, <2>2, <2>3, <2>4, <2>5
  <1> QED
    BY <1>1, <1>2, <1>3, AnswerCases

-----------------------------------------------------------------------------
(* The conversion of files.                                                    *)

LEMMA NamedIsKnown ==
  ASSUME NEW string, NEW values
  PROVE  NamesOne(string, values) <=> Names(string, values) # {}
  BY DEF NamesOne, Names, AreEqualI

UnknownNames(file) ==
  \/ \E name \in DOMAIN file.hashes : ~NamesOne(name, HashTypes)
  \/ /\ file.type = "App"
     /\ \E i \in DOMAIN file.architectures : ~NamesOne(file.architectures[i], Architectures)

(* The code of a refusal tells what is wrong with the file.                    *)
LEMMA RefusalTells ==
  ASSUME NEW file, NEW type
  PROVE  /\ Refusal(file, type) \in {"Success", "Unexpected", "ServiceUnexpectedContentType"}
         /\ Refusal(file, type) = "ServiceUnexpectedContentType" <=> file.type # type
         /\ Refusal(file, type) = "Unexpected" <=> file.type = type /\ UnknownNames(file)
  <1>1. CASE file.type # type
    BY <1>1 DEF Refusal
  <1>2. CASE file.type = type
    <2>1. UnknownNames(file) <=>
            \/ \E name \in DOMAIN file.hashes : Names(name, HashTypes) = {}
            \/ /\ type = "App"
               /\ \E i \in DOMAIN file.architectures :
                    Names(file.architectures[i], Architectures) = {}
      BY <1>2, NamedIsKnown, Zenon DEF UnknownNames
    <2> QED
      BY <1>2, <2>1 DEF Refusal
  <1> QED
    BY <1>1, <1>2

LEMMA HashesAreTheEntitys ==
  ASSUME NEW entity, NEW hashes \in Hashes(entity),
         \A name \in DOMAIN entity.hashes : Names(name, HashTypes) # {}
  PROVE  HashesFit(hashes, entity.hashes)
  <1>1. /\ DOMAIN hashes = HashTypesOf(entity)
        /\ \A type \in HashTypesOf(entity) :
             \E name \in DOMAIN entity.hashes :
               AreEqualI(name, type) /\ hashes[type] = entity.hashes[name]
    BY DEF Hashes
  <1>2. \A type \in DOMAIN hashes :
          \E name \in DOMAIN entity.hashes :
            Lower[name] = Lower[type] /\ entity.hashes[name] = hashes[type]
    BY <1>1 DEF AreEqualI
  <1>3. ASSUME NEW name \in DOMAIN entity.hashes
        PROVE  \E type \in DOMAIN hashes : Lower[name] = Lower[type]
    <2>1. PICK type : type \in Names(name, HashTypes)
      OBVIOUS
    <2>2. type \in HashTypesOf(entity)
      BY <2>1 DEF HashTypesOf
    <2> QED
      BY <1>1, <2>1, <2>2 DEF Names, AreEqualI
  <1>4. {Lower[name] : name \in DOMAIN entity.hashes} = {Lower[type] : type \in DOMAIN hashes}
    BY <1>2, <1>3
  <1> QED
    BY <1>2, <1>4 DEF HashesFit

LEMMA ConversionKeeps ==
  ASSUME NEW json, NEW entity, SaysFile(json, entity), NEW type,
         Refusal(entity, type) = "Success", NEW file \in Conversions(entity)
  PROVE  /\ RestFits(file, entity)
         /\ HashesFit(file.hashes, entity.hashes)
         /\ entity.type = "App" => ArchitecturesFit(file.architectures, entity.architectures)
  <1>1. PICK hashes \in Hashes(entity) :
          file = IF entity.type = "Generic" THEN [entity EXCEPT !.hashes = hashes]
                 ELSE [entity EXCEPT !.hashes = hashes,
                                     !.architectures = [i \in DOMAIN entity.architectures |->
                                        CHOOSE a \in Names(entity.architectures[i], Architectures) :
                                          TRUE]]
    BY DEF Conversions
  <1>2. \A name \in DOMAIN entity.hashes : Names(name, HashTypes) # {}
    BY DEF Refusal
  <1>3. HashesFit(hashes, entity.hashes)
    BY <1>2, HashesAreTheEntitys
  <1>4. CASE entity.type = "Generic"
    <2>1. entity = [type |-> "Generic", fileId |-> entity.fileId, url |-> entity.url,
                    sizeInBytes |-> entity.sizeInBytes, hashes |-> entity.hashes]
      BY <1>4, FileFields
    <2>2. file = [entity EXCEPT !.hashes = hashes]
      BY <1>1, <1>4
    <2>3. file.hashes = hashes /\ RestFits(file, entity)
      BY <2>1, <2>2 DEF RestFits
    <2> QED
      BY <1>3, <1>4, <2>3
  <1>5. CASE entity.type = "App"
    <2> DEFINE named == [i \in DOMAIN entity.architectures |->
                           CHOOSE a \in Names(entity.architectures[i], Architectures) : TRUE]
    <2>1. entity = [type |-> "App", fileId |-> entity.fileId, url |-> entity.url,
                    sizeInBytes |-> entity.sizeInBytes, hashes |-> entity.hashes,
                    fileMoniker |-> entity.fileMoniker,
                    architectures |-> entity.architectures, platforms |-> entity.platforms]
      BY <1>5, FileFields
    <2>2. file = [entity EXCEPT !.hashes = hashes, !.architectures = named]
      BY <1>1, <1>5
    <2>3. ArchitecturesFit(named, entity.architectures)
      <3>1. type = "App"
        BY <1>5 DEF Refusal
      <3>2. ASSUME NEW k \in DOMAIN entity.architectures
            PROVE  named[k] \in Names(entity.architectures[k], Architectures)
        <4>1. Names(entity.architectures[k], Architectures) # {}
          BY <3>1 DEF Refusal
        <4> QED
          BY <4>1
      <3>3. DOMAIN named = DOMAIN entity.architectures /\ named = [k \in DOMAIN named |-> named[k]]
        OBVIOUS
      <3> HIDE DEF named
      <3>4. ASSUME NEW k \in DOMAIN entity.architectures
            PROVE  named[k] \in Architectures /\ Lower[named[k]] = Lower[entity.architectures[k]]
        BY <3>2 DEF Names, AreEqualI
      <3> QED
        BY <3>3, <3>4 DEF ArchitecturesFit
    <2> HIDE DEF named
    <2>4. file.hashes = hashes /\ file.architectures = named /\ RestFits(file, entity)
      BY <2>1, <2>2 DEF RestFits
    <2> QED
      BY <1>3, <2>3, <2>4
  <1> QED
    BY <1>4, <1>5, FileFields

-----------------------------------------------------------------------------
(* The inductive invariant.                                                    *)

LEMMA InitOK == Init => IInv
  BY DEF Init, IInv, TypeOK, AnswerFits, EntitiesAreMeant, RefusedIsUnusable, FilesAreMeant,
         FirstDefectIsTold

LEMMA CallOK ==
  ASSUME NEW c \in Calls, Call(c)
  PROVE  IInv'
  BY DEF Call, IInv, TypeOK, AnswerFits, EntitiesAreMeant, RefusedIsUnusable, FilesAreMeant,
         FirstDefectIsTold

LEMMA RequestFailsOK ==
  ASSUME RequestFails
  PROVE  IInv'
  <1>1. /\ pc' = "ready"
        /\ code' \notin {"ServiceInvalidResponse", "Unexpected", "ServiceUnexpectedContentType"}
    BY DEF RequestFails, Throw
  <1> QED
    BY <1>1 DEF IInv, TypeOK, AnswerFits, EntitiesAreMeant, RefusedIsUnusable, FilesAreMeant,
                FirstDefectIsTold

LEMMA AnswerOK ==
  ASSUME IInv, Answer
  PROVE  IInv'
  <1> DEFINE answers == AnswersTo(call)
  <1>1. pc' = "answered" /\ call' = call /\ code' = "Success" /\ TypeOK'
    BY DEF Answer, IInv, TypeOK
  <1>2. \/ body' = NotJson /\ meant' = <<Nothing>>
        \/ \E answer \in answers : body' = answer.document /\ meant' = <<answer.meaning>>
        \/ \E list \in BoundedSeq(answers, MaxElements) :
             /\ body' = JsonArray([i \in DOMAIN list |-> list[i].document])
             /\ meant' = [i \in DOMAIN list |-> list[i].meaning]
    BY DEF Answer
  <1>3. BoundedSeq(answers, MaxElements) \subseteq Seq(answers)
    <2>1. \A n \in 0 .. MaxElements : n \in Nat
      BY BoundAssumption
    <2> QED
      BY <2>1, SeqDef DEF BoundedSeq, SeqOf
  <1>4. AnswersTo(call)' = answers
    BY <1>1 DEF AnswersTo
  <1>5. AnswerFits'
    BY <1>2, <1>3, <1>4 DEF AnswerFits
  <1> QED
    BY <1>1, <1>5 DEF IInv, EntitiesAreMeant, RefusedIsUnusable, FilesAreMeant, FirstDefectIsTold

(* The answer is usable and is delivered as what it means, or it is neither.   *)
LEMMA DealtWith ==
  ASSUME IInv, pc = "answered", UNCHANGED <<call, body, meant, expected>>,
         \/ Usable /\ Deliver(meant)
         \/ ~Usable /\ Throw("ServiceInvalidResponse")
  PROVE  IInv'
  <1>1. call \in Calls /\ code = "Success" /\ AnswerFits
    BY DEF IInv, TypeOK
  <1>2. Usable' = Usable
    BY DEF Usable, IsList, Whole
  <1>3. CASE /\ Usable
             /\ pc' = (IF call.endpoint = "files" THEN "files" ELSE "delivered")
             /\ result' = meant /\ code' = "Success"
    <2>1. TypeOK'
      BY <1>1, <1>3 DEF TypeOK
    <2>2. AnswerFits'
      BY <1>1, <1>3 DEF AnswerFits, AnswersTo
    <2>3. EntitiesAreMeant'
      BY <1>2, <1>3 DEF EntitiesAreMeant
    <2> QED
      BY <1>3, <2>1, <2>2, <2>3 DEF IInv, RefusedIsUnusable, FilesAreMeant, FirstDefectIsTold
  <1>4. CASE /\ pc' = "ready"
             /\ \/ code' = "ForeignException"
                \/ ~Usable /\ code' = "ServiceInvalidResponse"
    <2>1. RefusedIsUnusable'
      BY <1>2, <1>4 DEF RefusedIsUnusable
    <2> QED
      BY <1>4, <2>1 DEF IInv, TypeOK, AnswerFits, EntitiesAreMeant, FilesAreMeant,
                        FirstDefectIsTold
  <1> QED
    BY <1>1, <1>3, <1>4 DEF Deliver, Throw

LEMMA GetVersionOK ==
  ASSUME IInv, GetVersion
  PROVE  IInv'
  <1>1. /\ Usable <=> IsVersion(body) /\ Matches(VersionOf(body).contentId, call.product)
        /\ IsVersion(body) => <<VersionOf(body)>> = meant
    BY VersionIsUsable DEF GetVersion, IInv
  <1>2. \/ Usable /\ Deliver(meant)
        \/ ~Usable /\ Throw("ServiceInvalidResponse")
    BY <1>1 DEF GetVersion
  <1> QED
    BY <1>2, DealtWith DEF GetVersion

LEMMA GetLatestVersionBatchOK ==
  ASSUME IInv, GetLatestVersionBatch
  PROVE  IInv'
  <1>1. /\ Usable <=> IsBatch(body, call.products)
        /\ IsBatch(body, call.products) =>
             [i \in DOMAIN body.elements |-> VersionOf(body.elements[i])] = meant
    BY BatchIsUsable DEF GetLatestVersionBatch, IInv
  <1>2. \/ Usable /\ Deliver(meant)
        \/ ~Usable /\ Throw("ServiceInvalidResponse")
    BY <1>1 DEF GetLatestVersionBatch
  <1> QED
    BY <1>2, DealtWith DEF GetLatestVersionBatch

LEMMA GetDownloadInfoOK ==
  ASSUME IInv, GetDownloadInfo
  PROVE  IInv'
  <1>1. Usable <=> IsFileList(body)
    BY FileListIsUsable DEF GetDownloadInfo, IInv
  <1>2. IsFileList(body) => FilesOf(body) = meant
    BY FileListIsUsable DEF GetDownloadInfo, IInv
  <1>3. \/ Usable /\ Deliver(meant)
        \/ ~Usable /\ Throw("ServiceInvalidResponse")
    BY <1>1, <1>2 DEF GetDownloadInfo
  <1> QED
    BY <1>3, DealtWith DEF GetDownloadInfo

(* A set of numbers has a least element.                                       *)
LEMMA LeastOfNumbers ==
  ASSUME NEW S \in SUBSET Nat, S # {}
  PROVE  \E i \in S : \A j \in S : i <= j
  <1>1. PICK i \in S : \A j \in S : <<j, i>> \notin OpToRel(<, Nat)
    BY NatLessThanWellFounded, WFMin
  <1>2. ASSUME NEW j \in S
        PROVE  i <= j
    <2>1. ~(j < i)
      BY <1>1 DEF OpToRel
    <2> QED
      BY <2>1
  <1> QED
    BY <1>2

(* A conversion that fails names the first defect; one that succeeds keeps     *)
(* every file.                                                                 *)
LEMMA ConvertOK ==
  ASSUME IInv, NEW type \in {"Generic", "App"}, Convert(type)
  PROVE  IInv'
  <1>1. /\ pc = "files" /\ call.endpoint = "files" /\ call \in Calls /\ code = "Success"
        /\ expected' = type /\ UNCHANGED <<call, body, meant>>
    BY DEF IInv, TypeOK, Convert
  <1>2. Usable /\ result = meant
    BY <1>1 DEF IInv, EntitiesAreMeant
  <1>3. Lists(FileAnswers) /\ \A i \in 1 .. Len(meant) : \E json : SaysFile(json, meant[i])
    BY <1>1, <1>2, FileListIsUsable DEF IInv
  <1>4. /\ DOMAIN meant = 1 .. Len(meant) /\ Len(meant) \in Nat
        /\ \A i \in 1 .. Len(meant) : meant[i] # Nothing
    BY <1>1, <1>2, <1>3, ListProperties DEF Usable
  <1>5. ASSUME NEW i \in FirstRefused(result, type), Throw(Refusal(result[i], type))
        PROVE  IInv'
    <2>1. pc' = "ready" /\ code' \in {Refusal(meant[i], type), "ForeignException"}
      BY <1>2, <1>5 DEF Throw
    <2>2. /\ i \in 1 .. Len(meant) /\ Refusal(meant[i], type) # "Success"
          /\ \A j \in 1 .. i - 1 : Refusal(meant[j], type) = "Success"
      BY <1>2, <1>4, <1>5 DEF FirstRefused
    <2>3. FirstDefectIsTold'
      <3>1. SUFFICES ASSUME code' \in {"Unexpected", "ServiceUnexpectedContentType"}
                     PROVE  /\ Whole
                            /\ IF code' = "Unexpected"
                               THEN meant[i].type = type /\ UnknownNames(meant[i])
                               ELSE meant[i].type # type
                            /\ \A j \in 1 .. i - 1 :
                                 meant[j].type = type /\ ~UnknownNames(meant[j])
        BY <1>1, <1>4, <2>2 DEF FirstDefectIsTold, UnknownNames, Whole
      <3>2. Whole
        <4>1. meant # <<>>
          BY <1>4, <2>2
        <4> QED
          BY <1>4, <4>1 DEF Whole
      <3>3. code' = Refusal(meant[i], type)
        BY <2>1, <3>1
      <3>4. \A j \in 1 .. i - 1 : meant[j].type = type /\ ~UnknownNames(meant[j])
        BY <2>2, RefusalTells
      <3> QED
        BY <3>1, <3>2, <3>3, <3>4, RefusalTells
    <2>4. code' # "ServiceInvalidResponse"
      BY <2>1, RefusalTells
    <2> QED
      BY <2>1, <2>3, <2>4 DEF IInv, TypeOK, AnswerFits, EntitiesAreMeant, RefusedIsUnusable,
                              FilesAreMeant
  <1>6. ASSUME FirstRefused(result, type) = {}, pc' = "delivered", code' = code,
               DOMAIN result' = DOMAIN result,
               \A i \in DOMAIN result : result'[i] \in Conversions(result[i])
        PROVE  IInv'
    <2>1. \A i \in 1 .. Len(meant) : Refusal(meant[i], type) = "Success"
      <3> DEFINE Refused == {i \in 1 .. Len(meant) : Refusal(meant[i], type) # "Success"}
      <3>1. ASSUME Refused # {}
            PROVE  FALSE
        <4>1. Refused \in SUBSET Nat
          BY <1>4
        <4> HIDE DEF Refused
        <4>2. PICK i \in Refused : \A j \in Refused : i <= j
          BY <3>1, <4>1, LeastOfNumbers
        <4>3. i \in FirstRefused(result, type)
          BY <1>2, <1>4, <4>2 DEF FirstRefused, Refused
        <4> QED
          BY <1>6, <4>3
      <3> QED
        BY <3>1
    <2>2. \A i \in 1 .. Len(meant) :
            /\ RestFits(result'[i], meant[i])
            /\ HashesFit(result'[i].hashes, meant[i].hashes)
            /\ meant[i].type = "App" =>
                 ArchitecturesFit(result'[i].architectures, meant[i].architectures)
      BY <1>2, <1>3, <1>4, <1>6, <2>1, ConversionKeeps
    <2>3. Len(result') = Len(meant)
      BY <1>2, <1>4, <1>6
    <2>4. FilesAreMeant'
      BY <1>1, <1>4, <2>2, <2>3 DEF FilesAreMeant
    <2> QED
      BY <1>1, <1>6, <2>4 DEF IInv, TypeOK, AnswerFits, EntitiesAreMeant, RefusedIsUnusable,
                              FirstDefectIsTold
  <1> QED
    BY <1>5, <1>6 DEF Convert


LEMMA StepOK == IInv /\ [Next]_vars => IInv'
  <1> SUFFICES ASSUME IInv, [Next]_vars
               PROVE  IInv'
    OBVIOUS
  <1>1. CASE RequestFails
    BY <1>1, RequestFailsOK
  <1>2. CASE Answer
    BY <1>2, AnswerOK
  <1>3. CASE GetVersion
    BY <1>3, GetVersionOK
  <1>4. CASE GetLatestVersionBatch
    BY <1>4, GetLatestVersionBatchOK
  <1>5. CASE GetDownloadInfo
    BY <1>5, GetDownloadInfoOK
  <1>6. ASSUME NEW c \in Calls, Call(c)
        PROVE  IInv'
    BY <1>6, CallOK
  <1>7. ASSUME NEW type \in {"Generic", "App"}, Convert(type)
        PROVE  IInv'
    BY <1>7, ConvertOK
  <1>8. CASE UNCHANGED vars
    <2>1. /\ pc' = pc /\ call' = call /\ body' = body /\ meant' = meant
          /\ expected' = expected /\ code' = code /\ result' = result
      BY <1>8 DEF vars
    <2>2. TypeOK' /\ AnswerFits'
      BY <2>1 DEF IInv, TypeOK, AnswerFits, AnswersTo
    <2>3. Usable' = Usable /\ Whole' = Whole
      BY <2>1 DEF Usable, IsList, Whole
    <2>4. EntitiesAreMeant' /\ RefusedIsUnusable'
      BY <2>1, <2>3 DEF IInv, EntitiesAreMeant, RefusedIsUnusable
    <2>5. FilesAreMeant'
      BY <2>1 DEF IInv, FilesAreMeant
    <2>6. FirstDefectIsTold'
      BY <2>1, <2>3 DEF IInv, FirstDefectIsTold
    <2> QED
      BY <2>2, <2>4, <2>5, <2>6 DEF IInv
  <1> QED
    BY <1>1, <1>2, <1>3, <1>4, <1>5, <1>6, <1>7, <1>8 DEF Next

(* What an answer that is being dealt with means is known in every state, and  *)
(* what has come of it agrees with that.                                       *)
THEOREM InvariantHolds == Spec => []IInv
  BY InitOK, StepOK, PTL DEF Spec

(* Entities are what the service means, whole, in order and as asked for, in   *)
(* lists of any length: GetVersion and GetLatestVersionBatch with all checks   *)
(* of VersionEntity::FromJson.                                                 *)
THEOREM EntitiesAreAlwaysMeant == Spec => []EntitiesAreMeant
  <1>1. IInv => EntitiesAreMeant
    BY DEF IInv
  <1> QED
    BY <1>1, InvariantHolds, PTL

(* No answer is refused that is what the interface promises: the checks demand *)
(* nothing beyond the format, the product and the namespace.                   *)
THEOREM PromisedIsAlwaysAccepted == Spec => []PromisedIsAccepted
  <1>1. IInv => PromisedIsAccepted
    BY DEF IInv, RefusedIsUnusable, PromisedIsAccepted, Promised
  <1> QED
    BY <1>1, InvariantHolds, PTL

(* ToFile and ToAppFile lose no file and no hash, and mix up none.             *)
THEOREM FilesAreAlwaysMeant == Spec => []FilesAreMeant
  <1>1. IInv => FilesAreMeant
    BY DEF IInv
  <1> QED
    BY <1>1, InvariantHolds, PTL

(* The code of a refused list is that of its first file with a defect.         *)
THEOREM FirstDefectIsAlwaysTold == Spec => []FirstDefectIsTold
  <1>1. IInv => FirstDefectIsTold
    BY DEF IInv
  <1> QED
    BY <1>1, InvariantHolds, PTL

=============================================================================
