----------------------------- MODULE MCRequests -----------------------------
(* Values for model checking Requests: good documents, each with what it     *)
(* means, and what becomes of them when one member is missing or is not what *)
(* it should be, which mean nothing.                                         *)
EXTENDS Requests, FiniteSetsExt

MCNameSpace == "ns"
MCProducts  == {"", "p", "q"}
MCVersions  == {"", "1", "2"}
MCLower ==
  [s \in {"ns", "NS", "p", "Sha1", "sha1", "Sha256", "md5", "None", "x86", "amd64",
          "AMD64", "arm", "arm64", "mips"} |->
     CASE s = "NS" -> "ns" [] s = "Sha1" -> "sha1" [] s = "Sha256" -> "sha256"
       [] s = "None" -> "none" [] s = "AMD64" -> "amd64" [] OTHER -> s]

Junk == [kind |-> "number"]

Drop(object, key) ==
  JsonObject([k \in DOMAIN object.members \ {key} |-> object.members[k]])
With(object, key, value) == JsonObject((key :> value) @@ object.members)

\* One of the keys is missing, or its value is of the wrong kind.
Damage(object, keys) == {Drop(object, key) : key \in keys} \cup {With(object, key, Junk) : key \in keys}

Means(document, meaning) == [document |-> document, meaning |-> meaning]
MeansNothing(documents)  == {Means(document, Nothing) : document \in documents}

ContentId(id) ==
  JsonObject([Namespace |-> JsonString(id.nameSpace), Name |-> JsonString(id.name),
              Version |-> JsonString(id.version)])
DamagedIds(id) == {Junk} \cup Damage(ContentId(id), {"Namespace", "Name", "Version"})

Id(nameSpace, name, version) == [nameSpace |-> nameSpace, name |-> name, version |-> version]
p1 == Id("ns", "p", "1")
Ids == {p1, Id("NS", "p", "1"), Id("ns", "q", "1"), Id("ns", "p", "2")}

Version(id) == JsonObject([ContentId |-> ContentId(id)])
AppVersion(id, prerequisites) ==
  JsonObject([ContentId |-> ContentId(id), UpdateId |-> JsonString("u"),
              Prerequisites |-> JsonArray(prerequisites)])
App(id, prerequisites) ==
  [type |-> "App", contentId |-> id, updateId |-> "u", prerequisites |-> prerequisites]

MCVersionAnswers ==
  {Means(Version(id), [type |-> "Generic", contentId |-> id]) : id \in Ids}
    \cup {Means(AppVersion(p1, <<>>), App(p1, <<>>)),
          Means(AppVersion(p1, <<ContentId(p1), ContentId(Id("ns", "q", "2"))>>),
                App(p1, <<p1, Id("ns", "q", "2")>>)),
          \* Without an UpdateId it is no app's, whatever its prerequisites are.
          Means(With(Version(p1), "Prerequisites", Junk), [type |-> "Generic", contentId |-> p1])}
    \cup MeansNothing({Junk} \cup Damage(Version(p1), {"ContentId"})
           \cup {With(Version(p1), "ContentId", id) : id \in DamagedIds(p1)}
           \cup Damage(AppVersion(p1, <<>>), {"Prerequisites", "ContentId"})
           \cup {With(AppVersion(p1, <<>>), "UpdateId", Junk)}
           \cup {AppVersion(p1, <<ContentId(p1), id>>) : id \in DamagedIds(p1)})

GenericFile(hashes) ==
  JsonObject([FileId |-> JsonString("f"), Url |-> JsonString("url"),
              SizeInBytes |-> JsonUnsigned(3),
              Hashes |-> JsonObject([name \in DOMAIN hashes |-> JsonString(hashes[name])])])
FileMeaning(hashes) ==
  [type |-> "Generic", fileId |-> "f", url |-> "url", sizeInBytes |-> 3, hashes |-> hashes]

Details(architectures) ==
  JsonObject([Architectures |-> JsonArray([i \in DOMAIN architectures |->
                                             JsonString(architectures[i])]),
              PlatformApplicabilityForPackage |-> JsonArray(<<JsonString("Windows")>>)])
AppFile(hashes, architectures) ==
  JsonObject([FileMoniker |-> JsonString("m"), ApplicabilityDetails |-> Details(architectures)]
               @@ GenericFile(hashes).members)
AppFileMeaning(hashes, architectures) ==
  [type |-> "App", fileId |-> "f", url |-> "url", sizeInBytes |-> 3, hashes |-> hashes,
   fileMoniker |-> "m", architectures |-> architectures, platforms |-> <<"Windows">>]

sha1 == [Sha1 |-> "h1"]
HashLists ==
  {sha1, [Sha1 |-> "h1", Sha256 |-> "h256"], [sha1 |-> "h1"],
   [Sha1 |-> "h1", sha1 |-> "other"], [md5 |-> "h5"]}
ArchitectureLists == {<<>>, <<"AMD64", "x86">>, <<"x86", "mips">>}

MCFileAnswers ==
  {Means(GenericFile(h), FileMeaning(h)) : h \in HashLists}
    \cup {Means(AppFile(sha1, a), AppFileMeaning(sha1, a)) : a \in ArchitectureLists}
    \cup MeansNothing({Junk}
           \cup Damage(GenericFile(sha1), {"FileId", "Url", "SizeInBytes", "Hashes"})
           \cup {With(GenericFile(sha1), "Hashes", JsonObject([Sha1 |-> Junk]))}
           \cup {With(AppFile(sha1, <<>>), "FileMoniker", Junk)}
           \cup Damage(AppFile(sha1, <<>>), {"ApplicabilityDetails"})
           \cup {With(AppFile(sha1, <<>>), "ApplicabilityDetails", details) :
                   details \in Damage(Details(<<>>), {"Architectures",
                                                      "PlatformApplicabilityForPackage"})
                     \cup {With(Details(<<>>), "Architectures", JsonArray(<<Junk>>))}})

=============================================================================
