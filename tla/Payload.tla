------------------------------- MODULE Payload -------------------------------
(***************************************************************************)
(* What is sent to be built for one VirtualDatabase, and where its DDL     *)
(* comes from: the resource itself, or an artifact downloaded from one of  *)
(* several Maven repositories, unpacked and read.  The DDL is fetched once *)
(* for the image and once more for the environment of the pods.            *)
(*                                                                         *)
(* The repositories are tried in the order in which Go happens to range    *)
(* over a map, another one for each loop.  They belong to others, who      *)
(* publish artifacts meanwhile, and they may be out of service.            *)
(***************************************************************************)
EXTENDS Maven, FiniteSets

CONSTANTS
    Urls,              \* key of a repository -> its URL, with instructions
    Coordinates,       \* the artifacts there may be
    Contents,          \* coordinate -> the DDL such an artifact may contain
    SnapshotVersions,  \* the versions that contain SNAPSHOT
    Stamps,            \* the time stamps of snapshots, in order
    Ddls, NoDdl,       \* DDL texts; none
    SourceTypes,       \* DDL text -> types of its data sources, in order
    BadNames,          \* DDL texts with an ill-formed data source name
    Materialized,      \* DDL texts with a view to be materialized
    Specs,             \* what the VirtualDatabase may ask for
    Given,             \* where Maven settings are given
    NoImage,
    MaxEdits, MaxOutages, MaxRestarts   \* bounds

\* of a coordinate only the classifier may be empty, no two snapshots have the
\* same time stamp, and a VirtualDatabase has its DDL or names an artifact
ASSUME PayloadAssumption ==
    /\ \A r \in DOMAIN Urls :
          Urls[r] \in Seq([instruction : STRING, value : STRING]) \ {<<>>}
    /\ \A c \in Coordinates :
          /\ c \in [group : STRING, artifact : STRING, version : STRING,
                    type : STRING, classifier : STRING]
          /\ "" \notin {c.group, c.artifact, c.version, c.type}
    /\ Stamps \in Seq(STRING)
    /\ \A i, j \in DOMAIN Stamps : Stamps[i] = Stamps[j] => i = j
    /\ \A c \in Coordinates : Contents[c] \subseteq Ddls \cup {NoDdl}
    /\ \A d \in Ddls : SourceTypes[d] \in Seq(STRING)
    /\ \A s \in Specs : /\ s.dependencies \in Seq(Seq(STRING))
                        /\ s.maven = <<>> => s.ddl \in Ddls

VARIABLES
    spec,        \* the VirtualDatabase
    holds,       \* repository -> the artifacts it has
    up,          \* repository -> is it in service?
    call,        \* the fetch under way, and how the last one ended
    file,        \* /tmp/teiid.vdb, and the vdb.ddl last unpacked for the VDB
    image,       \* the payload of the image
    pods,        \* what the environment of the pods was derived from
    used         \* how much of the bounds, and of the stamps, has been used

payloadVars == <<spec, holds, up, call, file, image, pods, used>>

Repos == DOMAIN Urls

Idle == [step |-> "idle", for |-> "build", left |-> {}, version |-> "",
         available |-> {}, hampered |-> FALSE, failed |-> FALSE]

NoFile == [archive |-> {}, unpacked |-> NoDdl]

PayloadInit ==
    /\ spec \in Specs
    /\ holds = [r \in Repos |-> {}]
    /\ up = [r \in Repos |-> TRUE]
    /\ call = Idle
    /\ file = NoFile
    /\ image = NoImage /\ pods = NoImage
    /\ used = [edits |-> 0, outages |-> 0, restarts |-> 0, stamps |-> 0]

-----------------------------------------------------------------------------
(* What a repository answers.                                               *)

Dep == ParseGAV(spec.maven)
IsSnapshot(d) == d.version \in SnapshotVersions

\* the URL is asked for as it is written, its instructions included
Answers(r) == up[r] /\ Len(Urls[r]) = 1

Has(r, path) == \E a \in holds[r] : a.path = path
At(r, path) == CHOOSE a \in holds[r] : a.path = path

\* the snapshots of d's extension that maven-metadata.xml lists: the latest of
\* each classifier
Newer(a, b) ==
    \E i, j \in DOMAIN Stamps : i > j /\ a.path.version = Stamps[i]
                                      /\ b.path.version = Stamps[j]
Of(r, d) == {a \in holds[r] : /\ a.path.group = d.group
                              /\ a.path.artifact = d.artifact
                              /\ a.path.dir = d.version
                              /\ a.path.ext = d.type}
Listed(r, d) ==
    {a.path.version : a \in {b \in Of(r, d) :
        \A c \in Of(r, d) : c.path.classifier = b.path.classifier => ~Newer(c, b)}}

Available(r, d) ==
    IF IsSnapshot(d) THEN Listed(r, d) # {} ELSE Has(r, Path(d, d.version))

\* the documented ways to write a coordinate
Names(gav, c) ==
    \/ /\ c.classifier # ""
       /\ gav = <<c.group, c.artifact, c.type, c.classifier, c.version>>
    \/ c.classifier = "" /\ gav = <<c.group, c.artifact, c.type, c.version>>
    \/ c.classifier = "" /\ c.type = "jar" /\ gav = <<c.group, c.artifact, c.version>>

\* the repositories to which a coordinate means what the user means by it
Offering == {r \in Repos : /\ Len(Urls[r]) = 1
                           /\ \E c \in Coordinates :
                                 Names(spec.maven, c) /\ Available(r, c)}

-----------------------------------------------------------------------------
(* The files sent to the build.                                             *)

Places == <<"own secret", "own config map", "shared secret", "shared config map">>

\* (mutant) the shared settings are looked at first
ReadMavenSettingsFileShared(unseen) ==
    LET found == {i \in DOMAIN Places : Places[i] \in Given \ unseen}
    IN  IF found = {} THEN "generated"
        ELSE Places[CHOOSE i \in found : \A j \in found : j <= i]

\* a place that cannot be read is one that is not there
ReadMavenSettingsFile(unseen) ==
    LET found == {i \in DOMAIN Places : Places[i] \in Given \ unseen}
    IN  IF found = {} THEN "generated"
        ELSE Places[CHOOSE i \in found : \A j \in found : i <= j]

BadPayload(ddl) == ddl \in BadNames \/ BadDependencies(spec)

VdbPayload(ddl, artifact, ispn, unseen) ==
    LET store == ddl \in Materialized /\ ispn
    IN  [spec |-> spec, ddl |-> ddl, from |-> artifact,
         pom |-> GenerateVdbPom(spec, SourceTypes[ddl], FALSE, spec.openapi, store),
         vdbFile |-> IF store THEN "materialized.ddl" ELSE "teiid.ddl",
         settings |-> ReadMavenSettingsFile(unseen), unseen |-> unseen]

\* the fat jar is copied by Maven, not downloaded by the operator
JarPayload ==
    [spec |-> spec, ddl |-> NoDdl, from |-> {}, pom |-> <<>>, vdbFile |-> "app.jar",
     settings |-> "none", unseen |-> {}]

\* the call ends, with an error or without; the payload has been sent
Ended(failed) == call' = [call EXCEPT !.step = "idle", !.failed = failed]

\* a place that is seen and then cannot be read is an error
BuildWith(ddl, artifact) ==
    /\ \/ /\ ~BadPayload(ddl)
          /\ \E ispn \in BOOLEAN, unseen \in SUBSET Given :
                image' = VdbPayload(ddl, artifact, ispn, unseen)
       \/ /\ BadPayload(ddl) \/ Given # {}
          /\ UNCHANGED image
    /\ call' = Idle

DeployWith(ddl) ==
    /\ pods' = [spec |-> spec, ddl |-> ddl]
    /\ call' = Idle

\* (mutant) the pods are configured by the DDL in the resource
UseOwn(ddl, artifact) ==
    IF call.for = "build" THEN BuildWith(ddl, artifact) /\ UNCHANGED pods
                          ELSE DeployWith(spec.ddl) /\ UNCHANGED image

Use(ddl, artifact) ==
    IF call.for = "build" THEN BuildWith(ddl, artifact) /\ UNCHANGED pods
                          ELSE DeployWith(ddl) /\ UNCHANGED image

-----------------------------------------------------------------------------
(* The handlers that need the DDL.                                          *)

\* the payload comes first, and the Deployment once its image is there
Begins(p) ==
    /\ call.step = "idle"
    /\ p = "deploy" => image # NoImage /\ image.spec = spec

BuildJar ==
    /\ Begins("build")
    /\ IsFatJarBuild(spec.maven) /\ ~BadGAV(spec.maven)
    /\ image' = JarPayload
    /\ call' = Idle
    /\ UNCHANGED <<spec, holds, up, file, pods, used>>

\* FetchDdl of a resource that has no Maven source
UseDdl(p) ==
    /\ Begins(p)
    /\ spec.maven = <<>>
    /\ IF p = "build" THEN BuildWith(spec.ddl, {}) /\ UNCHANGED pods
                      ELSE DeployWith(spec.ddl) /\ UNCHANGED image
    /\ UNCHANGED <<spec, holds, up, file, used>>

\* readDdlFromMavenRepo; a coordinate that is none is an error
Fetch(p) ==
    /\ Begins(p)
    /\ spec.maven # <<>> /\ ~BadGAV(spec.maven)
    /\ p = "build" => ~IsFatJarBuild(spec.maven)
    /\ call' = [Idle EXCEPT !.step = IF IsSnapshot(Dep) THEN "metadata" ELSE "artifact",
                            !.for = p, !.left = Repos, !.version = Dep.version,
                            !.available = Offering]
    /\ UNCHANGED <<spec, holds, up, file, image, pods, used>>

Left(r) == [call EXCEPT !.left = @ \ {r}, !.hampered = @ \/ ~up[r]]

\* (mutant) the second loop goes on with the repositories the first has left
FoundVersionGoesOn(r, version) ==
    [call EXCEPT !.step = "artifact", !.left = @ \ {r}, !.version = version]

\* the second loop is over all repositories
FoundVersion(r, version) ==
    [call EXCEPT !.step = "artifact", !.left = Repos, !.version = version]

\* getSnapshotVersion: one repository of its loop
TryMetadata(r) ==
    /\ call.step = "metadata" /\ r \in call.left
    /\ \/ /\ Answers(r)
          /\ \E version \in Listed(r, Dep) : call' = FoundVersion(r, version)
       \/ /\ ~Answers(r) \/ Listed(r, Dep) = {}
          /\ call' = Left(r)
    /\ UNCHANGED <<spec, holds, up, file, image, pods, used>>

\* DownloadDependency: one repository of its loop; the file is emptied first
TryArtifact(r) ==
    LET path == Path(Dep, call.version)
    IN  /\ call.step = "artifact" /\ r \in call.left
        /\ \/ /\ Answers(r) /\ Has(r, path)
              /\ file' = [file EXCEPT !.archive = {At(r, path)}]
              /\ call' = [call EXCEPT !.step = "unzip"]
           \/ /\ ~(Answers(r) /\ Has(r, path))
              /\ file' = [file EXCEPT !.archive = {}]
              /\ call' = Left(r)
        /\ UNCHANGED <<spec, holds, up, image, pods, used>>

\* no repository had it
GiveUp ==
    /\ call.step \in {"metadata", "artifact"} /\ call.left = {}
    /\ Ended(TRUE)
    /\ UNCHANGED <<spec, holds, up, file, image, pods, used>>

\* (mutant) a file that is there already is not written again
UnpackedOnce(a) == IF file.unpacked = NoDdl THEN a.ddl ELSE file.unpacked

\* the directory is not emptied: without a vdb.ddl in the archive, the one of
\* an earlier archive stays
Unpacked(a) == IF a.ddl = NoDdl THEN file.unpacked ELSE a.ddl

UnzipAndRead ==
    /\ call.step = "unzip"
    /\ \E a \in file.archive :
          /\ file' = [file EXCEPT !.unpacked = Unpacked(a)]
          /\ IF Unpacked(a) = NoDdl
             THEN call' = Idle /\ UNCHANGED <<image, pods>>
             ELSE Use(Unpacked(a), {a})
    /\ UNCHANGED <<spec, holds, up, used>>

-----------------------------------------------------------------------------
(* The world around.                                                        *)

\* the user asks for something else; the handlers then start over
Edit ==
    /\ used.edits < MaxEdits
    /\ call.step = "idle"
    /\ \E s \in Specs \ {spec} : spec' = s
    /\ used' = [used EXCEPT !.edits = @ + 1]
    /\ UNCHANGED <<holds, up, call, file, image, pods>>

\* An artifact is published: a snapshot under a new time stamp, a release once
\* and with the same content everywhere.
Publish(r, c, ddl) ==
    LET path == Path(c, IF IsSnapshot(c) THEN Stamps[used.stamps + 1] ELSE c.version)
    IN  /\ used.stamps < Len(Stamps)
        /\ \A s \in Repos : Has(s, path) => At(s, path).ddl = ddl
        /\ ~Has(r, path)
        /\ holds' = [holds EXCEPT ![r] = @ \cup {[path |-> path, ddl |-> ddl]}]
        /\ used' = [used EXCEPT !.stamps = @ + 1]
        /\ UNCHANGED <<spec, up, call, file, image, pods>>

Outage(r) ==
    /\ up[r] /\ used.outages < MaxOutages
    /\ up' = [up EXCEPT ![r] = FALSE]
    /\ used' = [used EXCEPT !.outages = @ + 1]
    /\ UNCHANGED <<spec, holds, call, file, image, pods>>

Restore(r) ==
    /\ ~up[r]
    /\ up' = [up EXCEPT ![r] = TRUE]
    /\ UNCHANGED <<spec, holds, call, file, image, pods, used>>

\* the operator restarts, in a container with an empty /tmp
Restart ==
    /\ used.restarts < MaxRestarts
    /\ call' = Idle /\ file' = NoFile
    /\ used' = [used EXCEPT !.restarts = @ + 1]
    /\ UNCHANGED <<spec, holds, up, image, pods>>

PayloadNext ==
    \/ BuildJar
    \/ \E p \in {"build", "deploy"} : UseDdl(p) \/ Fetch(p)
    \/ GiveUp
    \/ UnzipAndRead
    \/ \E r \in Repos : \/ TryMetadata(r) \/ TryArtifact(r)
                        \/ Outage(r) \/ Restore(r)
                        \/ \E c \in Coordinates : \E d \in Contents[c] :
                              Publish(r, c, d)
    \/ Edit
    \/ Restart

PayloadSpec == PayloadInit /\ [][PayloadNext]_payloadVars

-----------------------------------------------------------------------------
(* Properties.                                                              *)

Built == image # NoImage

\* The artifact an image is made of is the one its VirtualDatabase names in one
\* of the documented forms, of that type and classifier and, but for the time
\* stamp, that version; and the DDL in the image is the one in that artifact,
\* not one unpacked before, if the artifact has one at all.
ImageOfTheArtifactNamed ==
    Built => \A a \in image.from :
        /\ \A c \in Coordinates :
              Names(image.spec.maven, c) =>
                 a.path = Path(c, IF IsSnapshot(c) THEN a.path.version ELSE c.version)
        /\ a.ddl # NoDdl => image.ddl = a.ddl

\* A snapshot is looked up by its type, whatever its classifier: no two may
\* differ in the classifier alone.
ClassifiersDecided ==
    \A c, d \in Coordinates :
        /\ IsSnapshot(c) /\ c.group = d.group /\ c.artifact = d.artifact
        /\ c.version = d.version /\ c.type = d.type
        => c = d

\* A download of what a documented coordinate names fails only if no repository
\* with a plain URL had it when the download began, or one of them was out of
\* service: in whatever orders the two loops go through the repositories, and
\* whatever is published meanwhile, other than a snapshot that differs from the
\* one named in its classifier alone.
NoSpuriousFailure ==
    ClassifiersDecided =>
        (call.failed => call.available = {} \/ call.hampered)

\* The pods are configured for the data sources of the DDL in the image, which
\* is fetched anew for them, unless it is a snapshot, of which another may have
\* been published, the image is a fat jar, or the artifact had no DDL and what
\* was unpacked before it was taken instead.
PodsFitImage ==
    /\ Built /\ pods # NoImage /\ pods.spec = image.spec
    /\ image.spec.maven # <<>> =>
          /\ ~IsSnapshot(ParseGAV(image.spec.maven))
          /\ ~IsFatJarBuild(image.spec.maven)
          /\ \A a \in image.from : a.ddl # NoDdl
    => pods.ddl = image.ddl

\* The project names no artifact twice, and what a user asks for is in it in
\* the version asked for first, unless it is one every project starts with.
UserVersionsWin ==
    Built /\ image.pom # <<>> =>
        /\ \A i, j \in DOMAIN image.pom :
              Mentions(<<image.pom[i]>>, image.pom[j]) => i = j
        /\ LET asked == UserDependencies(image.spec)
           IN  \A i \in DOMAIN asked :
                  \/ Mentions(BaseDependencies \o SubSeq(asked, 1, i - 1), asked[i])
                  \/ \E j \in DOMAIN image.pom : image.pom[j] = asked[i]

\* Whatever the operator adds to a project is in the builder image already,
\* which is built once for all of them.
BuilderHasAll ==
    Built => \A i \in DOMAIN image.pom :
        \/ Mentions(BuilderPom, image.pom[i])
        \/ Mentions(UserDependencies(image.spec), image.pom[i])

\* Settings for one VirtualDatabase take precedence over shared ones, and
\* generated ones are a last resort, as long as all reads succeed; they
\* list every repository under the key it was configured with, whatever its URL
\* says.
SettingsObeyed ==
    Built =>
        /\ image.unseen = {} /\ image.settings # "none" =>
              \A i \in DOMAIN Places : Places[i] \in Given =>
                 \E j \in 1..i : image.settings = Places[j]
        /\ {r.id : r \in Repositories(Urls)} = Repos
=============================================================================
