---------------------------- MODULE PayloadProofs ----------------------------
(***************************************************************************)
(* Proofs about Payload: what an image is made of, when a download may     *)
(* fail, and that the pods are configured for what is in the image, for    *)
(* every set of repositories, coordinates and VirtualDatabases, any number *)
(* of edits, outages and restarts, and whatever is published meanwhile.    *)
(***************************************************************************)
EXTENDS Payload, WellFoundedInduction, SequenceTheorems, TLAPS

-----------------------------------------------------------------------------
(* Coordinates.                                                             *)

LEMMA PartIsThere ==
    ASSUME NEW gav, NEW i \in DOMAIN gav
    PROVE  Part(gav, i) = gav[i]
  BY DEF Part

LEMMA LeastIsOne ==
    ASSUME NEW S, S \subseteq Nat \ {0}, 1 \in S
    PROVE  (CHOOSE i \in S : \A j \in S : i <= j) = 1
<1>1. \A j \in S : 1 <= j
  OBVIOUS
<1>2. ASSUME NEW i \in S, \A j \in S : i <= j
      PROVE  i = 1
  BY <1>2
<1>. QED  BY <1>1, <1>2, Zenon

\* a coordinate whose first two parts are there is read from its start
LEMMA StartsAtOne ==
    ASSUME NEW gav, NEW n \in Nat, n > 1, DOMAIN gav = 1..n
    PROVE  gav[1] # "" /\ gav[2] # "" =>
              Start(gav) = 1
<1>1. 1 \in DOMAIN gav /\ 2 \in DOMAIN gav /\ 1 + 1 = 2 /\ DOMAIN gav \subseteq Nat \ {0}
  BY SMT
<1>2. Starts(gav) \subseteq DOMAIN gav
  BY Zenon DEF Starts
<1>3. Starts(gav) \subseteq Nat \ {0}
  BY <1>1, <1>2, Zenon
<1>4. ASSUME gav[1] # "", gav[2] # ""
      PROVE  1 \in Starts(gav)
  <2>1. Part(gav, 1) # "" /\ Part(gav, 2) # ""
    BY <1>1, <1>4, PartIsThere, Zenon
  <2>2. Part(gav, 1 + 1) # ""
    BY <1>1, <2>1, Zenon
  <2>. QED  BY <1>1, <2>1, <2>2, Zenon DEF Starts
<1>. QED  BY <1>3, <1>4, LeastIsOne, Zenon DEF Start

LEMMA FewNumbers ==
    /\ 1 + 1 = 2 /\ 1 + 2 = 3 /\ 1 + 3 = 4 /\ 1 + 4 = 5
    /\ 3 # 4 /\ 5 \notin {3, 4} /\ 5 # 3 /\ 5 # 4
  OBVIOUS

\* what is read of a coordinate that is read from its start
LEMMA ParsedThree ==
    ASSUME NEW gav, Start(gav) = 1, Len(gav) = 3
    PROVE  ParseGAV(gav) = [group |-> gav[1], artifact |-> gav[2], version |-> Part(gav, 3),
                            type |-> "jar", classifier |-> ""]
  BY FewNumbers, Zenon DEF ParseGAV

LEMMA ParsedFour ==
    ASSUME NEW gav, Start(gav) = 1, Len(gav) = 4
    PROVE  ParseGAV(gav) = [group |-> gav[1], artifact |-> gav[2], version |-> Part(gav, 4),
                            type |-> Part(gav, 3), classifier |-> ""]
  BY FewNumbers, Zenon DEF ParseGAV

LEMMA ParsedFive ==
    ASSUME NEW gav, Start(gav) = 1, Len(gav) = 5, Part(gav, 4) # ""
    PROVE  ParseGAV(gav) = [group |-> gav[1], artifact |-> gav[2], version |-> Part(gav, 5),
                            type |-> Part(gav, 3), classifier |-> Part(gav, 4)]
  BY FewNumbers, Zenon DEF ParseGAV

\* a coordinate written in a documented form is understood
LEMMA ParseNamed ==
    ASSUME NEW c \in Coordinates, NEW gav, Names(gav, c)
    PROVE  ParseGAV(gav) = c
<1>1. /\ c \in [group : STRING, artifact : STRING, version : STRING,
                type : STRING, classifier : STRING]
      /\ c.group # "" /\ c.artifact # "" /\ c.version # "" /\ c.type # ""
  BY PayloadAssumption
<1>2. c = [group |-> c.group, artifact |-> c.artifact, version |-> c.version,
           type |-> c.type, classifier |-> c.classifier]
  BY <1>1
<1>3. CASE c.classifier # "" /\ gav = <<c.group, c.artifact, c.type, c.classifier, c.version>>
  <2>1. gav = <<c.group, c.artifact, c.type, c.classifier, c.version>>
    BY <1>3
  <2>2. Len(gav) = 5
    BY <2>1
  <2>3. DOMAIN gav = 1..5
    BY <2>1
  <2>4. /\ gav[1] = c.group /\ gav[2] = c.artifact /\ gav[3] = c.type
        /\ gav[4] = c.classifier /\ gav[5] = c.version
    BY <2>1
  <2>5. Start(gav) = 1
    <3>1. gav[1] # "" /\ gav[2] # ""
      BY <2>4, <1>1, Zenon
    <3>2. 3 \in Nat /\ 3 > 1 /\ 4 \in Nat /\ 4 > 1 /\ 5 \in Nat /\ 5 > 1
      OBVIOUS
    <3>. QED  BY <2>3, <3>1, <3>2, StartsAtOne, Zenon
  <2>6. Part(gav, 3) = gav[3] /\ Part(gav, 4) = gav[4] /\ Part(gav, 5) = gav[5]
    BY <2>3, PartIsThere
  <2>. QED  BY <2>2, <2>4, <2>5, <2>6, <1>2, <1>3, ParsedFive
<1>4. CASE c.classifier = "" /\ gav = <<c.group, c.artifact, c.type, c.version>>
  <2>1. gav = <<c.group, c.artifact, c.type, c.version>>
    BY <1>4
  <2>2. Len(gav) = 4
    BY <2>1
  <2>3. DOMAIN gav = 1..4
    BY <2>1
  <2>4. /\ gav[1] = c.group /\ gav[2] = c.artifact /\ gav[3] = c.type
        /\ gav[4] = c.version
    BY <2>1
  <2>5. Start(gav) = 1
    <3>1. gav[1] # "" /\ gav[2] # ""
      BY <2>4, <1>1, Zenon
    <3>2. 3 \in Nat /\ 3 > 1 /\ 4 \in Nat /\ 4 > 1 /\ 5 \in Nat /\ 5 > 1
      OBVIOUS
    <3>. QED  BY <2>3, <3>1, <3>2, StartsAtOne, Zenon
  <2>6. Part(gav, 3) = gav[3] /\ Part(gav, 4) = gav[4]
    BY <2>3, PartIsThere
  <2>. QED  BY <2>2, <2>4, <2>5, <2>6, <1>2, <1>4, ParsedFour
<1>5. CASE c.classifier = "" /\ c.type = "jar" /\ gav = <<c.group, c.artifact, c.version>>
  <2>1. gav = <<c.group, c.artifact, c.version>>
    BY <1>5
  <2>2. Len(gav) = 3
    BY <2>1
  <2>3. DOMAIN gav = 1..3
    BY <2>1
  <2>4. gav[1] = c.group /\ gav[2] = c.artifact /\ gav[3] = c.version
    BY <2>1
  <2>5. Start(gav) = 1
    <3>1. gav[1] # "" /\ gav[2] # ""
      BY <2>4, <1>1, Zenon
    <3>2. 3 \in Nat /\ 3 > 1 /\ 4 \in Nat /\ 4 > 1 /\ 5 \in Nat /\ 5 > 1
      OBVIOUS
    <3>. QED  BY <2>3, <3>1, <3>2, StartsAtOne, Zenon
  <2>6. Part(gav, 3) = gav[3]
    BY <2>3, PartIsThere
  <2>. QED  BY <2>2, <2>4, <2>5, <2>6, <1>2, <1>5, ParsedThree
<1>. QED  BY <1>3, <1>4, <1>5 DEF Names

-----------------------------------------------------------------------------
(* The inductive invariant.                                                 *)

\* what the repositories have
Artifacts == UNION {holds[r] : r \in Repos}

\* a is what s names: its coordinate but for the time stamp of a snapshot
Named(s, a) ==
    LET d == ParseGAV(s.maven)
    IN  /\ a.path = Path(d, a.path.version)
        /\ IsSnapshot(d) \/ a.path.version = d.version

\* this DDL is the one in the artifact, if there is one in it
Gives(a, ddl) == a.ddl # NoDdl => ddl = a.ddl

Shapes ==
    /\ call = [step |-> call.step, for |-> call.for, left |-> call.left,
               version |-> call.version, available |-> call.available,
               hampered |-> call.hampered, failed |-> call.failed]
    /\ file = [archive |-> file.archive, unpacked |-> file.unpacked]
    /\ DOMAIN holds = Repos

\* what is kept was published, and what is kept in one place is the same in
\* all repositories
KeptOK ==
    /\ \A a \in Artifacts : \E c \in Coordinates : a.path = Path(c, a.path.version)
    /\ \A a, b \in Artifacts : a.path = b.path => a.ddl = b.ddl

\* a fetch is of what the resource names now
UnderWay ==
    /\ call.step # "idle" => spec.maven # <<>>
    /\ call.step = "metadata" => IsSnapshot(Dep)
    /\ call.step \in {"artifact", "unzip"} =>
          IsSnapshot(Dep) \/ call.version = Dep.version
    /\ call.step = "unzip" =>
          \E a \in Artifacts : file.archive = {a} /\ a.path = Path(Dep, call.version)

ImageOK(i) ==
    i # NoImage =>
       /\ \A a \in i.from : Named(i.spec, a) /\ Gives(a, i.ddl)
       /\ i.spec.maven = <<>> => i.ddl = i.spec.ddl
       /\ i.spec.maven # <<>> /\ ~IsFatJarBuild(i.spec.maven) =>
             \E a \in Artifacts : i.from = {a}
       /\ i.settings = "none" \/ i.settings = ReadMavenSettingsFile(i.unseen)

PodsOK(p) ==
    p # NoImage =>
       /\ p.spec.maven = <<>> => p.ddl = p.spec.ddl
       /\ p.spec.maven # <<>> => \E a \in Artifacts : Named(p.spec, a) /\ Gives(a, p.ddl)

PayloadInv == Shapes /\ KeptOK /\ UnderWay /\ ImageOK(image) /\ PodsOK(pods)

LEMMA PathFields ==
    ASSUME NEW d, NEW v
    PROVE  /\ Path(d, v).group = d.group /\ Path(d, v).artifact = d.artifact
           /\ Path(d, v).dir = d.version /\ Path(d, v).version = v
           /\ Path(d, v).classifier = d.classifier
           /\ d.type # "" => Path(d, v).ext = d.type
  BY Zenon DEF Path

\* what is published stays
LEMMA ArtifactsGrow ==
    ASSUME Shapes, [PayloadNext]_payloadVars
    PROVE  (\A r \in Repos : holds[r] \subseteq holds'[r]) /\ Artifacts \subseteq Artifacts'
<1>1. \A r \in Repos : holds[r] \subseteq holds'[r]
  <2>1. ASSUME NEW q \in Repos, NEW c, NEW d, Publish(q, c, d)
        PROVE  \A r \in Repos : holds[r] \subseteq holds'[r]
    BY <2>1 DEF Publish, Shapes
  <2>2. CASE UNCHANGED holds
    BY <2>2
  <2>. QED  BY <2>1, <2>2 DEF PayloadNext, payloadVars, BuildJar, UseDdl, Fetch, GiveUp,
                UnzipAndRead, TryMetadata, TryArtifact, Outage, Restore, Edit, Restart
<1>. QED  BY <1>1 DEF Artifacts

LEMMA ImageStays ==
    ASSUME ImageOK(image), UNCHANGED image, Artifacts \subseteq Artifacts'
    PROVE  ImageOK(image)'
  BY DEF ImageOK

LEMMA PodsStay ==
    ASSUME PodsOK(pods), UNCHANGED pods, Artifacts \subseteq Artifacts'
    PROVE  PodsOK(pods)'
  BY DEF PodsOK

-----------------------------------------------------------------------------
(* Every step keeps the invariant.                                          *)

LEMMA InitInv == PayloadInit => PayloadInv
<1>. SUFFICES ASSUME PayloadInit PROVE PayloadInv
  OBVIOUS
<1>. USE DEF PayloadInit
<1>1. Shapes
  BY DEF Shapes, Idle, NoFile
<1>2. Artifacts = {}
  BY DEF Artifacts
<1>3. KeptOK
  BY <1>2 DEF KeptOK
<1>4. UnderWay
  BY DEF UnderWay, Idle
<1>. QED  BY <1>1, <1>3, <1>4 DEF PayloadInv, ImageOK, PodsOK

LEMMA ShapesKept ==
    ASSUME Shapes, [PayloadNext]_payloadVars
    PROVE  Shapes'
<1>. DEFINE C == call = [step |-> call.step, for |-> call.for, left |-> call.left,
                         version |-> call.version, available |-> call.available,
                         hampered |-> call.hampered, failed |-> call.failed]
            F == file = [archive |-> file.archive, unpacked |-> file.unpacked]
<1>1. C /\ F /\ DOMAIN holds = Repos
  BY DEF Shapes
<1>2. call' = Idle => C'
  BY DEF Idle
<1>3. file' = NoFile => F'
  BY DEF NoFile
<1>4. call' = call => C'
  BY <1>1
<1>5. file' = file => F'
  BY <1>1
<1>6. holds' = holds => DOMAIN holds' = Repos
  BY <1>1
<1>7. ASSUME NEW p, Fetch(p)
      PROVE  C'
  BY <1>7 DEF Fetch, Idle
<1>8. ASSUME NEW r, call' = Left(r)
      PROVE  C'
  BY <1>1, <1>8 DEF Left
<1>9. ASSUME NEW r, NEW v, call' = FoundVersion(r, v)
      PROVE  C'
  BY <1>1, <1>9 DEF FoundVersion
<1>10. (call' = [call EXCEPT !.step = "unzip"] => C') /\ (\A b : Ended(b) => C')
  BY <1>1 DEF Ended
<1>11. /\ \A x : file' = [file EXCEPT !.archive = x] => F'
       /\ \A x : file' = [file EXCEPT !.unpacked = x] => F'
  BY <1>1
<1>12. ASSUME NEW r, NEW c, NEW d, Publish(r, c, d)
       PROVE  DOMAIN holds' = Repos
  BY <1>1, <1>12 DEF Publish
<1>13. ASSUME NEW ddl, NEW a, BuildWith(ddl, a) \/ DeployWith(ddl) \/ Use(ddl, a)
       PROVE  call' = Idle
  BY <1>13 DEF Use, BuildWith, DeployWith
<1>. HIDE DEF C, F
<1>14. C'
  <2>1. CASE UNCHANGED call
    BY <2>1, <1>4
  <2>2. CASE call' = Idle
    BY <2>2, <1>2
  <2>3. ASSUME NEW p, UseDdl(p)
        PROVE  C'
    BY <2>3, <2>2, <1>13 DEF UseDdl
  <2>4. ASSUME NEW r, TryMetadata(r)
        PROVE  C'
    BY <2>4, <1>8, <1>9 DEF TryMetadata
  <2>5. ASSUME NEW r, TryArtifact(r)
        PROVE  C'
    BY <2>5, <1>8, <1>10 DEF TryArtifact
  <2>6. CASE UnzipAndRead
    BY <2>6, <2>2, <1>13 DEF UnzipAndRead
  <2>7. CASE GiveUp
    BY <2>7, <1>10 DEF GiveUp
  <2>. QED  BY <2>1, <2>2, <2>3, <2>4, <2>5, <2>6, <2>7, <1>7
            DEF PayloadNext, payloadVars, BuildJar, Outage, Restore, Edit, Restart, Publish
<1>15. F'
  <2>1. CASE UNCHANGED file
    BY <2>1, <1>5
  <2>2. CASE file' = NoFile
    BY <2>2, <1>3
  <2>3. ASSUME NEW r, TryArtifact(r)
        PROVE  F'
    BY <2>3, <1>11 DEF TryArtifact
  <2>4. CASE UnzipAndRead
    BY <2>4, <1>11 DEF UnzipAndRead
  <2>. QED  BY <2>1, <2>2, <2>3, <2>4
            DEF PayloadNext, payloadVars, BuildJar, UseDdl, Fetch, GiveUp, TryMetadata,
                Outage, Restore, Edit, Restart, Publish
<1>16. DOMAIN holds' = Repos
  BY <1>6, <1>12 DEF PayloadNext, payloadVars, BuildJar, UseDdl, Fetch, GiveUp, UnzipAndRead,
                TryMetadata, TryArtifact, Outage, Restore, Edit, Restart
<1>. QED  BY <1>14, <1>15, <1>16 DEF Shapes, C, F

\* what is at a path is what is published there, once for all repositories
LEMMA PublishKept ==
    ASSUME Shapes, KeptOK, NEW r \in Repos, NEW c \in Coordinates, NEW ddl,
           Publish(r, c, ddl)
    PROVE  KeptOK'
<1>. DEFINE v == IF IsSnapshot(c) THEN Stamps[used.stamps + 1] ELSE c.version
            path == Path(c, v)
            n == [path |-> path, ddl |-> ddl]
<1>1. /\ \A s \in Repos : Has(s, path) => At(s, path).ddl = ddl
      /\ holds' = [holds EXCEPT ![r] = @ \cup {n}]
  BY DEF Publish
<1>. HIDE DEF v
<1>2. path.version = v
  BY PathFields, Zenon
<1>. HIDE DEF path
<1>3. n.path = path /\ n.ddl = ddl
  OBVIOUS
<1>. HIDE DEF n
<1>4. Artifacts' = Artifacts \cup {n}
  BY <1>1 DEF Artifacts, Shapes
<1>5. \A a \in Artifacts' : \E e \in Coordinates : a.path = Path(e, a.path.version)
  <2>1. n.path = Path(c, n.path.version)
    BY <1>2, <1>3 DEF path
  <2>. QED  BY <2>1, <1>4 DEF KeptOK
<1>6. ASSUME NEW b \in Artifacts, b.path = path
      PROVE  b.ddl = ddl
  <2>1. PICK s \in Repos : b \in holds[s]
    BY DEF Artifacts
  <2>2. Has(s, path)
    BY <2>1, <1>6 DEF Has
  <2>3. At(s, path) \in holds[s] /\ At(s, path).path = path
    BY <2>2 DEF Has, At
  <2>4. At(s, path).ddl = ddl
    BY <2>2, <1>1
  <2>5. At(s, path) \in Artifacts
    BY <2>3 DEF Artifacts
  <2>. QED  BY <2>3, <2>4, <2>5, <1>6 DEF KeptOK
<1>7. \A a, b \in Artifacts' : a.path = b.path => a.ddl = b.ddl
  BY <1>3, <1>4, <1>6 DEF KeptOK
<1>. QED  BY <1>5, <1>7 DEF KeptOK

LEMMA KeptKept ==
    ASSUME Shapes, KeptOK, [PayloadNext]_payloadVars
    PROVE  KeptOK'
<1>1. CASE UNCHANGED holds
  BY <1>1 DEF KeptOK, Artifacts
<1>. QED  BY <1>1, PublishKept
          DEF PayloadNext, payloadVars, BuildJar, UseDdl, Fetch, GiveUp, UnzipAndRead,
              TryMetadata, TryArtifact, Outage, Restore, Edit, Restart

\* the record of a fetch, as a step of it changes it
LEMMA LeftFields ==
    ASSUME Shapes, NEW r
    PROVE  /\ Left(r).step = call.step /\ Left(r).for = call.for
           /\ Left(r).left = call.left \ {r} /\ Left(r).version = call.version
           /\ Left(r).available = call.available /\ Left(r).failed = call.failed
  BY DEF Left, Shapes

LEMMA FoundFields ==
    ASSUME Shapes, NEW r, NEW v
    PROVE  LET f == FoundVersion(r, v)
           IN  /\ f.step = "artifact" /\ f.for = call.for /\ f.left = Repos
               /\ f.version = v /\ f.available = call.available
               /\ f.failed = call.failed /\ f.hampered = call.hampered
  BY DEF FoundVersion, Shapes

LEMMA FetchFields ==
    ASSUME NEW p, Fetch(p)
    PROVE  /\ call'.step = IF IsSnapshot(Dep) THEN "metadata" ELSE "artifact"
           /\ call'.for = p /\ call'.left = Repos /\ call'.version = Dep.version
           /\ call'.available = Offering /\ call'.hampered = FALSE
           /\ call'.failed = FALSE
  BY DEF Fetch, Idle

LEMMA UnderWayKept ==
    ASSUME Shapes, UnderWay, [PayloadNext]_payloadVars
    PROVE  UnderWay'
<1>0. Artifacts \subseteq Artifacts'
  BY ArtifactsGrow
<1>1. CASE UNCHANGED <<spec, call, file>>
  <2>1. Dep' = Dep
    BY <1>1 DEF Dep
  <2>. QED  BY <1>0, <1>1, <2>1 DEF UnderWay
<1>2. CASE call'.step = "idle"
  BY <1>2 DEF UnderWay
<1>3. ASSUME NEW p, Fetch(p)
      PROVE  UnderWay'
  <2>1. Dep' = Dep /\ spec' = spec /\ spec.maven # <<>>
    BY <1>3 DEF Fetch, Dep
  <2>. QED  BY <1>3, <2>1, FetchFields DEF UnderWay
<1>4. ASSUME NEW r \in Repos, TryMetadata(r)
      PROVE  UnderWay'
  <2>1. Dep' = Dep /\ spec' = spec /\ call.step = "metadata"
    BY <1>4 DEF TryMetadata, Dep
  <2>2. CASE call' = Left(r)
    <3>1. call'.step = "metadata"
      BY <2>1, <2>2, LeftFields
    <3>. QED  BY <2>1, <3>1 DEF UnderWay
  <2>3. ASSUME NEW v, call' = FoundVersion(r, v)
        PROVE  UnderWay'
    <3>1. call'.step = "artifact"
      BY <2>3, FoundFields
    <3>. QED  BY <2>1, <3>1 DEF UnderWay
  <2>. QED  BY <1>4, <2>2, <2>3 DEF TryMetadata
<1>5. ASSUME NEW r \in Repos, TryArtifact(r)
      PROVE  UnderWay'
  <2>. DEFINE path == Path(Dep, call.version)
  <2>1. Dep' = Dep /\ spec' = spec /\ call.step = "artifact"
    BY <1>5 DEF TryArtifact, Dep
  <2>2. CASE call' = Left(r)
    <3>1. call'.step = "artifact" /\ call'.version = call.version
      BY <2>1, <2>2, LeftFields
    <3>. QED  BY <2>1, <3>1 DEF UnderWay
  <2>3. CASE /\ Has(r, path) /\ file' = [file EXCEPT !.archive = {At(r, path)}]
             /\ call' = [call EXCEPT !.step = "unzip"]
    <3>1. call'.step = "unzip" /\ call'.version = call.version
      BY <2>3 DEF Shapes
    <3>2. file'.archive = {At(r, path)}
      BY <2>3 DEF Shapes
    <3>3. At(r, path) \in holds[r] /\ At(r, path).path = path
      BY <2>3 DEF Has, At
    <3>4. At(r, path) \in Artifacts'
      BY <3>3, <1>0 DEF Artifacts
    <3>. QED  BY <2>1, <3>1, <3>2, <3>3, <3>4 DEF UnderWay
  <2>. QED  BY <1>5, <2>2, <2>3 DEF TryArtifact
<1>6. call' = Idle => call'.step = "idle"
  <2>1. Idle.step = "idle"
    BY DEF Idle
  <2>. QED  BY <2>1, Zenon
<1>7. ASSUME NEW p, UseDdl(p)
      PROVE  UnderWay'
  BY <1>7, <1>6, <1>2 DEF UseDdl, BuildWith, DeployWith
<1>8. CASE UnzipAndRead
  BY <1>8, <1>6, <1>2 DEF UnzipAndRead, Use, BuildWith, DeployWith
<1>9. CASE GiveUp
  <2>1. call'.step = "idle"
    BY <1>9 DEF GiveUp, Ended, Shapes
  <2>. QED  BY <2>1, <1>2
<1>10. CASE Edit
  <2>1. call'.step = "idle"
    BY <1>10 DEF Edit
  <2>. QED  BY <2>1, <1>2
<1>. QED  BY <1>1, <1>2, <1>3, <1>4, <1>5, <1>6, <1>7, <1>8, <1>9, <1>10
          DEF PayloadNext, payloadVars, BuildJar, Outage, Restore, Restart, Publish

\* an image made of what was just read
LEMMA BuildWithOK ==
    ASSUME NEW ddl, NEW from, BuildWith(ddl, from), ImageOK(image),
           Artifacts \subseteq Artifacts',
           \A a \in from : Named(spec, a) /\ Gives(a, ddl),
           spec.maven = <<>> => ddl = spec.ddl,
           spec.maven # <<>> => \E a \in Artifacts : from = {a}
    PROVE  ImageOK(image)'
<1>1. CASE UNCHANGED image
  BY <1>1, ImageStays
<1>2. ASSUME NEW ispn, NEW unseen, image' = VdbPayload(ddl, from, ispn, unseen)
      PROVE  ImageOK(image)'
  <2>1. /\ image'.spec = spec /\ image'.ddl = ddl /\ image'.from = from
        /\ image'.settings = ReadMavenSettingsFile(unseen) /\ image'.unseen = unseen
    BY <1>2 DEF VdbPayload
  <2>. QED  BY <2>1 DEF ImageOK
<1>. QED  BY <1>1, <1>2 DEF BuildWith

LEMMA DeployWithOK ==
    ASSUME NEW ddl, DeployWith(ddl), Artifacts \subseteq Artifacts',
           spec.maven = <<>> => ddl = spec.ddl,
           spec.maven # <<>> => \E a \in Artifacts : Named(spec, a) /\ Gives(a, ddl)
    PROVE  PodsOK(pods)'
<1>1. pods'.spec = spec /\ pods'.ddl = ddl
  BY DEF DeployWith
<1>. QED  BY <1>1 DEF PodsOK

\* what is unpacked is what the resource names, and gives the DDL that is read
LEMMA UnzipAndReadOK ==
    ASSUME PayloadInv, UnzipAndRead, Artifacts \subseteq Artifacts'
    PROVE  ImageOK(image)' /\ PodsOK(pods)'
<1>0. /\ UnderWay /\ ImageOK(image) /\ PodsOK(pods) /\ call.step = "unzip"
  BY DEF PayloadInv, UnzipAndRead
<1>1. PICK a \in file.archive :
          IF Unpacked(a) = NoDdl
          THEN call' = Idle /\ UNCHANGED <<image, pods>>
          ELSE Use(Unpacked(a), {a})
  BY DEF UnzipAndRead
<1>2. /\ spec.maven # <<>> /\ a \in Artifacts /\ a.path = Path(Dep, call.version)
      /\ IsSnapshot(Dep) \/ call.version = Dep.version
  BY <1>0, <1>1 DEF UnderWay
<1>3. Named(spec, a)
  <2>1. a.path.version = call.version
    <3>1. Path(Dep, call.version).version = call.version
      BY DEF Path
    <3>. QED  BY <1>2, <3>1
  <2>. QED  BY <1>2, <2>1 DEF Named, Dep
<1>4. Gives(a, Unpacked(a))
  BY DEF Gives, Unpacked
<1>5. CASE Unpacked(a) = NoDdl
  BY <1>0, <1>1, <1>5, ImageStays, PodsStay
<1>6. CASE BuildWith(Unpacked(a), {a}) /\ UNCHANGED pods
  BY <1>0, <1>2, <1>3, <1>4, <1>6, BuildWithOK, PodsStay
<1>7. CASE DeployWith(Unpacked(a)) /\ UNCHANGED image
  BY <1>0, <1>2, <1>3, <1>4, <1>7, DeployWithOK, ImageStays
<1>. QED  BY <1>1, <1>5, <1>6, <1>7 DEF Use

LEMMA ContentKept ==
    ASSUME PayloadInv, [PayloadNext]_payloadVars
    PROVE  ImageOK(image)' /\ PodsOK(pods)'
<1>0. /\ ImageOK(image) /\ PodsOK(pods) /\ Artifacts \subseteq Artifacts'
  BY ArtifactsGrow DEF PayloadInv
<1>1. CASE UNCHANGED <<image, pods>>
  BY <1>0, <1>1, ImageStays, PodsStay
<1>2. CASE BuildJar
  <2>1. /\ image'.spec = spec /\ image'.from = {} /\ image'.settings = "none"
        /\ spec.maven # <<>> /\ IsFatJarBuild(spec.maven) /\ UNCHANGED pods
    BY <1>2 DEF BuildJar, JarPayload, IsFatJarBuild
  <2>2. ImageOK(image)'
    BY <2>1 DEF ImageOK
  <2>. QED  BY <1>0, <2>1, <2>2, PodsStay
<1>3. ASSUME NEW p, UseDdl(p)
      PROVE  ImageOK(image)' /\ PodsOK(pods)'
  <2>1. spec.maven = <<>>
    BY <1>3 DEF UseDdl
  <2>2. CASE BuildWith(spec.ddl, {}) /\ UNCHANGED pods
    BY <1>0, <2>1, <2>2, BuildWithOK, PodsStay
  <2>3. CASE DeployWith(spec.ddl) /\ UNCHANGED image
    BY <1>0, <2>1, <2>3, DeployWithOK, ImageStays
  <2>. QED  BY <1>3, <2>2, <2>3 DEF UseDdl
<1>4. CASE UnzipAndRead
  BY <1>0, <1>4, UnzipAndReadOK
<1>. QED  BY <1>1, <1>2, <1>3, <1>4
          DEF PayloadNext, payloadVars, Fetch, GiveUp, TryMetadata, TryArtifact, Outage,
              Restore, Edit, Restart, Publish

LEMMA PayloadInvariant == PayloadSpec => []PayloadInv
<1>1. PayloadInv /\ [PayloadNext]_payloadVars => PayloadInv'
  BY ShapesKept, KeptKept, UnderWayKept, ContentKept DEF PayloadInv
<1>. QED  BY <1>1, InitInv, PTL DEF PayloadSpec

-----------------------------------------------------------------------------
(* What an image is made of, and the pods configured for.                   *)

\* The artifact an image is made of is the one its VirtualDatabase names, of
\* the right type, classifier and version, and the DDL in the image is the one
\* in that artifact: downloadDependency, UnzipAndRead and the payload agree,
\* whatever happened to the files and the repositories before.
THEOREM ImagesAreOfTheArtifactNamed == PayloadSpec => []ImageOfTheArtifactNamed
<1>1. PayloadInv => ImageOfTheArtifactNamed
  <2>. SUFFICES ASSUME PayloadInv, image # NoImage, NEW a \in image.from
                PROVE  /\ \A c \in Coordinates :
                             Names(image.spec.maven, c) =>
                                a.path = Path(c, IF IsSnapshot(c) THEN a.path.version
                                                 ELSE c.version)
                       /\ a.ddl # NoDdl => image.ddl = a.ddl
    BY DEF ImageOfTheArtifactNamed, Built
  <2>1. Named(image.spec, a) /\ Gives(a, image.ddl)
    BY DEF PayloadInv, ImageOK
  <2>2. ASSUME NEW c \in Coordinates, Names(image.spec.maven, c)
        PROVE  a.path = Path(c, IF IsSnapshot(c) THEN a.path.version ELSE c.version)
    <3>1. ParseGAV(image.spec.maven) = c
      BY <2>2, ParseNamed
    <3>. QED  BY <2>1, <3>1, Zenon DEF Named
  <2>. QED  BY <2>1, <2>2 DEF Gives
<1>. QED  BY <1>1, PayloadInvariant, PTL

\* The pods are configured for the data sources of the DDL in the image,
\* although deploymentEnvironments fetches it anew, perhaps from another
\* repository: what a release contains is the same everywhere.
THEOREM PodsAlwaysFitTheImage == PayloadSpec => []PodsFitImage
<1>1. PayloadInv => PodsFitImage
  <2>. SUFFICES ASSUME PayloadInv, image # NoImage, pods # NoImage,
                       pods.spec = image.spec,
                       image.spec.maven # <<>> =>
                          /\ ~IsSnapshot(ParseGAV(image.spec.maven))
                          /\ ~IsFatJarBuild(image.spec.maven)
                          /\ \A a \in image.from : a.ddl # NoDdl
                PROVE  pods.ddl = image.ddl
    BY DEF PodsFitImage, Built
  <2>0. ImageOK(image) /\ PodsOK(pods) /\ KeptOK
    BY DEF PayloadInv
  <2>1. CASE image.spec.maven = <<>>
    BY <2>0, <2>1 DEF ImageOK, PodsOK
  <2>2. CASE image.spec.maven # <<>>
    <3>. DEFINE d == ParseGAV(image.spec.maven)
    <3>1. PICK a \in Artifacts : image.from = {a}
      BY <2>0, <2>2 DEF ImageOK
    <3>2. PICK b \in Artifacts : Named(image.spec, b) /\ Gives(b, pods.ddl)
      BY <2>0, <2>2 DEF PodsOK
    <3>3. Named(image.spec, a) /\ Gives(a, image.ddl) /\ a.ddl # NoDdl
      BY <2>0, <2>2, <3>1 DEF ImageOK
    <3>4. ~IsSnapshot(d)
      BY <2>2
    <3>5. a.path = Path(d, d.version) /\ b.path = Path(d, d.version)
      BY <3>2, <3>3, <3>4 DEF Named
    <3>6. a.ddl = b.ddl
      BY <2>0, <3>5 DEF KeptOK
    <3>. QED  BY <3>2, <3>3, <3>6 DEF Gives
  <2>. QED  BY <2>1, <2>2
<1>. QED  BY <1>1, PayloadInvariant, PTL

\* a repository is configured last with the id that is its key
LEMMA RepositoryId ==
    ASSUME NEW k \in Repos
    PROVE  NewRepository(Append(Urls[k], Id(k))).id = k
<1>. DEFINE url == Append(Urls[k], Id(k))
            ids == {j \in 2..Len(url) : url[j].instruction = "id"}
            n == Len(url)
<1>1. Urls[k] \in Seq([instruction : STRING, value : STRING]) /\ Urls[k] # <<>>
  BY PayloadAssumption DEF Repos
<1>2. Len(Urls[k]) \in Nat /\ Len(Urls[k]) > 0
  BY <1>1
<1>3. n = Len(Urls[k]) + 1
  BY <1>1
<1>4. url[n] = Id(k)
  BY <1>1
<1>5. url[n].instruction = "id" /\ url[n].value = k
  BY <1>4 DEF Id
<1>. HIDE DEF url
<1>6. n \in ids /\ n \in Nat
  BY <1>2, <1>3, <1>5
<1>7. \A j \in ids : j \in Nat /\ j <= n
  BY <1>6
<1>. HIDE DEF n
<1>8. \A i \in ids : (\A j \in ids : j <= i) => i = n
  BY <1>6, <1>7
<1>. HIDE DEF ids
<1>9. (CHOOSE i \in ids : \A j \in ids : j <= i) = n
  BY <1>6, <1>7, <1>8
<1>10. NewRepository(url).id = IF ids = {} THEN ""
                               ELSE url[CHOOSE i \in ids : \A j \in ids : j <= i].value
  BY DEF NewRepository, ids
<1>. QED  BY <1>5, <1>6, <1>9, <1>10, Zenon DEF url

LEMMA FourPlaces == DOMAIN Places = 1..4
  BY DEF Places

\* of the places where settings are given, the first is taken
LEMMA FirstPlace ==
    ASSUME NEW unseen, unseen = {}, NEW i \in DOMAIN Places, Places[i] \in Given
    PROVE  \E j \in 1..i : ReadMavenSettingsFile(unseen) = Places[j]
<1>. DEFINE found == {k \in DOMAIN Places : Places[k] \in Given \ unseen}
            least == CHOOSE k \in found : \A j \in found : k <= j
<1>1. i \in found /\ found \subseteq 1..4
  BY FourPlaces
<1>. HIDE DEF found
<1>2. \E k \in found : \A j \in found : k <= j
  BY <1>1
<1>3. least \in found /\ \A j \in found : least <= j
  BY <1>2
<1>. HIDE DEF least
<1>4. least \in 1..i
  BY <1>1, <1>3
<1>5. ReadMavenSettingsFile(unseen) = Places[least]
  BY <1>1 DEF ReadMavenSettingsFile, found, least
<1>. QED  BY <1>4, <1>5

\* The settings of the build are those given for the VirtualDatabase before
\* shared ones, generated ones only if there are none, and they list each
\* repository under its key (readMavenSettingsFile, NewRepository).
THEOREM SettingsAlwaysObeyed == PayloadSpec => []SettingsObeyed
<1>1. {r.id : r \in Repositories(Urls)} = Repos
  BY RepositoryId DEF Repositories, Repos
<1>2. PayloadInv => SettingsObeyed
  <2>. SUFFICES ASSUME PayloadInv, image # NoImage, image.unseen = {},
                       image.settings # "none",
                       NEW i \in DOMAIN Places, Places[i] \in Given
                PROVE  \E j \in 1..i : image.settings = Places[j]
    BY <1>1 DEF SettingsObeyed, Built
  <2>1. image.settings = ReadMavenSettingsFile(image.unseen)
    BY DEF PayloadInv, ImageOK
  <2>. QED  BY <2>1, FirstPlace
<1>. QED  BY <1>2, PayloadInvariant, PTL

-----------------------------------------------------------------------------
(* When a download may fail.                                                *)

LEMMA LessIsWellFounded ==
    ASSUME NEW R, R = {ss \in Nat \X Nat : ss[1] < ss[2]}
    PROVE  IsWellFoundedOn(R, Nat)
  BY NatLessThanWellFounded DEF OpToRel

\* a set of natural numbers that is not empty has a least one
LEMMA LeastNatural ==
    ASSUME NEW N, N \subseteq Nat, N # {}
    PROVE  \E x \in N : \A y \in N : ~(y < x)
<1>1. PICK R : R = {ss \in Nat \X Nat : ss[1] < ss[2]}
  OBVIOUS
<1>2. \E x \in N : \A y \in N : ~(<<y, x>> \in R)
  BY <1>1, LessIsWellFounded, WFMin
<1>. QED  BY <1>1, <1>2

\* a set of time stamps that is not empty has a latest one
LEMMA Latest ==
    ASSUME NEW T, T \subseteq DOMAIN Stamps, T # {}
    PROVE  \E i \in T : \A j \in T : ~(j > i)
<1>. DEFINE n == Len(Stamps)
            N == {n - i : i \in T}
<1>0. Stamps \in Seq(STRING)
  BY PayloadAssumption
<1>1. n \in Nat /\ DOMAIN Stamps = 1..n
  BY <1>0
<1>2. N \subseteq Nat /\ N # {}
  BY <1>1
<1>4. PICK x \in N : \A y \in N : ~(y < x)
  BY <1>2, LeastNatural
<1>5. PICK i \in T : x = n - i
  BY <1>4
<1>6. ASSUME NEW j \in T PROVE ~(j > i)
  <2>1. ~(n - j < n - i)
    BY <1>4, <1>5
  <2>2. i \in Int /\ j \in Int
    BY <1>1
  <2>. QED  BY <1>1, <2>1, <2>2
<1>. QED  BY <1>6

\* where there are snapshots, some are listed
LEMMA SomeListed ==
    ASSUME NEW r, NEW d, Of(r, d) # {}
    PROVE  Listed(r, d) # {}
<1>1. PICK a \in Of(r, d) : TRUE
  OBVIOUS
<1>. DEFINE S == {b \in Of(r, d) : b.path.classifier = a.path.classifier}
            T == {i \in DOMAIN Stamps : \E b \in S : b.path.version = Stamps[i]}
<1>2. ASSUME NEW b \in S, \A c \in S : ~Newer(c, b)
      PROVE  Listed(r, d) # {}
  <2>1. \A c \in Of(r, d) : c.path.classifier = b.path.classifier => ~Newer(c, b)
    BY <1>2
  <2>. QED  BY <2>1 DEF Listed
<1>3. CASE T = {}
  <2>1. a \in S
    BY <1>1
  <2>2. \A c \in S : ~Newer(c, a)
    BY <1>3 DEF Newer
  <2>. QED  BY <2>1, <2>2, <1>2
<1>4. CASE T # {}
  <2>1. PICK i \in T : \A j \in T : ~(j > i)
    BY <1>4, Latest
  <2>2. PICK b \in S : b.path.version = Stamps[i]
    BY <2>1
  <2>3. ASSUME NEW c \in S, Newer(c, b)
        PROVE  FALSE
    <3>1. PICK j \in DOMAIN Stamps, k \in DOMAIN Stamps :
             j > k /\ c.path.version = Stamps[j] /\ b.path.version = Stamps[k]
      BY <2>3 DEF Newer
    <3>2. k = i
      BY <2>2, <3>1, PayloadAssumption
    <3>3. j \in T
      BY <2>3, <3>1
    <3>. QED  BY <2>1, <3>1, <3>2, <3>3
  <2>. QED  BY <2>2, <2>3, <1>2
<1>. QED  BY <1>3, <1>4

\* what is listed for a coordinate is there under it, if no two coordinates
\* differ in the classifier alone
LEMMA ListedIsThere ==
    ASSUME KeptOK, ClassifiersDecided, NEW r \in Repos, NEW d \in Coordinates,
           IsSnapshot(d), NEW v \in Listed(r, d)
    PROVE  Has(r, Path(d, v))
<1>1. PICK b \in Of(r, d) : v = b.path.version
  BY DEF Listed
<1>2. b \in holds[r]
  BY DEF Of
<1>3. /\ b.path.group = d.group /\ b.path.artifact = d.artifact
      /\ b.path.dir = d.version /\ b.path.ext = d.type
  BY DEF Of
<1>4. PICK c \in Coordinates : b.path = Path(c, b.path.version)
  BY <1>2 DEF KeptOK, Artifacts
<1>5. c.type # ""
  BY PayloadAssumption
<1>6. /\ c.group = d.group /\ c.artifact = d.artifact
      /\ c.version = d.version /\ c.type = d.type
  <2>1. PICK w : w = b.path.version
    OBVIOUS
  <2>2. /\ Path(c, w).group = c.group /\ Path(c, w).artifact = c.artifact
        /\ Path(c, w).dir = c.version /\ Path(c, w).ext = c.type
    BY <1>5, PathFields, Zenon
  <2>. QED  BY <1>3, <1>4, <2>1, <2>2, Zenon
<1>7. IsSnapshot(c)
  BY <1>6 DEF IsSnapshot
<1>8. c = d
  BY <1>6, <1>7 DEF ClassifiersDecided
<1>. QED  BY <1>1, <1>2, <1>4, <1>8 DEF Has

\* a repository that is out of service when it is asked hampers the fetch
LEMMA LeftHampered ==
    ASSUME Shapes, NEW r
    PROVE  Left(r).hampered = (call.hampered \/ ~up[r])
  BY DEF Left, Shapes

\* What a fetch that nothing has hampered can still find: in the first loop,
\* all repositories that offered the snapshot when it began are still to be
\* asked; in the second, one is that has what is now looked for.
Failures == call.failed => call.available = {} \/ call.hampered
Promising == ~call.hampered /\ call.available # {}
Meant ==
    call.step \in {"metadata", "artifact"} /\ Promising => Dep \in Coordinates
SnapshotAhead ==
    call.step = "metadata" /\ Promising =>
       /\ call.available \subseteq Repos \cap call.left
       /\ \A r \in call.available : Len(Urls[r]) = 1 /\ Of(r, Dep) # {}
ArtifactAhead ==
    call.step = "artifact" /\ Promising =>
       \E r \in Repos \cap call.left :
          Len(Urls[r]) = 1 /\ Has(r, Path(Dep, call.version))

FetchInv == Failures /\ Meant /\ SnapshotAhead /\ ArtifactAhead

\* a fetch that does not go on in this step
LEMMA FetchStays ==
    ASSUME FetchInv, UNCHANGED <<call, spec>>, \A r \in Repos : holds[r] \subseteq holds'[r]
    PROVE  FetchInv'
<1>1. Dep' = Dep /\ (Promising' <=> Promising)
  BY DEF Dep, Promising
<1>2. ASSUME NEW r \in Repos, NEW d, Of(r, d) # {}
      PROVE  Of(r, d)' # {}
  BY <1>2 DEF Of
<1>3. ASSUME NEW r \in Repos, NEW p, Has(r, p)
      PROVE  Has(r, p)'
  BY <1>3 DEF Has
<1>4. Failures' /\ Meant'
  BY <1>1 DEF FetchInv, Failures, Meant
<1>5. SnapshotAhead'
  <2>. SUFFICES ASSUME call.step = "metadata", Promising, SnapshotAhead
                PROVE  SnapshotAhead'
    BY <1>1 DEF FetchInv, SnapshotAhead
  <2>1. PICK d : d = Dep
    OBVIOUS
  <2>2. /\ call.available \subseteq Repos \cap call.left
        /\ \A r \in call.available : Len(Urls[r]) = 1 /\ Of(r, d) # {}
    BY <2>1 DEF SnapshotAhead
  <2>3. \A r \in call.available : Of(r, d)' # {}
    BY <2>2, <1>2
  <2>. QED  BY <2>1, <2>2, <2>3, <1>1 DEF SnapshotAhead
<1>6. ArtifactAhead'
  <2>. SUFFICES ASSUME call.step = "artifact", Promising, ArtifactAhead
                PROVE  ArtifactAhead'
    BY <1>1 DEF FetchInv, ArtifactAhead
  <2>1. PICK p : p = Path(Dep, call.version)
    OBVIOUS
  <2>2. PICK r \in Repos \cap call.left : Len(Urls[r]) = 1 /\ Has(r, p)
    BY <2>1 DEF ArtifactAhead
  <2>3. Has(r, p)'
    BY <2>2, <1>3
  <2>. QED  BY <2>1, <2>2, <2>3, <1>1 DEF ArtifactAhead
<1>. QED  BY <1>4, <1>5, <1>6 DEF FetchInv

\* a fetch that has ended
LEMMA FetchEnded ==
    ASSUME call'.step = "idle", Failures'
    PROVE  FetchInv'
  BY DEF FetchInv, Meant, SnapshotAhead, ArtifactAhead

LEMMA FetchBegins ==
    ASSUME Shapes, NEW p, Fetch(p)
    PROVE  FetchInv'
<1>0. /\ call'.step = IF IsSnapshot(Dep) THEN "metadata" ELSE "artifact"
      /\ call'.left = Repos /\ call'.version = Dep.version
      /\ call'.available = Offering /\ call'.failed = FALSE
  BY FetchFields
<1>1. Dep' = Dep /\ holds' = holds
  BY DEF Fetch, Dep
<1>2. ASSUME NEW r \in Offering
      PROVE  /\ r \in Repos /\ Len(Urls[r]) = 1 /\ Dep \in Coordinates
             /\ Available(r, Dep)
  <2>1. PICK c \in Coordinates : Names(spec.maven, c) /\ Available(r, c)
    BY DEF Offering
  <2>2. Dep = c
    BY <2>1, ParseNamed DEF Dep
  <2>. QED  BY <2>1, <2>2 DEF Offering
<1>3. Failures'
  BY <1>0 DEF Failures
<1>4. Meant'
  <2>. SUFFICES ASSUME Offering # {} PROVE Dep' \in Coordinates
    BY <1>0 DEF Meant, Promising
  <2>. QED  BY <1>1, <1>2
<1>5. CASE IsSnapshot(Dep)
  <2>1. \A r \in Offering : Of(r, Dep) # {}
    BY <1>2, <1>5 DEF Available, Listed
  <2>2. \A r \in Offering : Of(r, Dep)' # {}
    <3>1. PICK d : d = Dep
      OBVIOUS
    <3>2. \A r \in Offering : Of(r, d)' # {}
      BY <2>1, <3>1, <1>1 DEF Of
    <3>. QED  BY <3>1, <3>2, <1>1
  <2>3. SnapshotAhead'
    BY <1>0, <1>2, <2>2 DEF SnapshotAhead
  <2>4. ArtifactAhead'
    BY <1>0, <1>5 DEF ArtifactAhead
  <2>. QED  BY <1>3, <1>4, <2>3, <2>4 DEF FetchInv
<1>6. CASE ~IsSnapshot(Dep)
  <2>1. SnapshotAhead'
    BY <1>0, <1>6 DEF SnapshotAhead
  <2>2. ArtifactAhead'
    <3>. SUFFICES ASSUME NEW r \in Offering
                  PROVE  r \in Repos /\ Len(Urls[r]) = 1 /\ Has(r, Path(Dep, call.version))'
      BY <1>0 DEF ArtifactAhead, Promising
    <3>1. Has(r, Path(Dep, Dep.version))
      BY <1>2, <1>6 DEF Available
    <3>. QED  BY <1>0, <1>1, <1>2, <3>1 DEF Has
  <2>. QED  BY <1>3, <1>4, <2>1, <2>2 DEF FetchInv
<1>. QED  BY <1>5, <1>6

\* the first loop goes on, or has found a time stamp
LEMMA MetadataTried ==
    ASSUME Shapes, KeptOK, UnderWay, ClassifiersDecided, FetchInv,
           NEW r \in Repos, TryMetadata(r)
    PROVE  FetchInv'
<1>0. /\ call.step = "metadata" /\ IsSnapshot(Dep)
      /\ Dep' = Dep /\ holds' = holds
  BY DEF TryMetadata, UnderWay, Dep
<1>1. CASE call' = Left(r) /\ (~Answers(r) \/ Listed(r, Dep) = {})
  <2>1. /\ call'.step = "metadata" /\ call'.left = call.left \ {r}
        /\ call'.available = call.available /\ call'.failed = call.failed
    BY <1>0, <1>1, LeftFields
  <2>2. call'.hampered = (call.hampered \/ ~up[r])
    BY <1>1, LeftHampered
  <2>3. Failures'
    <3>1. Failures
      BY DEF FetchInv
    <3>. QED  BY <2>1, <2>2, <3>1, Zenon DEF Failures
  <2>4. Promising' => Promising /\ up[r]
    BY <2>1, <2>2, Zenon DEF Promising
  <2>5. Meant'
    BY <1>0, <2>1, <2>4 DEF FetchInv, Meant
  <2>6. ASSUME Promising'
        PROVE  r \notin call.available
    <3>1. SUFFICES ASSUME r \in call.available PROVE FALSE
      OBVIOUS
    <3>2. Len(Urls[r]) = 1 /\ Of(r, Dep) # {}
      BY <1>0, <2>4, <2>6, <3>1 DEF FetchInv, SnapshotAhead
    <3>3. Listed(r, Dep) # {}
      BY <3>2, SomeListed
    <3>4. Answers(r)
      BY <2>4, <2>6, <3>2, Zenon DEF Answers
    <3>. QED  BY <1>1, <3>3, <3>4
  <2>7. SnapshotAhead'
    <3>. SUFFICES ASSUME Promising' PROVE SnapshotAhead'
      BY DEF SnapshotAhead
    <3>1. /\ call.available \subseteq Repos \cap call.left
          /\ \A q \in call.available : Len(Urls[q]) = 1 /\ Of(q, Dep) # {}
      BY <1>0, <2>4 DEF FetchInv, SnapshotAhead
    <3>2. \A q \in call.available : Of(q, Dep)' # {}
      <4>1. PICK d : d = Dep
        OBVIOUS
      <4>2. \A q \in call.available : Of(q, d)' # {}
        BY <1>0, <3>1, <4>1 DEF Of
      <4>. QED  BY <1>0, <4>1, <4>2
    <3>. QED  BY <2>1, <2>6, <3>1, <3>2 DEF SnapshotAhead
  <2>8. ArtifactAhead'
    BY <2>1 DEF ArtifactAhead
  <2>. QED  BY <2>3, <2>5, <2>7, <2>8 DEF FetchInv
<1>2. ASSUME NEW v \in Listed(r, Dep), Answers(r), call' = FoundVersion(r, v)
      PROVE  FetchInv'
  <2>1. /\ call'.step = "artifact" /\ call'.left = Repos /\ call'.version = v
        /\ call'.available = call.available /\ call'.failed = call.failed
        /\ call'.hampered = call.hampered
    BY <1>2, FoundFields
  <2>2. Failures' /\ (Promising' <=> Promising)
    <3>1. Failures
      BY DEF FetchInv
    <3>. QED  BY <2>1, <3>1, Zenon DEF Failures, Promising
  <2>3. Meant'
    BY <1>0, <2>1, <2>2 DEF FetchInv, Meant
  <2>4. SnapshotAhead'
    BY <2>1 DEF SnapshotAhead
  <2>5. ArtifactAhead'
    <3>. SUFFICES ASSUME Promising PROVE ArtifactAhead'
      BY <2>2 DEF ArtifactAhead
    <3>1. Dep \in Coordinates
      BY <1>0 DEF FetchInv, Meant
    <3>2. Len(Urls[r]) = 1
      BY <1>2 DEF Answers
    <3>3. PICK d \in Coordinates : d = Dep
      BY <3>1
    <3>4. Has(r, Path(d, v))
      BY <1>0, <1>2, <3>3, ListedIsThere
    <3>5. Has(r, Path(d, v))'
      BY <1>0, <3>4 DEF Has
    <3>6. Has(r, Path(Dep, call.version))'
      BY <1>0, <2>1, <3>3, <3>5
    <3>. QED  BY <2>1, <3>2, <3>6 DEF ArtifactAhead
  <2>. QED  BY <2>2, <2>3, <2>4, <2>5 DEF FetchInv
<1>. QED  BY <1>1, <1>2 DEF TryMetadata

\* the second loop goes on, or has found the artifact
LEMMA ArtifactTried ==
    ASSUME Shapes, FetchInv, NEW r \in Repos, TryArtifact(r)
    PROVE  FetchInv'
<1>. DEFINE path == Path(Dep, call.version)
<1>0. /\ call.step = "artifact" /\ Dep' = Dep /\ holds' = holds
  BY DEF TryArtifact, Dep
<1>1. CASE call' = Left(r) /\ ~(Answers(r) /\ Has(r, path))
  <2>1. /\ call'.step = "artifact" /\ call'.left = call.left \ {r}
        /\ call'.version = call.version
        /\ call'.available = call.available /\ call'.failed = call.failed
    BY <1>0, <1>1, LeftFields
  <2>2. call'.hampered = (call.hampered \/ ~up[r])
    BY <1>1, LeftHampered
  <2>3. Failures'
    <3>1. Failures
      BY DEF FetchInv
    <3>. QED  BY <2>1, <2>2, <3>1, Zenon DEF Failures
  <2>4. Promising' => Promising /\ up[r]
    BY <2>1, <2>2, Zenon DEF Promising
  <2>5. Meant' /\ SnapshotAhead'
    BY <1>0, <2>1, <2>4 DEF FetchInv, Meant, SnapshotAhead
  <2>6. ArtifactAhead'
    <3>. SUFFICES ASSUME Promising' PROVE ArtifactAhead'
      BY DEF ArtifactAhead
    <3>0. PICK p : p = path
      OBVIOUS
    <3>1. PICK q \in Repos \cap call.left : Len(Urls[q]) = 1 /\ Has(q, p)
      BY <1>0, <2>4, <3>0 DEF FetchInv, ArtifactAhead
    <3>2. q # r
      <4>. SUFFICES ASSUME q = r PROVE FALSE
        OBVIOUS
      <4>1. Answers(r)
        BY <2>4, <3>1, Zenon DEF Answers
      <4>. QED  BY <1>1, <3>0, <3>1, <4>1
    <3>3. Has(q, p)'
      BY <1>0, <3>1 DEF Has
    <3>4. Has(q, Path(Dep, call.version))'
      BY <1>0, <2>1, <3>0, <3>3
    <3>. QED  BY <2>1, <3>1, <3>2, <3>4 DEF ArtifactAhead
  <2>. QED  BY <2>3, <2>5, <2>6 DEF FetchInv
<1>2. CASE call' = [call EXCEPT !.step = "unzip"]
  <2>1. /\ call'.step = "unzip" /\ call'.failed = call.failed
        /\ call'.available = call.available /\ call'.hampered = call.hampered
    BY <1>2 DEF Shapes
  <2>2. Failures'
    <3>1. Failures
      BY DEF FetchInv
    <3>. QED  BY <2>1, <3>1, Zenon DEF Failures
  <2>. QED  BY <2>1, <2>2 DEF FetchInv, Meant, SnapshotAhead, ArtifactAhead
<1>. QED  BY <1>1, <1>2 DEF TryArtifact

\* with no repository left, nothing was there or something was in the way
LEMMA GivenUp ==
    ASSUME Shapes, FetchInv, GiveUp
    PROVE  FetchInv'
<1>0. call.step \in {"metadata", "artifact"} /\ call.left = {}
  BY DEF GiveUp
<1>1. /\ call'.step = "idle"
      /\ call'.available = call.available /\ call'.hampered = call.hampered
  BY DEF GiveUp, Ended, Shapes
<1>2. ~Promising
  BY <1>0 DEF FetchInv, SnapshotAhead, ArtifactAhead, Promising
<1>3. Failures'
  BY <1>1, <1>2, Zenon DEF Failures, Promising
<1>. QED  BY <1>1, <1>3, FetchEnded

LEMMA FetchKept ==
    ASSUME PayloadInv, ClassifiersDecided, FetchInv, [PayloadNext]_payloadVars
    PROVE  FetchInv'
<1>0. Shapes /\ KeptOK /\ UnderWay /\ \A r \in Repos : holds[r] \subseteq holds'[r]
  BY ArtifactsGrow DEF PayloadInv
<1>1. CASE UNCHANGED <<call, spec>>
  BY <1>0, <1>1, FetchStays
<1>2. CASE call' = Idle
  <2>1. call'.step = "idle" /\ call'.failed = FALSE
    <3>1. Idle.step = "idle" /\ Idle.failed = FALSE
      BY DEF Idle
    <3>. QED  BY <1>2, <3>1, Zenon
  <2>2. Failures'
    BY <2>1, Zenon DEF Failures
  <2>. QED  BY <2>1, <2>2, FetchEnded
<1>3. ASSUME NEW p, UseDdl(p)
      PROVE  FetchInv'
  BY <1>3, <1>2 DEF UseDdl, BuildWith, DeployWith
<1>4. CASE UnzipAndRead
  BY <1>4, <1>2 DEF UnzipAndRead, Use, BuildWith, DeployWith
<1>5. CASE Edit
  <2>1. call' = call /\ call.step = "idle"
    BY <1>5 DEF Edit
  <2>2. Failures'
    BY <2>1 DEF FetchInv, Failures
  <2>. QED  BY <2>1, <2>2, FetchEnded
<1>. QED  BY <1>0, <1>1, <1>2, <1>3, <1>4, <1>5, FetchBegins, MetadataTried, ArtifactTried,
             GivenUp
          DEF PayloadNext, payloadVars, BuildJar, Outage, Restore, Restart, Publish

\* A download of what a documented coordinate names fails only if no repository
\* had it when it began or one was out of service: getSnapshotVersion and
\* DownloadDependency, in whatever orders their two loops go through the
\* repositories, and whatever is published between them.
THEOREM NoDownloadFailsSpuriously == PayloadSpec => []NoSpuriousFailure
<1>1. CASE ClassifiersDecided
  <2>1. PayloadInit => FetchInv
    <3>. SUFFICES ASSUME PayloadInit PROVE FetchInv
      OBVIOUS
    <3>1. call.step = "idle" /\ call.failed = FALSE
      BY DEF PayloadInit, Idle
    <3>. QED  BY <3>1, Zenon DEF FetchInv, Failures, Meant, SnapshotAhead, ArtifactAhead
  <2>2. PayloadInv /\ FetchInv /\ [PayloadNext]_payloadVars => FetchInv'
    BY <1>1, FetchKept
  <2>3. FetchInv => NoSpuriousFailure
    BY DEF FetchInv, Failures, NoSpuriousFailure
  <2>. QED  BY <2>1, <2>2, <2>3, PayloadInvariant, PTL DEF PayloadSpec
<1>2. CASE ~ClassifiersDecided
  <2>1. NoSpuriousFailure
    BY <1>2 DEF NoSpuriousFailure
  <2>. QED  BY <2>1, PTL
<1>. QED  BY <1>1, <1>2

-----------------------------------------------------------------------------
(* The project: what adding dependencies one after the other results in.    *)

Same(e, d) == e.group = d.group /\ e.artifact = d.artifact

\* the stages of adding up to n dependencies
IsStages(g, ds, more, n) ==
    g = [i \in 0..n |-> IF i = 0 THEN ds
                        ELSE IF more[i] = NoDependency THEN g[i - 1]
                        ELSE AddDependency(g[i - 1], more[i])]

\* there are stages for any number of dependencies: the least for which there
\* are none would be one more than one for which there are
LEMMA StagesExist ==
    ASSUME NEW ds, NEW more, NEW n \in Nat
    PROVE  \E g : IsStages(g, ds, more, n)
<1>. DEFINE T == {k \in Nat : ~\E g : IsStages(g, ds, more, k)}
<1>. SUFFICES ASSUME T # {} PROVE FALSE
  OBVIOUS
<1>1. PICK k \in T : \A j \in T : ~(j < k)
  BY LeastNatural
<1>2. CASE k = 0
  <2>. DEFINE h == [i \in 0..0 |-> ds]
  <2>1. IsStages(h, ds, more, 0)
    BY DEF IsStages
  <2>. QED  BY <1>1, <1>2, <2>1
<1>3. CASE k # 0
  <2>1. k - 1 \in Nat /\ k - 1 < k /\ k \in Nat
    BY <1>1, <1>3
  <2>2. PICK g : IsStages(g, ds, more, k - 1)
    BY <1>1, <2>1
  <2>. DEFINE h == [i \in 0..k |->
                      IF i # k THEN g[i]
                      ELSE IF more[k] = NoDependency THEN g[k - 1]
                      ELSE AddDependency(g[k - 1], more[k])]
  <2>3. ASSUME NEW i \in 0..(k - 1)
        PROVE  g[i] = IF i = 0 THEN ds
                      ELSE IF more[i] = NoDependency THEN g[i - 1]
                      ELSE AddDependency(g[i - 1], more[i])
    BY <2>2 DEF IsStages
  <2>4. \A i \in 0..k : i # 0 => h[i - 1] = g[i - 1]
    BY <2>1
  <2>5. ASSUME NEW i \in 0..k
        PROVE  h[i] = IF i = 0 THEN ds
                      ELSE IF more[i] = NoDependency THEN h[i - 1]
                      ELSE AddDependency(h[i - 1], more[i])
    <3>1. CASE i = k
      BY <3>1, <1>3, <2>4
    <3>2. CASE i # k
      <4>1. i \in 0..(k - 1)
        BY <3>2, <2>1
      <4>2. h[i] = g[i]
        BY <3>2
      <4>. HIDE DEF h
      <4>. QED  BY <4>1, <4>2, <2>3, <2>4
    <3>. QED  BY <3>1, <3>2
  <2>6. DOMAIN h = 0..k /\ h = [i \in 0..k |-> h[i]]
    OBVIOUS
  <2>. HIDE DEF h
  <2>7. IsStages(h, ds, more, k)
    BY <2>5, <2>6 DEF IsStages
  <2>. QED  BY <1>1, <2>7
<1>. QED  BY <1>2, <1>3

LEMMA StagesAre ==
    ASSUME NEW ds, NEW more, Len(more) \in Nat
    PROVE  IsStages(Stages(ds, more), ds, more, Len(more))
<1>1. PICK g : IsStages(g, ds, more, Len(more))
  BY StagesExist
<1>2. Stages(ds, more) =
         CHOOSE h : h = [i \in 0..Len(more) |->
                            IF i = 0 THEN ds
                            ELSE IF more[i] = NoDependency THEN h[i - 1]
                            ELSE AddDependency(h[i - 1], more[i])]
  BY DEF Stages
<1>. QED  BY <1>1, <1>2, Zenon DEF IsStages

Distinct(p) == \A k, l \in DOMAIN p : Same(p[k], p[l]) => k = l

\* What p, the project ds after the first i dependencies, is: it begins with
\* ds, all else in it was added, all that was to be added is mentioned, each as
\* it was first asked for, and nothing is in it twice.
Prefixed(p, ds) == Len(ds) <= Len(p) /\ \A k \in 1..Len(ds) : p[k] = ds[k]
OnlyAdded(p, ds, more, i) ==
    \A k \in DOMAIN p :
       k \in DOMAIN ds \/ \E j \in 1..i : more[j] # NoDependency /\ p[k] = more[j]
AllMentioned(p, more, i) ==
    \A j \in 1..i : more[j] # NoDependency => Mentions(p, more[j])
FirstWins(p, ds, more, i) ==
    \A j \in 1..i :
       more[j] # NoDependency =>
          \/ Mentions(ds, more[j])
          \/ \E m \in 1..(j - 1) : Same(more[m], more[j])
          \/ \E k \in DOMAIN p : p[k] = more[j]
Added(p, ds, more, i) ==
    /\ Prefixed(p, ds)
    /\ OnlyAdded(p, ds, more, i)
    /\ AllMentioned(p, more, i)
    /\ FirstWins(p, ds, more, i)
    /\ Distinct(ds) => Distinct(p)

\* a dependency that is added
LEMMA AppendAdded ==
    ASSUME NEW S, NEW ds \in Seq(S), NEW more \in Seq(S), NEW i \in 1..Len(more),
           NEW p \in Seq(S), Added(p, ds, more, i - 1),
           more[i] # NoDependency, ~Mentions(p, more[i])
    PROVE  LET q == Append(p, more[i]) IN q \in Seq(S) /\ Added(q, ds, more, i)
<1>. DEFINE d == more[i]
            q == Append(p, d)
            n == Len(p)
<1>0. d \in S /\ n \in Nat /\ i \in Nat /\ i - 1 \in Nat
  OBVIOUS
<1>1. /\ q \in Seq(S) /\ Len(q) = n + 1 /\ DOMAIN q = 1..(n + 1) /\ DOMAIN p = 1..n
      /\ \A k \in 1..n : q[k] = p[k]
      /\ q[n + 1] = d
  BY <1>0
<1>2. ASSUME NEW k \in DOMAIN q
      PROVE  \/ k \in DOMAIN p /\ q[k] = p[k]
             \/ k = n + 1 /\ q[k] = d
  BY <1>0, <1>1
<1>3. \A k \in DOMAIN p : k \in DOMAIN q /\ q[k] = p[k]
  BY <1>0, <1>1
<1>4. n + 1 \in DOMAIN q
  BY <1>0, <1>1
<1>5. \A j \in 1..i : j \in 1..(i - 1) \/ j = i
  BY <1>0
<1>6. i \in 1..i /\ 1..(i - 1) \subseteq 1..i
  BY <1>0
<1>7. Prefixed(q, ds)
  BY <1>0, <1>1 DEF Added, Prefixed
<1>. HIDE DEF q, n
<1>8. OnlyAdded(q, ds, more, i)
  BY <1>2, <1>6 DEF Added, OnlyAdded
<1>9. AllMentioned(q, more, i)
  <2>1. Mentions(q, d)
    BY <1>1, <1>4 DEF Mentions
  <2>2. \A e : Mentions(p, e) => Mentions(q, e)
    BY <1>3 DEF Mentions
  <2>. QED  BY <2>1, <2>2, <1>5 DEF Added, AllMentioned
<1>10. FirstWins(q, ds, more, i)
  BY <1>1, <1>3, <1>4, <1>5 DEF Added, FirstWins
<1>11. Distinct(ds) => Distinct(q)
  <2>. SUFFICES ASSUME Distinct(p), NEW k \in DOMAIN q, NEW l \in DOMAIN q,
                       Same(q[k], q[l])
                PROVE  k = l
    BY DEF Added, Distinct
  <2>1. \A m \in DOMAIN p : ~Same(p[m], d) /\ ~Same(d, p[m])
    BY DEF Mentions, Same
  <2>2. CASE k \in DOMAIN p /\ q[k] = p[k] /\ l \in DOMAIN p /\ q[l] = p[l]
    BY <2>2 DEF Distinct
  <2>3. CASE k = n + 1 /\ q[k] = d /\ l = n + 1 /\ q[l] = d
    BY <2>3
  <2>. QED  BY <1>2, <2>1, <2>2, <2>3
<1>. QED  BY <1>1, <1>7, <1>8, <1>9, <1>10, <1>11 DEF Added, q

\* one that is not called for, or mentioned already
LEMMA SkipAdded ==
    ASSUME NEW S, NEW ds \in Seq(S), NEW more \in Seq(S), NEW i \in 1..Len(more),
           NEW p \in Seq(S), Added(p, ds, more, i - 1),
           more[i] = NoDependency \/ Mentions(p, more[i])
    PROVE  Added(p, ds, more, i)
<1>0. i \in Nat /\ i - 1 \in Nat
  OBVIOUS
<1>1. \A j \in 1..i : j \in 1..(i - 1) \/ j = i
  BY <1>0
<1>2. i \in 1..i /\ 1..(i - 1) \subseteq 1..i
  BY <1>0
<1>3. OnlyAdded(p, ds, more, i)
  BY <1>2 DEF Added, OnlyAdded
<1>4. AllMentioned(p, more, i)
  BY <1>1 DEF Added, AllMentioned
<1>5. FirstWins(p, ds, more, i)
  <2>. SUFFICES ASSUME more[i] # NoDependency, ~Mentions(ds, more[i])
                PROVE  \E m \in 1..(i - 1) : Same(more[m], more[i])
    BY <1>1 DEF Added, FirstWins
  <2>1. PICK k \in DOMAIN p : Same(p[k], more[i])
    BY DEF Mentions, Same
  <2>2. CASE k \in DOMAIN ds
    <3>1. p[k] = ds[k]
      BY <2>2 DEF Added, Prefixed
    <3>. QED  BY <2>1, <2>2, <3>1 DEF Mentions, Same
  <2>3. CASE \E j \in 1..(i - 1) : more[j] # NoDependency /\ p[k] = more[j]
    BY <2>1, <2>3
  <2>. QED  BY <2>2, <2>3 DEF Added, OnlyAdded
<1>. QED  BY <1>3, <1>4, <1>5 DEF Added

\* adding any sequence of dependencies, by the least stage at which something
\* would be wrong
LEMMA DependenciesAdded ==
    ASSUME NEW S, NEW ds \in Seq(S), NEW more \in Seq(S)
    PROVE  /\ AddDependencies(ds, more) \in Seq(S)
           /\ Added(AddDependencies(ds, more), ds, more, Len(more))
<1>. DEFINE g == Stages(ds, more)
            n == Len(more)
            OK(i) == g[i] \in Seq(S) /\ Added(g[i], ds, more, i)
            T == {i \in 0..n : ~OK(i)}
<1>0. n \in Nat /\ IsStages(g, ds, more, n)
  BY StagesAre
<1>1. g[0] = ds
  BY <1>0 DEF IsStages
<1>2. \A i \in 1..n : g[i] = IF more[i] = NoDependency THEN g[i - 1]
                             ELSE AddDependency(g[i - 1], more[i])
  BY <1>0 DEF IsStages
<1>. HIDE DEF g
<1>3. OK(0)
  BY <1>1 DEF Added, Prefixed, OnlyAdded, AllMentioned, FirstWins
<1>4. ASSUME NEW i \in 1..n, OK(i - 1)
      PROVE  OK(i)
  <2>1. CASE more[i] = NoDependency \/ Mentions(g[i - 1], more[i])
    <3>1. g[i] = g[i - 1]
      BY <1>2, <2>1 DEF AddDependency
    <3>. QED  BY <1>4, <2>1, <3>1, SkipAdded
  <2>2. CASE more[i] # NoDependency /\ ~Mentions(g[i - 1], more[i])
    <3>1. g[i] = Append(g[i - 1], more[i])
      BY <1>2, <2>2 DEF AddDependency
    <3>. QED  BY <1>4, <2>2, <3>1, AppendAdded
  <2>. QED  BY <2>1, <2>2
<1>. HIDE DEF OK
<1>5. T = {}
  <2>. SUFFICES ASSUME T # {} PROVE FALSE
    OBVIOUS
  <2>0. T \subseteq Nat
    BY <1>0
  <2>1. PICK i \in T : \A j \in T : ~(j < i)
    <3>. HIDE DEF T
    <3>. QED  BY <2>0, LeastNatural
  <2>2. i \in 1..n
    BY <1>0, <1>3, <2>1
  <2>3. OK(i - 1)
    BY <1>0, <2>1, <2>2
  <2>. QED  BY <1>4, <2>1, <2>2, <2>3
<1>6. OK(n)
  BY <1>0, <1>5
<1>. QED  BY <1>6 DEF AddDependencies, OK, g

LEMMA FunctionIsSeq ==
    ASSUME NEW S, NEW n \in Nat, NEW f \in [1..n -> S]
    PROVE  f \in Seq(S) /\ Len(f) = n
<1>1. f \in Seq(S)
  BY SeqDef, Zenon
<1>2. DOMAIN f = 1..n /\ DOMAIN f = 1..Len(f) /\ Len(f) \in Nat
  BY <1>1
<1>. QED  BY <1>1, <1>2

Includes(s, d) == \E i \in DOMAIN s : s[i] = d

\* what two sequences are made of, one after the other
LEMMA ConcatElements ==
    ASSUME NEW S, NEW s \in Seq(S), NEW t \in Seq(S)
    PROVE  /\ s \o t \in Seq(S)
           /\ \A j \in DOMAIN (s \o t) : \/ \E i \in DOMAIN s : (s \o t)[j] = s[i]
                                         \/ \E i \in DOMAIN t : (s \o t)[j] = t[i]
           /\ \A d : Includes(s, d) \/ Includes(t, d) => Includes(s \o t, d)
<1>. DEFINE u == s \o t
            m == Len(s)
            n == Len(t)
<1>1. m \in Nat /\ n \in Nat /\ DOMAIN s = 1..m /\ DOMAIN t = 1..n
  OBVIOUS
<1>2. /\ u \in Seq(S) /\ DOMAIN u = 1..(m + n)
      /\ \A i \in 1..(m + n) : u[i] = IF i <= m THEN s[i] ELSE t[i - m]
  OBVIOUS
<1>. HIDE DEF u, m, n
<1>3. ASSUME NEW j \in DOMAIN u
      PROVE  \/ \E i \in DOMAIN s : u[j] = s[i]
             \/ \E i \in DOMAIN t : u[j] = t[i]
  <2>1. CASE j <= m
    BY <1>1, <1>2, <2>1
  <2>2. CASE ~(j <= m)
    <3>1. j - m \in DOMAIN t
      BY <1>1, <1>2, <2>2
    <3>. QED  BY <1>2, <2>2, <3>1
  <2>. QED  BY <2>1, <2>2
<1>4. ASSUME NEW i \in DOMAIN s
      PROVE  \E j \in DOMAIN u : u[j] = s[i]
  <2>1. i \in DOMAIN u /\ u[i] = s[i]
    BY <1>1, <1>2
  <2>. QED  BY <2>1
<1>5. ASSUME NEW i \in DOMAIN t
      PROVE  \E j \in DOMAIN u : u[j] = t[i]
  <2>1. m + i \in DOMAIN u
    BY <1>1, <1>2
  <2>2. u[m + i] = t[i]
    <3>1. ~(m + i <= m) /\ (m + i) - m = i
      BY <1>1
    <3>. QED  BY <1>2, <2>1, <3>1
  <2>. QED  BY <2>1, <2>2
<1>6. \A d : Includes(s, d) \/ Includes(t, d) => Includes(u, d)
  BY <1>4, <1>5, Zenon DEF Includes
<1>. QED  BY <1>2, <1>3, <1>6 DEF u

\* the dependencies the operator adds: starters, and six others
Others(vdb, all, openapi, ispn) ==
    << When(\E i \in DOMAIN vdb.expose : vdb.expose[i] = "ExposeVia3scale", Keycloak),
       When(ispn, Teiid("spring-data-infinispan-hotrod")),
       When(all \/ vdb.keycloak, Keycloak),
       When(openapi \/ all, Teiid("spring-openapi")),
       When(~openapi \/ all, Teiid("spring-odata")),
       Dependency("me.snowdrop", "narayana-spring-boot-starter", "2.1.0") >>

OperatorsOwn ==
    { Keycloak, Teiid("spring-data-infinispan-hotrod"), Teiid("spring-openapi"),
      Teiid("spring-odata"),
      Dependency("me.snowdrop", "narayana-spring-boot-starter", "2.1.0") }

LEMMA WhenIs ==
    ASSUME NEW b, NEW d
    PROVE  When(b, d) \in {d, NoDependency} /\ (b => When(b, d) = d)
  BY Zenon DEF When

LEMMA OthersAre ==
    ASSUME NEW vdb, NEW all, NEW openapi, NEW ispn
    PROVE  /\ Others(vdb, all, openapi, ispn) \in Seq(OperatorsOwn \cup {NoDependency})
           /\ all /\ ispn =>
                 \A d \in OperatorsOwn : Includes(Others(vdb, all, openapi, ispn), d)
<1>. DEFINE a == When(\E i \in DOMAIN vdb.expose : vdb.expose[i] = "ExposeVia3scale", Keycloak)
            b == When(ispn, Teiid("spring-data-infinispan-hotrod"))
            c == When(all \/ vdb.keycloak, Keycloak)
            d == When(openapi \/ all, Teiid("spring-openapi"))
            e == When(~openapi \/ all, Teiid("spring-odata"))
            f == Dependency("me.snowdrop", "narayana-spring-boot-starter", "2.1.0")
            T == OperatorsOwn \cup {NoDependency}
            o == <<a, b, c, d, e, f>>
<1>1. o = Others(vdb, all, openapi, ispn)
  BY Zenon DEF Others
<1>2. a \in T /\ b \in T /\ c \in T /\ d \in T /\ e \in T /\ f \in T
  BY WhenIs, Zenon DEF OperatorsOwn
<1>3. all /\ ispn => OperatorsOwn = {b, c, d, e, f}
  BY WhenIs, Zenon DEF OperatorsOwn
<1>. HIDE DEF a, b, c, d, e, f, T
<1>4. o \in Seq(T)
  BY <1>2
<1>5. \A x \in {b, c, d, e, f} : \E i \in DOMAIN o : o[i] = x
  OBVIOUS
<1>. HIDE DEF o
<1>. QED  BY <1>1, <1>3, <1>4, <1>5, Zenon DEF T, Includes

\* the types of the sources whose starters are added
Wanted(types, all) == IF all THEN FactoryOrder ELSE types

LEMMA StartersAre ==
    ASSUME NEW types, NEW n \in Nat, DOMAIN types = 1..n, NEW all
    PROVE  \E m \in Nat :
              /\ DOMAIN Wanted(types, all) = 1..m
              /\ \A S : (\A i \in 1..m : Starter(Wanted(types, all)[i]) \in S) =>
                        Starters(types, all) \in Seq(S)
              /\ DOMAIN Starters(types, all) = 1..m
              /\ \A i \in 1..m : Starters(types, all)[i] = Starter(Wanted(types, all)[i])
<1>. DEFINE w == Wanted(types, all)
<1>1. FactoryOrder \in Seq(DOMAIN ConnectionFactories)
  BY FactoryAssumption
<1>2. Len(FactoryOrder) \in Nat /\ DOMAIN FactoryOrder = 1..Len(FactoryOrder)
  BY <1>1
<1>3. w = FactoryOrder \/ w = types
  BY Zenon DEF Wanted
<1>4. PICK m \in Nat : DOMAIN w = 1..m
  BY <1>2, <1>3
<1>5. Starters(types, all) = [i \in DOMAIN w |-> Starter(w[i])]
  BY Zenon DEF Starters, Wanted
<1>. HIDE DEF w
<1>6. ASSUME NEW S, \A i \in 1..m : Starter(w[i]) \in S
      PROVE  Starters(types, all) \in Seq(S)
  <2>1. Starters(types, all) \in [1..m -> S]
    BY <1>4, <1>5, <1>6
  <2>. QED  BY <2>1, FunctionIsSeq
<1>7. /\ DOMAIN Starters(types, all) = 1..m
      /\ \A i \in 1..m : Starters(types, all)[i] = Starter(w[i])
  BY <1>4, <1>5
<1>. QED  BY <1>4, <1>6, <1>7 DEF w

\* what may be in a project
Starting == {Starter(t) : t \in DOMAIN ConnectionFactories}

LEMMA OperatorDependenciesAre ==
    ASSUME NEW vdb, NEW types, NEW n \in Nat, DOMAIN types = 1..n,
           NEW all, NEW openapi, NEW ispn
    PROVE  /\ OperatorDependencies(vdb, types, all, openapi, ispn)
                 \in Seq(Starting \cup OperatorsOwn \cup {NoDependency})
           /\ all /\ ispn =>
                 \A d \in Starting \cup OperatorsOwn :
                    Includes(OperatorDependencies(vdb, types, all, openapi, ispn), d)
<1>. DEFINE s == Starters(types, all)
            o == Others(vdb, all, openapi, ispn)
            T == Starting \cup OperatorsOwn \cup {NoDependency}
            w == Wanted(types, all)
<1>1. OperatorDependencies(vdb, types, all, openapi, ispn) = s \o o
  BY Zenon DEF OperatorDependencies, Others
<1>2. PICK m \in Nat :
              /\ DOMAIN w = 1..m
              /\ \A S : (\A i \in 1..m : Starter(w[i]) \in S) => s \in Seq(S)
              /\ DOMAIN s = 1..m
              /\ \A i \in 1..m : s[i] = Starter(w[i])
  BY StartersAre
<1>3. \A t : Starter(t) \in T
  <2>. SUFFICES ASSUME NEW t PROVE Starter(t) \in T
    OBVIOUS
  <2>1. CASE t \in DOMAIN ConnectionFactories
    BY <2>1, Zenon DEF Starting
  <2>2. CASE t \notin DOMAIN ConnectionFactories
    BY <2>2, Zenon DEF Starter
  <2>. QED  BY <2>1, <2>2
<1>4. s \in Seq(T)
  BY <1>2, <1>3, Zenon
<1>5. o \in Seq(T)
  <2>1. o \in Seq(OperatorsOwn \cup {NoDependency})
    BY OthersAre, Zenon
  <2>2. OperatorsOwn \cup {NoDependency} \subseteq T
    OBVIOUS
  <2>. HIDE DEF o, T
  <2>. QED  BY <2>1, <2>2, SeqMonotonic
<1>6. ASSUME all, ispn, NEW d \in Starting \cup OperatorsOwn
      PROVE  Includes(s, d) \/ Includes(o, d)
  <2>1. CASE d \in OperatorsOwn
    BY <1>6, <2>1, OthersAre, Zenon
  <2>2. CASE d \in Starting
    <3>1. PICK t \in DOMAIN ConnectionFactories : d = Starter(t)
      BY <2>2, Zenon DEF Starting
    <3>2. PICK i \in DOMAIN FactoryOrder : FactoryOrder[i] = t
      BY FactoryAssumption
    <3>3. w = FactoryOrder
      BY <1>6, Zenon DEF Wanted
    <3>. HIDE DEF s, w
    <3>4. i \in 1..m /\ w[i] = t /\ i \in DOMAIN s
      BY <1>2, <3>2, <3>3
    <3>5. s[i] = d
      BY <1>2, <3>1, <3>4, Zenon
    <3>. QED  BY <3>4, <3>5, Zenon DEF Includes
  <2>. QED  BY <2>1, <2>2, Zenon
<1>. HIDE DEF s, o, T
<1>7. s \o o \in Seq(T)
  BY <1>4, <1>5, ConcatElements
<1>8. \A d : Includes(s, d) \/ Includes(o, d) => Includes(s \o o, d)
  BY <1>4, <1>5, ConcatElements, Zenon
<1>9. all /\ ispn => \A d \in Starting \cup OperatorsOwn : Includes(s \o o, d)
  BY <1>6, <1>8, Zenon
<1>. QED  BY <1>1, <1>7, <1>9, Zenon DEF T

\* a coordinate that can be read is a dependency
LEMMA ParsedIsSomething ==
    ASSUME NEW gav \in Seq(STRING), ~BadGAV(gav)
    PROVE  ParseGAV(gav) # NoDependency
<1>. DEFINE S == Starts(gav)
<1>1. DOMAIN gav \subseteq Nat
  OBVIOUS
<1>2. S \subseteq DOMAIN gav /\ S # {}
  BY Zenon DEF Starts, BadGAV
<1>. HIDE DEF S
<1>3. PICK i \in S : \A j \in S : ~(j < i)
  BY <1>1, <1>2, LeastNatural
<1>4. \A j \in S : i <= j
  <2>. SUFFICES ASSUME NEW j \in S PROVE i <= j
    OBVIOUS
  <2>1. i \in Nat /\ j \in Nat /\ ~(j < i)
    BY <1>1, <1>2, <1>3
  <2>. QED  BY <2>1, SMT
<1>5. Start(gav) \in S
  BY <1>4, Zenon DEF Start, S
<1>6. Start(gav) \in DOMAIN gav /\ Part(gav, Start(gav)) # ""
  BY <1>5, Zenon DEF Starts, S
<1>7. gav[Start(gav)] # ""
  BY <1>6, PartIsThere, Zenon
<1>8. ParseGAV(gav).group = gav[Start(gav)]
  BY Zenon DEF ParseGAV
<1>9. NoDependency.group = ""
  BY DEF NoDependency, Dependency
<1>. QED  BY <1>7, <1>8, <1>9, Zenon

LEMMA UserDependenciesAre ==
    ASSUME NEW vdb, vdb.dependencies \in Seq(Seq(STRING))
    PROVE  /\ UserDependencies(vdb)
                 \in Seq({ParseGAV(gav) : gav \in Seq(STRING)})
           /\ ~BadDependencies(vdb) =>
                 \A i \in DOMAIN UserDependencies(vdb) :
                    UserDependencies(vdb)[i] # NoDependency
<1>1. PICK ds \in Seq(Seq(STRING)) : ds = vdb.dependencies
  OBVIOUS
<1>. DEFINE T == {ParseGAV(gav) : gav \in Seq(STRING)}
            n == Len(ds)
            u == UserDependencies(vdb)
<1>2. n \in Nat /\ DOMAIN ds = 1..n /\ \A i \in 1..n : ds[i] \in Seq(STRING)
  OBVIOUS
<1>3. u = [i \in 1..n |-> ParseGAV(ds[i])]
  BY <1>1, <1>2, Zenon DEF UserDependencies
<1>4. u \in [1..n -> T] /\ DOMAIN u = 1..n
  BY <1>2, <1>3, Zenon
<1>. HIDE DEF u, T
<1>5. u \in Seq(T)
  BY <1>2, <1>4, FunctionIsSeq
<1>6. ASSUME ~BadDependencies(vdb), NEW i \in 1..n
      PROVE  u[i] # NoDependency
  <2>1. ~BadGAV(ds[i])
    BY <1>1, <1>2, <1>6, Zenon DEF BadDependencies
  <2>2. u[i] = ParseGAV(ds[i])
    BY <1>3, Zenon
  <2>. QED  BY <1>2, <2>1, <2>2, ParsedIsSomething, Zenon
<1>. QED  BY <1>4, <1>5, <1>6, Zenon DEF u, T

BaseSet == {BaseDependencies[i] : i \in DOMAIN BaseDependencies}

LEMMA BaseIs ==
    BaseDependencies \in Seq(BaseSet) /\ Distinct(BaseDependencies)
<1>. DEFINE b1 == Teiid("teiid-spring-boot-starter")
            b2 == Dependency("org.springframework.boot", "spring-boot-starter-actuator", "boot")
            b3 == Dependency("io.opentracing.contrib",
                             "opentracing-spring-jaeger-web-starter", "1.0.1")
            b4 == Dependency("com.h2database", "h2", "1.4.199")
            b  == <<b1, b2, b3, b4>>
<1>1. /\ b1.group = "org.teiid" /\ b2.group = "org.springframework.boot"
      /\ b3.group = "io.opentracing.contrib" /\ b4.group = "com.h2database"
  BY DEF Teiid, Dependency
<1>2. BaseDependencies = b
  BY Zenon DEF BaseDependencies
<1>. HIDE DEF b1, b2, b3, b4
<1>3. DOMAIN b = 1..4 /\ b[1] = b1 /\ b[2] = b2 /\ b[3] = b3 /\ b[4] = b4
  OBVIOUS
<1>4. b \in Seq({b1, b2, b3, b4})
  OBVIOUS
<1>. HIDE DEF b
<1>5. {b[i] : i \in DOMAIN b} = {b1, b2, b3, b4}
  BY <1>3
<1>6. Distinct(b)
  BY <1>1, <1>3 DEF Distinct, Same
<1>. QED  BY <1>2, <1>4, <1>5, <1>6, Zenon DEF BaseSet

\* The project of a VirtualDatabase, as two times dependencies are added to it.
Projects == BaseSet \cup {ParseGAV(gav) : gav \in Seq(STRING)}
            \cup (Starting \cup OperatorsOwn \cup {NoDependency})

LEMMA PomIs ==
    ASSUME NEW vdb, vdb.dependencies \in Seq(Seq(STRING)),
           NEW types, NEW n \in Nat, DOMAIN types = 1..n,
           NEW all, NEW openapi, NEW ispn
    PROVE  LET b == BaseDependencies
               u == UserDependencies(vdb)
               o == OperatorDependencies(vdb, types, all, openapi, ispn)
               p == AddDependencies(b, u)
               q == GenerateVdbPom(vdb, types, all, openapi, ispn)
           IN  /\ b \in Seq(Projects) /\ u \in Seq(Projects) /\ o \in Seq(Projects)
               /\ p \in Seq(Projects) /\ q \in Seq(Projects)
               /\ Added(p, b, u, Len(u)) /\ Added(q, p, o, Len(o))
<1>. DEFINE b == BaseDependencies
            u == UserDependencies(vdb)
            o == OperatorDependencies(vdb, types, all, openapi, ispn)
            p == AddDependencies(b, u)
            q == AddDependencies(p, o)
            U == {ParseGAV(gav) : gav \in Seq(STRING)}
            O == Starting \cup OperatorsOwn \cup {NoDependency}
<1>1. b \in Seq(BaseSet) /\ u \in Seq(U) /\ o \in Seq(O)
  BY BaseIs, UserDependenciesAre, OperatorDependenciesAre, Zenon
<1>2. BaseSet \subseteq Projects /\ U \subseteq Projects /\ O \subseteq Projects
  BY Zenon DEF Projects
<1>3. GenerateVdbPom(vdb, types, all, openapi, ispn) = q
  BY Zenon DEF GenerateVdbPom
<1>. HIDE DEF b, u, o, U, O
<1>4. b \in Seq(Projects) /\ u \in Seq(Projects) /\ o \in Seq(Projects)
  BY <1>1, <1>2, SeqMonotonic
<1>5. p \in Seq(Projects) /\ Added(p, b, u, Len(u))
  BY <1>4, DependenciesAdded
<1>. HIDE DEF p
<1>6. q \in Seq(Projects) /\ Added(q, p, o, Len(o))
  BY <1>4, <1>5, DependenciesAdded
<1>. HIDE DEF q
<1>. QED  BY <1>3, <1>4, <1>5, <1>6, Zenon DEF b, u, o, p

-----------------------------------------------------------------------------
(* The project in an image.                                                 *)

\* the project of an image is the one generated for its VirtualDatabase
PomOK(i) ==
    i # NoImage =>
       /\ i.spec \in Specs
       /\ i.pom # <<>> =>
             /\ ~BadDependencies(i.spec)
             /\ \E ddl \in Ddls, ispn \in BOOLEAN :
                   i.pom = GenerateVdbPom(i.spec, SourceTypes[ddl], FALSE,
                                          i.spec.openapi, ispn)

Texts == Ddls \cup {NoDdl}

PomInv ==
    /\ spec \in Specs
    /\ \A a \in Artifacts : a.ddl \in Texts
    /\ file.unpacked \in Texts
    /\ PomOK(image)

LEMMA BuildWithPom ==
    ASSUME NEW ddl, NEW from, BuildWith(ddl, from), PomOK(image), spec \in Specs,
           ddl \in Ddls
    PROVE  PomOK(image)'
<1>1. CASE UNCHANGED image
  BY <1>1 DEF PomOK
<1>2. ASSUME NEW ispn \in BOOLEAN, NEW unseen, ~BadPayload(ddl),
             image' = VdbPayload(ddl, from, ispn, unseen)
      PROVE  PomOK(image)'
  <2>. DEFINE store == ddl \in Materialized /\ ispn
  <2>1. /\ image'.spec = spec
        /\ image'.pom = GenerateVdbPom(spec, SourceTypes[ddl], FALSE, spec.openapi, store)
    BY <1>2 DEF VdbPayload
  <2>2. store \in BOOLEAN
    OBVIOUS
  <2>3. ~BadDependencies(spec)
    BY <1>2 DEF BadPayload
  <2>. HIDE DEF store
  <2>. QED  BY <2>1, <2>2, <2>3, Zenon DEF PomOK
<1>. QED  BY <1>1, <1>2 DEF BuildWith

LEMMA PomKept ==
    ASSUME PayloadInv, PomInv, [PayloadNext]_payloadVars
    PROVE  PomInv'
<1>0. /\ Shapes /\ UnderWay /\ spec \in Specs /\ PomOK(image)
      /\ file.unpacked \in Texts /\ \A a \in Artifacts : a.ddl \in Texts
  BY DEF PayloadInv, PomInv
<1>1. spec' \in Specs
  BY <1>0 DEF PayloadNext, payloadVars, BuildJar, UseDdl, Fetch, GiveUp, UnzipAndRead,
              TryMetadata, TryArtifact, Outage, Restore, Edit, Restart, Publish
<1>2. \A a \in Artifacts' : a.ddl \in Texts
  <2>1. CASE UNCHANGED holds
    BY <1>0, <2>1 DEF Artifacts
  <2>2. ASSUME NEW r \in Repos, NEW c \in Coordinates, NEW d \in Contents[c], Publish(r, c, d)
        PROVE  \A a \in Artifacts' : a.ddl \in Texts
    <3>1. PICK p : holds' = [holds EXCEPT ![r] = @ \cup {[path |-> p, ddl |-> d]}]
      BY <2>2 DEF Publish
    <3>2. Artifacts' = Artifacts \cup {[path |-> p, ddl |-> d]}
      BY <1>0, <3>1 DEF Artifacts, Shapes
    <3>3. d \in Texts
      BY PayloadAssumption DEF Texts
    <3>. QED  BY <1>0, <3>2, <3>3
  <2>. QED  BY <2>1, <2>2
            DEF PayloadNext, payloadVars, BuildJar, UseDdl, Fetch, GiveUp, UnzipAndRead,
                TryMetadata, TryArtifact, Outage, Restore, Edit, Restart
<1>3. CASE UnzipAndRead
  <2>1. PICK a \in file.archive :
           /\ file' = [file EXCEPT !.unpacked = Unpacked(a)]
           /\ IF Unpacked(a) = NoDdl
              THEN call' = Idle /\ UNCHANGED <<image, pods>>
              ELSE Use(Unpacked(a), {a})
    BY <1>3 DEF UnzipAndRead
  <2>2. a \in Artifacts
    BY <1>0, <1>3, <2>1 DEF UnderWay, UnzipAndRead
  <2>3. Unpacked(a) \in Texts
    BY <1>0, <2>2 DEF Unpacked
  <2>4. file'.unpacked = Unpacked(a)
    BY <1>0, <2>1 DEF Shapes
  <2>5. PomOK(image)'
    <3>1. CASE UNCHANGED image
      BY <1>0, <3>1 DEF PomOK
    <3>2. CASE Unpacked(a) # NoDdl /\ BuildWith(Unpacked(a), {a})
      BY <1>0, <2>3, <3>2, BuildWithPom DEF Texts
    <3>. QED  BY <2>1, <3>1, <3>2 DEF Use
  <2>. QED  BY <1>1, <1>2, <2>3, <2>4, <2>5 DEF PomInv
<1>4. CASE ~UnzipAndRead
  <2>1. file'.unpacked \in Texts
    <3>1. CASE UNCHANGED file
      BY <1>0, <3>1
    <3>2. ASSUME NEW r \in Repos, TryArtifact(r)
          PROVE  file'.unpacked \in Texts
      BY <1>0, <3>2 DEF TryArtifact, Shapes
    <3>3. CASE Restart
      BY <3>3 DEF Restart, NoFile, Texts
    <3>. QED  BY <1>4, <3>1, <3>2, <3>3
              DEF PayloadNext, payloadVars, BuildJar, UseDdl, Fetch, GiveUp, TryMetadata,
                  Outage, Restore, Edit, Publish
  <2>2. PomOK(image)'
    <3>1. CASE UNCHANGED image
      BY <1>0, <3>1 DEF PomOK
    <3>2. CASE BuildJar
      <4>1. image'.spec = spec /\ image'.pom = <<>>
        BY <3>2 DEF BuildJar, JarPayload
      <4>. QED  BY <1>0, <4>1 DEF PomOK
    <3>3. ASSUME NEW p, UseDdl(p)
          PROVE  PomOK(image)'
      <4>1. spec.ddl \in Ddls
        BY <1>0, <3>3, PayloadAssumption DEF UseDdl
      <4>. QED  BY <1>0, <3>1, <3>3, <4>1, BuildWithPom DEF UseDdl
    <3>. QED  BY <1>4, <3>1, <3>2, <3>3
              DEF PayloadNext, payloadVars, Fetch, GiveUp, TryMetadata, TryArtifact, Outage,
                  Restore, Edit, Restart, Publish
  <2>. QED  BY <1>1, <1>2, <2>1, <2>2 DEF PomInv
<1>. QED  BY <1>3, <1>4

LEMMA PomInvariant == PayloadSpec => []PomInv
<1>1. PayloadInit => PomInv
  BY DEF PayloadInit, PomInv, Artifacts, NoFile, Texts, PomOK
<1>2. PayloadInv /\ PomInv /\ [PayloadNext]_payloadVars => PomInv'
  BY PomKept
<1>. QED  BY <1>1, <1>2, PayloadInvariant, PTL DEF PayloadSpec

\* the project of an image in terms of what was added to it
LEMMA ImagePom ==
    ASSUME PomInv, image # NoImage, image.pom # <<>>
    PROVE  /\ image.spec.dependencies \in Seq(Seq(STRING))
           /\ ~BadDependencies(image.spec)
           /\ \E ddl \in Ddls, ispn \in BOOLEAN :
                 /\ SourceTypes[ddl] \in Seq(STRING)
                 /\ image.pom = GenerateVdbPom(image.spec, SourceTypes[ddl], FALSE,
                                               image.spec.openapi, ispn)
<1>1. image.spec \in Specs /\ PomOK(image)
  BY DEF PomInv, PomOK
<1>2. image.spec.dependencies \in Seq(Seq(STRING))
  BY <1>1, PayloadAssumption
<1>3. \A ddl \in Ddls : SourceTypes[ddl] \in Seq(STRING)
  BY PayloadAssumption
<1>. QED  BY <1>1, <1>2, <1>3, Zenon DEF PomOK

\* what was asked for first is in the project, or begins it, or came before
LEMMA AskedFor ==
    ASSUME NEW S, NEW b \in Seq(S), NEW u \in Seq(S), NEW p \in Seq(S), NEW q \in Seq(S),
           NEW more, NEW n, Added(p, b, u, Len(u)), Added(q, p, more, n),
           NEW i \in DOMAIN u, u[i] # NoDependency
    PROVE  \/ Mentions(b \o SubSeq(u, 1, i - 1), u[i])
           \/ \E j \in DOMAIN q : q[j] = u[i]
<1>. DEFINE v == SubSeq(u, 1, i - 1)
            w == b \o v
<1>0. /\ Len(u) \in Nat /\ i \in 1..Len(u) /\ i \in Nat
      /\ Len(b) \in Nat /\ DOMAIN b = 1..Len(b)
  OBVIOUS
<1>1. v \in Seq(S) /\ DOMAIN v = 1..(i - 1) /\ \A m \in 1..(i - 1) : v[m] = u[m]
  BY <1>0
<1>2. \A d : Includes(b, d) \/ Includes(v, d) => Includes(w, d)
  <2>. HIDE DEF v
  <2>. QED  BY <1>1, ConcatElements, Zenon
<1>. HIDE DEF v, w
<1>3. \A d, e : Includes(w, e) /\ Same(e, d) => Mentions(w, d)
  BY Zenon DEF Includes, Same, Mentions
<1>4. CASE Mentions(b, u[i])
  <2>1. PICK k \in DOMAIN b : Same(b[k], u[i])
    BY <1>4, Zenon DEF Mentions, Same
  <2>2. Includes(b, b[k])
    BY <2>1, Zenon DEF Includes
  <2>. QED  BY <1>2, <1>3, <2>1, <2>2, Zenon DEF w, v
<1>5. CASE \E m \in 1..(i - 1) : Same(u[m], u[i])
  <2>1. PICK m \in 1..(i - 1) : Same(u[m], u[i])
    BY <1>5
  <2>2. Includes(v, u[m])
    BY <1>1, <2>1 DEF Includes
  <2>. QED  BY <1>2, <1>3, <2>1, <2>2, Zenon DEF w, v
<1>6. CASE \E k \in DOMAIN p : p[k] = u[i]
  <2>1. PICK k \in DOMAIN p : p[k] = u[i]
    BY <1>6
  <2>2. k \in DOMAIN q /\ q[k] = p[k]
    BY <2>1 DEF Added, Prefixed
  <2>. QED  BY <2>1, <2>2, Zenon
<1>7. FirstWins(p, b, u, Len(u))
  BY DEF Added
<1>. QED  BY <1>0, <1>4, <1>5, <1>6, <1>7, Zenon DEF FirstWins

\* The project names no artifact twice, and what a user asks for is in it in
\* the version asked for first, unless every project starts with it: whatever
\* GenerateVdbPom adds after it, for any dependencies, sources and options.
THEOREM UserVersionsAlwaysWin == PayloadSpec => []UserVersionsWin
<1>1. PomInv => UserVersionsWin
  <2>. SUFFICES ASSUME PomInv, image # NoImage, image.pom # <<>>
                PROVE  /\ \A i, j \in DOMAIN image.pom :
                             Mentions(<<image.pom[i]>>, image.pom[j]) => i = j
                       /\ \A i \in DOMAIN UserDependencies(image.spec) :
                             \/ Mentions(BaseDependencies
                                         \o SubSeq(UserDependencies(image.spec), 1, i - 1),
                                         UserDependencies(image.spec)[i])
                             \/ \E j \in DOMAIN image.pom :
                                   image.pom[j] = UserDependencies(image.spec)[i]
    BY Zenon DEF UserVersionsWin, Built
  <2>1. /\ image.spec.dependencies \in Seq(Seq(STRING))
        /\ ~BadDependencies(image.spec)
    BY ImagePom
  <2>2. PICK ddl \in Ddls, ispn \in BOOLEAN :
           /\ SourceTypes[ddl] \in Seq(STRING)
           /\ image.pom = GenerateVdbPom(image.spec, SourceTypes[ddl], FALSE,
                                         image.spec.openapi, ispn)
    BY ImagePom
  <2>3. PICK types \in Seq(STRING) : types = SourceTypes[ddl]
    BY <2>2
  <2>n. PICK n \in Nat : DOMAIN types = 1..n
    <3>1. Len(types) \in Nat /\ DOMAIN types = 1..Len(types)
      OBVIOUS
    <3>. QED  BY <3>1, Zenon
  <2>4. PICK vdb, openapi, q : vdb = image.spec /\ openapi = image.spec.openapi /\ q = image.pom
    OBVIOUS
  <2>. DEFINE b == BaseDependencies
              u == UserDependencies(vdb)
              o == OperatorDependencies(vdb, types, FALSE, openapi, ispn)
              p == AddDependencies(b, u)
  <2>5. q = GenerateVdbPom(vdb, types, FALSE, openapi, ispn)
    BY <2>2, <2>3, <2>4, Zenon
  <2>6. /\ b \in Seq(Projects) /\ u \in Seq(Projects)
        /\ p \in Seq(Projects) /\ q \in Seq(Projects)
        /\ Added(p, b, u, Len(u)) /\ Added(q, p, o, Len(o))
    <3>1. vdb.dependencies \in Seq(Seq(STRING))
      BY <2>1, <2>4, Zenon
    <3>. QED  BY <2>n, <2>5, <3>1, PomIs, Zenon
  <2>7. \A i \in DOMAIN u : u[i] # NoDependency
    BY <2>1, <2>4, UserDependenciesAre, Zenon
  <2>. HIDE DEF b, u, o, p
  <2>8. Distinct(q)
    <3>1. Distinct(b)
      BY BaseIs, Zenon DEF b
    <3>. QED  BY <2>6, <3>1, Zenon DEF Added
  <2>9. ASSUME NEW i \in DOMAIN q, NEW j \in DOMAIN q, Mentions(<<q[i]>>, q[j])
        PROVE  i = j
    <3>1. PICK e : e = q[i]
      OBVIOUS
    <3>2. Mentions(<<e>>, q[j])
      BY <2>9, <3>1, Zenon
    <3>3. Same(e, q[j])
      BY <3>2 DEF Mentions, Same
    <3>. QED  BY <2>8, <3>1, <3>3, Zenon DEF Distinct
  <2>10. ASSUME NEW i \in DOMAIN u
         PROVE  \/ Mentions(b \o SubSeq(u, 1, i - 1), u[i])
                \/ \E j \in DOMAIN q : q[j] = u[i]
    BY <2>6, <2>7, AskedFor
  <2>. QED  BY <2>4, <2>9, <2>10, Zenon DEF b, u
<1>. QED  BY <1>1, PomInvariant, PTL

LEMMA BuilderHasOwn ==
    /\ \A k \in DOMAIN BaseDependencies : Mentions(BuilderPom, BaseDependencies[k])
    /\ \A d \in Starting \cup OperatorsOwn :
          d # NoDependency => Mentions(BuilderPom, d)
<1>. DEFINE types == <<"h2">>
            b == BaseDependencies
            u == UserDependencies(BuilderVdb)
            o == OperatorDependencies(BuilderVdb, types, TRUE, TRUE, TRUE)
            p == AddDependencies(b, u)
<1>1. BuilderVdb.dependencies \in Seq(Seq(STRING))
  <2>1. BuilderVdb.dependencies = <<>>
    BY DEF BuilderVdb
  <2>2. <<>> \in Seq(Seq(STRING))
    OBVIOUS
  <2>. QED  BY <2>1, <2>2, Zenon
<1>2. DOMAIN types = 1..1 /\ 1 \in Nat
  OBVIOUS
<1>. HIDE DEF types
<1>3. /\ b \in Seq(Projects) /\ u \in Seq(Projects) /\ o \in Seq(Projects)
      /\ p \in Seq(Projects) /\ GenerateVdbPom(BuilderVdb, types, TRUE, TRUE, TRUE) \in Seq(Projects)
      /\ Added(p, b, u, Len(u))
      /\ Added(GenerateVdbPom(BuilderVdb, types, TRUE, TRUE, TRUE), p, o, Len(o))
  BY <1>1, <1>2, PomIs, Zenon
<1>4. BuilderPom = GenerateVdbPom(BuilderVdb, types, TRUE, TRUE, TRUE)
  BY Zenon DEF BuilderPom, types
<1>5. \A d \in Starting \cup OperatorsOwn : Includes(o, d)
  BY <1>2, OperatorDependenciesAre, Zenon
<1>6. PICK q \in Seq(Projects) : q = BuilderPom /\ Added(q, p, o, Len(o))
  BY <1>3, <1>4, Zenon
<1>. HIDE DEF b, u, o, p
<1>7. \A k \in DOMAIN b : k \in DOMAIN q /\ q[k] = b[k]
  BY <1>3, <1>6 DEF Added, Prefixed
<1>8. \A k \in DOMAIN b : Mentions(q, b[k])
  BY <1>7, Zenon DEF Mentions
<1>9. ASSUME NEW d \in Starting \cup OperatorsOwn, d # NoDependency
      PROVE  Mentions(q, d)
  <2>1. PICK i \in DOMAIN o : o[i] = d
    BY <1>5, Zenon DEF Includes
  <2>2. i \in 1..Len(o)
    BY <1>3
  <2>. QED  BY <1>6, <1>9, <2>1, <2>2, Zenon DEF Added, AllMentioned
<1>. QED  BY <1>6, <1>8, <1>9, Zenon DEF b

\* Whatever the operator adds to the project of any VirtualDatabase is in the
\* builder image, which is built once for all of them from BuilderPom; only
\* what users ask for may be missing there.
THEOREM BuilderAlwaysHasAll == PayloadSpec => []BuilderHasAll
<1>1. PomInv => BuilderHasAll
  <2>. SUFFICES ASSUME PomInv, image # NoImage, NEW i \in DOMAIN image.pom
                PROVE  \/ Mentions(BuilderPom, image.pom[i])
                       \/ Mentions(UserDependencies(image.spec), image.pom[i])
    BY Zenon DEF BuilderHasAll, Built
  <2>0. image.pom # <<>>
    <3>. SUFFICES ASSUME image.pom = <<>> PROVE FALSE
      OBVIOUS
    <3>1. DOMAIN << >> = {}
      OBVIOUS
    <3>. QED  BY <3>1, Zenon
  <2>1. image.spec.dependencies \in Seq(Seq(STRING))
    BY <2>0, ImagePom
  <2>2. PICK ddl \in Ddls, ispn \in BOOLEAN :
           /\ SourceTypes[ddl] \in Seq(STRING)
           /\ image.pom = GenerateVdbPom(image.spec, SourceTypes[ddl], FALSE,
                                         image.spec.openapi, ispn)
    BY <2>0, ImagePom
  <2>3. PICK types \in Seq(STRING) : types = SourceTypes[ddl]
    BY <2>2
  <2>n. PICK n \in Nat : DOMAIN types = 1..n
    <3>1. Len(types) \in Nat /\ DOMAIN types = 1..Len(types)
      OBVIOUS
    <3>. QED  BY <3>1, Zenon
  <2>4. PICK vdb, openapi, q : vdb = image.spec /\ openapi = image.spec.openapi /\ q = image.pom
    OBVIOUS
  <2>. DEFINE b == BaseDependencies
              u == UserDependencies(vdb)
              o == OperatorDependencies(vdb, types, FALSE, openapi, ispn)
              p == AddDependencies(b, u)
  <2>5. q = GenerateVdbPom(vdb, types, FALSE, openapi, ispn)
    BY <2>2, <2>3, <2>4, Zenon
  <2>6. /\ b \in Seq(Projects) /\ u \in Seq(Projects) /\ o \in Seq(Projects)
        /\ p \in Seq(Projects) /\ q \in Seq(Projects)
        /\ Added(p, b, u, Len(u)) /\ Added(q, p, o, Len(o))
    <3>1. vdb.dependencies \in Seq(Seq(STRING))
      BY <2>1, <2>4, Zenon
    <3>. QED  BY <2>n, <2>5, <3>1, PomIs, Zenon
  <2>7. o \in Seq(Starting \cup OperatorsOwn \cup {NoDependency})
    BY <2>n, OperatorDependenciesAre, Zenon
  <2>. HIDE DEF b, u, o, p
  <2>8. i \in DOMAIN q
    BY <2>4, Zenon
  <2>9. CASE i \in DOMAIN p
    <3>1. q[i] = p[i]
      BY <2>6, <2>9, SMTT(40) DEF Added, Prefixed
    <3>2. CASE i \in DOMAIN b
      <4>1. p[i] = b[i]
        <5>1. i \in 1..Len(b)
          BY <2>6, <3>2
        <5>. QED  BY <2>6, <5>1, Zenon DEF Added, Prefixed
      <4>. QED  BY <2>4, <3>1, <3>2, <4>1, BuilderHasOwn, Zenon DEF b
    <3>3. CASE \E j \in 1..Len(u) : u[j] # NoDependency /\ p[i] = u[j]
      <4>1. PICK j \in 1..Len(u) : p[i] = u[j]
        BY <3>3
      <4>2. j \in DOMAIN u
        BY <2>6
      <4>3. Mentions(u, u[j])
        BY <4>2, Zenon DEF Mentions
      <4>. QED  BY <2>4, <3>1, <4>1, <4>3, Zenon DEF u
    <3>. QED  BY <2>6, <2>9, <3>2, <3>3, Zenon DEF Added, OnlyAdded
  <2>10. CASE \E j \in 1..Len(o) : o[j] # NoDependency /\ q[i] = o[j]
    <3>1. PICK j \in 1..Len(o) : o[j] # NoDependency /\ q[i] = o[j]
      BY <2>10
    <3>2. o[j] \in Starting \cup OperatorsOwn \cup {NoDependency}
      BY <2>7
    <3>3. Mentions(BuilderPom, o[j])
      BY <3>1, <3>2, BuilderHasOwn, Zenon
    <3>. QED  BY <2>4, <3>1, <3>3, Zenon
  <2>. QED  BY <2>6, <2>8, <2>9, <2>10, Zenon DEF Added, OnlyAdded
<1>. QED  BY <1>1, PomInvariant, PTL

=============================================================================
