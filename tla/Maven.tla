-------------------------------- MODULE Maven --------------------------------
(***************************************************************************)
(* What the operator knows of Maven: the coordinates a user writes, the    *)
(* dependencies of the project it generates for a VirtualDatabase and for  *)
(* the builder image, and where a repository keeps an artifact.            *)
(*                                                                         *)
(* A coordinate is the sequence of the parts between its colons, "" being  *)
(* an empty part; no part contains a space.                                *)
(***************************************************************************)
EXTENDS Integers, Sequences

CONSTANTS
    ConnectionFactories,    \* type of a data source -> its starter
    FactoryOrder            \* the types, in the order in which Go ranges over them

ASSUME FactoryAssumption ==
    /\ FactoryOrder \in Seq(DOMAIN ConnectionFactories)
    /\ \A t \in DOMAIN ConnectionFactories :
          \E i \in DOMAIN FactoryOrder : FactoryOrder[i] = t

Dependency(g, a, ver) == [group |-> g, artifact |-> a, version |-> ver,
                          type |-> "", classifier |-> ""]

-----------------------------------------------------------------------------
(* ParseGAV: <groupId>:<artifactId>[:<packagingType>[:<classifier>]]:<version> *)

Part(gav, i) == IF i \in DOMAIN gav THEN gav[i] ELSE ""

\* the expression is not anchored: the first two parts in a row that are there
Starts(gav) == {i \in DOMAIN gav : Part(gav, i) # "" /\ Part(gav, i + 1) # ""}
BadGAV(gav) == Starts(gav) = {}
Start(gav) == CHOOSE i \in Starts(gav) : \A j \in Starts(gav) : i <= j

\* (mutant) the classifier and the type are told apart the wrong way round
ParseGAVSwapped(gav) ==
    LET n == Len(gav)
    IN  [group |-> gav[1], artifact |-> gav[2], version |-> gav[n],
         type |-> IF n > 3 THEN gav[n - 1] ELSE "jar",
         classifier |-> IF n > 4 THEN gav[3] ELSE ""]

\* which of the remaining parts is what depends on the number of colons; the
\* fifth part is only matched if the fourth is
ParseGAV(gav) ==
    LET i      == Start(gav)
        third  == Part(gav, i + 2)
        fourth == Part(gav, i + 3)
        fifth  == IF fourth = "" THEN "" ELSE Part(gav, i + 4)
    IN  [group      |-> gav[i],
         artifact   |-> gav[i + 1],
         version    |-> CASE Len(gav) = 3 -> third
                          [] Len(gav) = 4 -> fourth
                          [] OTHER        -> fifth,
         type       |-> IF Len(gav) = 3 THEN "jar" ELSE third,
         classifier |-> IF Len(gav) \in {3, 4} THEN "" ELSE fourth]

\* the source contains ":vdb:"
IsFatJarBuild(gav) ==
    gav # <<>> /\ ~\E i \in 2..(Len(gav) - 1) : gav[i] = "vdb"

-----------------------------------------------------------------------------
(* The project.  A dependency is its group and artifact; the first wins.    *)

Mentions(ds, d) == \E i \in DOMAIN ds : /\ ds[i].group = d.group
                                        /\ ds[i].artifact = d.artifact

\* (mutant) the last mention of an artifact wins
AddDependencyLast(ds, d) ==
    Append(SelectSeq(ds, LAMBDA e : ~Mentions(<<e>>, d)), d)

AddDependency(ds, d) == IF Mentions(ds, d) THEN ds ELSE Append(ds, d)

\* what is not added: an optional dependency that is not called for
NoDependency == Dependency("", "", "")

\* the project after each of the dependencies
Stages(ds, more) ==
    LET stage[i \in 0..Len(more)] ==
            IF i = 0 THEN ds
            ELSE IF more[i] = NoDependency THEN stage[i - 1]
            ELSE AddDependency(stage[i - 1], more[i])
    IN  stage

AddDependencies(ds, more) == Stages(ds, more)[Len(more)]

Teiid(a)  == Dependency("org.teiid", a, "teiid")
Starter(t) == IF t \in DOMAIN ConnectionFactories THEN Teiid(ConnectionFactories[t])
              ELSE NoDependency
Keycloak  == Teiid("spring-keycloak")

\* createMavenProject
BaseDependencies ==
    << Teiid("teiid-spring-boot-starter"),
       Dependency("org.springframework.boot", "spring-boot-starter-actuator", "boot"),
       Dependency("io.opentracing.contrib", "opentracing-spring-jaeger-web-starter", "1.0.1"),
       Dependency("com.h2database", "h2", "1.4.199") >>

\* the starters of the data sources that have one, or of all there are
Starters(types, all) ==
    LET wanted == IF all THEN FactoryOrder ELSE types
    IN  [i \in DOMAIN wanted |-> Starter(wanted[i])]

When(condition, d) == IF condition THEN d ELSE NoDependency

\* (mutant) the builder image has no use for OData
OperatorDependenciesEither(vdb, types, all, openapi, ispn) ==
    Starters(types, all) \o
    << When(all \/ vdb.keycloak, Keycloak),
       When(ispn, Teiid("spring-data-infinispan-hotrod")),
       Teiid(IF openapi THEN "spring-openapi" ELSE "spring-odata"),
       Dependency("me.snowdrop", "narayana-spring-boot-starter", "2.1.0") >>

\* what the operator adds after the user's own dependencies
OperatorDependencies(vdb, types, all, openapi, ispn) ==
    Starters(types, all) \o
    << When(\E i \in DOMAIN vdb.expose : vdb.expose[i] = "ExposeVia3scale", Keycloak),
       When(ispn, Teiid("spring-data-infinispan-hotrod")),
       When(all \/ vdb.keycloak, Keycloak),
       When(openapi \/ all, Teiid("spring-openapi")),
       When(~openapi \/ all, Teiid("spring-odata")),
       Dependency("me.snowdrop", "narayana-spring-boot-starter", "2.1.0") >>

UserDependencies(vdb) ==
    [i \in DOMAIN vdb.dependencies |-> ParseGAV(vdb.dependencies[i])]

BadDependencies(vdb) ==
    \E i \in DOMAIN vdb.dependencies : BadGAV(vdb.dependencies[i])

GenerateVdbPom(vdb, types, all, openapi, ispn) ==
    AddDependencies(AddDependencies(BaseDependencies, UserDependencies(vdb)),
                    OperatorDependencies(vdb, types, all, openapi, ispn))

\* the project the builder image is made of: a database of the operator's own
BuilderVdb == [dependencies |-> <<>>, expose |-> <<>>, keycloak |-> FALSE]
BuilderPom == GenerateVdbPom(BuilderVdb, <<"h2">>, TRUE, TRUE, TRUE)

-----------------------------------------------------------------------------
(* Where a repository keeps an artifact: the directory of its coordinate    *)
(* and, in there, a file with the version or the time stamp of a snapshot.  *)

Path(d, version) ==
    [group |-> d.group, artifact |-> d.artifact, dir |-> d.version,
     version |-> version, classifier |-> d.classifier,
     ext |-> IF d.type # "" THEN d.type ELSE "jar"]

(* A repository is given by its URL, a sequence that starts with the address *)
(* and goes on with the instructions after its "@" signs.                    *)
Id(k) == [instruction |-> "id", value |-> k]
Instruct(i) == [instruction |-> i, value |-> ""]

Instructed(url, i) == \E j \in 2..Len(url) : url[j].instruction = i

\* (mutant) the first of several ids counts
NewRepositoryFirstId(url) ==
    LET ids == {j \in 2..Len(url) : url[j].instruction = "id"}
    IN  [url |-> url[1].value,
         id  |-> url[CHOOSE i \in ids : \A j \in ids : i <= j].value,
         snapshots |-> Instructed(url, "snapshots"),
         releases  |-> ~Instructed(url, "noreleases")]

NewRepository(url) ==
    LET ids == {j \in 2..Len(url) : url[j].instruction = "id"}
    IN  [url |-> url[1].value,
         id  |-> IF ids = {} THEN ""
                 ELSE url[CHOOSE i \in ids : \A j \in ids : j <= i].value,
         snapshots |-> Instructed(url, "snapshots"),
         releases  |-> ~Instructed(url, "noreleases")]

\* the repositories of a settings file or a plain project, each under its key
Repositories(urls) == {NewRepository(Append(urls[k], Id(k))) : k \in DOMAIN urls}
=============================================================================
