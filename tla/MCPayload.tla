------------------------------ MODULE MCPayload ------------------------------
(* A small instance of Payload for TLC. *)
EXTENDS Payload

MCFactories == [t \in {"h2", "mongodb"} |-> "spring-data-" \o t]
MCOrder == <<"mongodb", "h2">>

\* the third repository is customized, with an id of its own
Address(a) == [instruction |-> "address", value |-> a]
MCUrls ==
    [k \in {"r1", "r2", "r3"} |->
        IF k = "r3" THEN <<Address(k), Id("other"), Instruct("snapshots")>>
        ELSE <<Address(k)>>]

Coordinate(t, c, ver) == [group |-> "g", artifact |-> "a", type |-> t,
                          classifier |-> c, version |-> ver]
Snapshot   == Coordinate("vdb", "", "1-SNAPSHOT")
Classified == Coordinate("vdb", "c", "2")
Jar        == Coordinate("jar", "", "3")

MCCoordinates == {Snapshot, Classified, Jar}
MCContents == [c \in MCCoordinates |-> IF c = Snapshot THEN {"ddl1", "ddl2"}
                                       ELSE IF c = Classified THEN {"ddl2", "none"}
                                       ELSE {"none"}]
MCSnapshots == {"1-SNAPSHOT"}
MCStamps == <<"s1", "s2">>

MCDdls == {"ddl1", "ddl2"}
MCSourceTypes == [d \in MCDdls |-> IF d = "ddl1" THEN <<"h2", "custom">> ELSE <<"mongodb">>]
Ddl2Only == {"ddl2"}
Nothing == {}

Plain == [ddl |-> "ddl1", maven |-> <<>>, openapi |-> FALSE, keycloak |-> FALSE,
          expose |-> <<>>, dependencies |-> <<>>]

FromMaven(gav) == [Plain EXCEPT !.ddl = "none", !.maven = gav]

MCSpecs ==
    { FromMaven(<<"g", "a", "vdb", "1-SNAPSHOT">>),
      [FromMaven(<<"g", "a", "vdb", "c", "2">>) EXCEPT
          !.openapi = TRUE, !.expose = <<"Route", "ExposeVia3scale">>,
          !.dependencies = << <<"org.teiid", "spring-keycloak", "9">>,
                              <<"my", "driver", "jar", "1">>,
                              <<"my", "driver", "2">>,
                              <<"com.h2database", "h2", "2">> >>],
      FromMaven(<<"g", "a", "3">>),
      [Plain EXCEPT !.keycloak = TRUE],
      [Plain EXCEPT !.dependencies = << <<"driver">> >>] }

SomeSettings == {"own config map", "shared secret"}

\* bound: one edit, outage, restart or failed read
OneDisturbance ==
    used.edits + used.outages + used.restarts
        + (IF Built /\ image.unseen # {} THEN 1 ELSE 0) <= 1

\* bounds: what is published is what the VirtualDatabase asks for, not in the
\* repository that does not answer; repositories fail while they are in use
WhileInUse ==
    \A r \in Repos :
        /\ up[r] /\ ~up'[r] => call.step # "idle" /\ r # "r3"
        /\ holds'[r] # holds[r] =>
              /\ r # "r3"
              /\ spec.maven # <<>>
              /\ \A a \in holds'[r] \ holds[r] : a.path.dir = Dep.version
=============================================================================
