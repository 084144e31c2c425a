---------------------------- MODULE MCDeployment -----------------------------
(* Small instances of Deployment for TLC. *)
EXTENDS Deployment

CalmCluster == {"infinispan"}

MCText == {<<>>, <<1>>, <<2>>, <<3>>}
MCGavVersion == [t \in MCText |-> 0]

CONSTANTS r1, r2
MCRevisions     == {r1, r2}
MCNoDigest      == <<>>
MCConfigDigests == {MCNoDigest} \cup (MCRevisions \X MCText)

\* the user sets a variable of a data source and every field of the pod, which
\* leaves no field reference for the API server to complete
MCUserEnv == [t \in MCText |->
    IF t = <<1>>
    THEN << Val("DS_URL", <<"user">>), Val("NAMESPACE", <<"user">>),
            Val("TEIID_NODENAME", <<"user">>), Val("TEIID_PODNAME", <<"user">>) >>
    ELSE <<>>]

MCSourcesIn == [t \in MCText |-> CASE t = <<>>  -> <<>>
                                   [] t = <<3>> -> <<"my ds">>
                                   [] OTHER     -> <<"ds">>]

\* a property with a value and one with both a value and a reference
MCDataSources ==
    << [name |-> "ds", spaces |-> FALSE, properties |->
          << [var |-> "DS_URL", spaces |-> FALSE, value |-> <<"spec">>, from |-> ""],
             [var |-> "DS_USER", spaces |-> FALSE, value |-> <<"spec">>,
              from |-> "secret"] >>],
       [name |-> "my ds", spaces |-> TRUE, properties |-> <<>>] >>

\* the cluster has hosts that are reached without a proxy, and no proxy
MCClusterProxy == << Val("NO_PROXY", <<"svc">>) >>
NoUrls == {}
MCWords == STRING

Ddl(t) == [ddl |-> t, maven |-> <<>>, openapi |-> <<>>, buildEnv |-> <<>>,
           env |-> <<>>, version |-> 0, replicas |-> 1, validEnv |-> TRUE,
           expose |-> <<>>]

OneDdl == {Ddl(<<1>>)}

NoCount(s) == [s EXCEPT !.replicas = NoReplicas]

\* another source with another environment and more replicas, and a bad one;
\* and, for a replace, the first source and another without a number of replicas
EditedSpecs == {Ddl(<<1>>), Ddl(<<3>>),
                [Ddl(<<2>>) EXCEPT !.env = <<1>>, !.replicas = 2],
                NoCount(Ddl(<<1>>)), NoCount([Ddl(<<2>>) EXCEPT !.env = <<1>>])}

\* bound: the creation, of the first spec, and a restart or any two other disturbances
TwoDisturbances ==
    /\ \A v \in VDBs : store[v] # NoVdb /\ store[v].gen = 1 =>
                           store[v].obj.spec = Ddl(<<1>>)
    /\ spent.edits + 2 * (spent.replaces + spent.crashes) + used.config + used.faults 
          <= 3
=============================================================================
