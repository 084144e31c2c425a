--------------------------- MODULE MCBuilderImage ----------------------------
(* Small instances of BuilderImage for TLC. *)
EXTENDS BuilderImage

CalmCluster == {}

MCText == {<<>>, <<1>>, <<2>>}
MCGavVersion == [t \in MCText |-> 0]

Ddl(t) == [ddl |-> t, maven |-> <<>>, openapi |-> <<>>, buildEnv |-> <<>>,
           env |-> <<>>, version |-> 0, replicas |-> 1, validEnv |-> TRUE,
           expose |-> <<>>]

OneDdl  == {Ddl(<<1>>)}
TwoDdls == {Ddl(<<1>>), Ddl(<<2>>)}

\* bound: no VirtualDatabase is followed past its builder image
UpToBuilder ==
    \A v \in VDBs :
        store[v] # NoVdb => store[v].obj.status.phase \notin
                               PastBuilder \ {BuilderImageFinished}
=============================================================================
