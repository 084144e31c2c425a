----------------------------- MODULE MCVersions ------------------------------
(* Small instances of Versions for TLC. *)
EXTENDS Versions

CalmCluster == {"route"}

MCText == {<<>>, <<1>>, <<2>>, <<3>>}
MCGavVersion == [t \in MCText |-> 0]

Ddl(t) == [ddl |-> t, maven |-> <<>>, openapi |-> <<>>, buildEnv |-> <<>>,
           env |-> <<>>, version |-> 0, replicas |-> -1, validEnv |-> TRUE,
           expose |-> <<>>]

TwoDdls == {Ddl(<<1>>), Ddl(<<2>>)}
=============================================================================
