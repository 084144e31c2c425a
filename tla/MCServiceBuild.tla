--------------------------- MODULE MCServiceBuild ----------------------------
(* Small instances of ServiceBuild for TLC. *)
EXTENDS ServiceBuild

CalmCluster == {}

MCText == {<<>>, <<1>>, <<2>>, <<3>>}
MCGavVersion == [t \in MCText |-> IF t = <<3>> THEN -1 ELSE 0]

Ddl(t) == [ddl |-> t, maven |-> <<>>, openapi |-> <<>>, buildEnv |-> <<>>,
           env |-> <<>>, version |-> 0, replicas |-> -1, validEnv |-> TRUE,
           expose |-> <<>>]

TwoDdls   == {Ddl(<<1>>), Ddl(<<2>>)}
ThreeDdls == {Ddl(<<1>>), Ddl(<<2>>), Ddl(<<3>>)}
NoneBad   == {}
Ddl3Bad   == {<<3>>}

\* bounds: the first source is always the same; one crash, failed call, lost
\* tag or source that cannot be built; the third edit then leaves that first
\* source or none
Specified(v) == IF store[v] = NoVdb THEN <<>> ELSE store[v].obj.spec.ddl

OneDisturbance ==
    LET bad == \E v \in VDBs : Specified(v) \in BadSources
    IN  /\ \A v \in VDBs : rev[v] = 1 => Specified(v) = <<1>>
        /\ spent.crashes + callFaults <= 1
        /\ spent.crashes + callFaults = 1 => builderTag /\ ~bad
        /\ ~builderTag => ~bad
        /\ Disturbed /\ spent.edits = 3 =>
              \A v \in VDBs : Specified(v) \in {<<>>, <<1>>}

\* bound: no VirtualDatabase is followed past its image
UpToImage ==
    \A v \in VDBs :
        store[v] # NoVdb => store[v].obj.status.phase \notin
                               ImageReady \ {ServiceImageFinished}
=============================================================================
