--------------------------- MODULE MCProvisioning ----------------------------
(* Small instances of Provisioning for TLC. *)
EXTENDS Provisioning

FullCluster == {"route", "expose fails", "infinispan"}
BareCluster == {"route", "expose fails"}

MCText == {<<>>, <<1>>, <<2>>}
MCGavVersion == [t \in MCText |-> 0]

Ddl(t) == [ddl |-> t, maven |-> <<>>, openapi |-> <<>>, buildEnv |-> <<>>,
           env |-> <<>>, version |-> 0, replicas |-> 1, validEnv |-> TRUE,
           expose |-> <<"NodePort">>]

OneDdl    == {Ddl(<<1>>)}
TwoScaled == {[Ddl(t) EXCEPT !.expose = <<"ExposeVia3scale">>] :
                  t \in {<<1>>, <<2>>}}

NothingProvided == {{}}
Provided == {{}, {"credentials", "secret"}}

None == {}
ServiceLags == {"service"}

\* bound: failed builds and rollouts are not followed
NoDeadEnds ==
    \A v \in VDBs :
        store[v] # NoVdb => store[v].obj.status.phase \notin {ServiceImageFailed, Error}

\* bound: the Infinispan operator is installed before a cache store is created
InfinispanFirst ==
    ispn \/ \A v \in VDBs :
        store[v] # NoVdb => store[v].obj.status.phase \in {Initial, CreateCacheStore}

\* bounds: one failed call, failed builder image, crash or provided secret,
\* and then no recreation
OneDisturbance ==
    LET provided == \E v \in VDBs, k \in Kinds :
                        objs[v][k] # NoObject /\ objs[v][k].owner = NoOwner
        n == builderFaults + ownedFaults + spent.crashes
             + Cardinality(FailedBuilds(builder)) + (IF provided THEN 1 ELSE 0)
    IN  n <= 1 /\ (n = 1 => spent.edits <= 2)

\* bound: the third write of a user recreates the first source
ThenRecreated ==
    \A v \in VDBs :
        spent.edits = 3 /\ store[v] # NoVdb =>
            store[v].uid > 1 /\ store[v].obj.spec.ddl = <<1>>

\* bound: no events of owned objects, so that only timers and writes wake up
\* the worker
NoOwnedEvents == \A v \in VDBs : ~(OwnedEvent(v) /\ Same)

\* bound: what a VirtualDatabase left behind is collected from either end of
\* the order in which it was created
Order == <<"identity", "infinispan", "credentials", "service", "external",
           "route", "certificates", "keystore", "monitor">>
Garbage(v) ==
    {i \in 1..Len(Order) : /\ objs[v][Order[i]] # NoObject
                           /\ objs[v][Order[i]].owner # NoOwner
                           /\ ~OwnerThere(v, Order[i])}
CollectedFromTheEnds ==
    \A v \in VDBs : \A i \in Garbage(v) :
        objs'[v][Order[i]] = NoObject =>
            \/ \A j \in Garbage(v) : i <= j
            \/ \A j \in Garbage(v) : j <= i
=============================================================================
