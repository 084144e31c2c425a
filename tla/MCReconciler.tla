---------------------------- MODULE MCReconciler -----------------------------
(* Small instances of Reconciler for TLC. *)
EXTENDS Reconciler

CalmCluster == {"route"}
RoughCluster == {"config missing", "config unreadable", "route", "expose fails"}

MCText == {<<>>, <<1>>, <<2>>, <<3>>}

\* the coordinate <<3>> has a version such as 1.0-SNAPSHOT
MCGavVersion == [t \in MCText |-> IF t = <<3>> THEN -1 ELSE 0]

Ddl(t) == [ddl |-> t, maven |-> <<>>, openapi |-> <<>>, buildEnv |-> <<>>,
           env |-> <<>>, version |-> 0, replicas |-> -1, validEnv |-> TRUE,
           expose |-> <<>>]
Maven(t) == [Ddl(<<>>) EXCEPT !.maven = t]

OneDdl == {Ddl(<<1>>)}
BadEnv(t) == [Ddl(t) EXCEPT !.validEnv = FALSE]
SomeSpecs == {Ddl(<<1>>), BadEnv(<<1>>), Maven(<<3>>)}

\* bound: the creation and one of an edit, a replace, a fault, a restart, a relist
OneDisturbance ==
    spent.edits + spent.replaces + spent.faults + spent.crashes + spent.relists <= 2
=============================================================================
