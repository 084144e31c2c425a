---------------------------- MODULE OwnedObjects -----------------------------
(***************************************************************************)
(* The objects the operator creates once for a VirtualDatabase and never   *)
(* writes again: the cache store and its secrets, services, a route, a     *)
(* keystore, a service monitor.  Each has a fixed name and belongs to the  *)
(* VirtualDatabase whose uid its controller reference holds.  The API      *)
(* server refuses a second object of the same name, the garbage collector  *)
(* removes an object some time after its owner, and the operator reads     *)
(* most kinds from a cache that may not show the latest writes.            *)
(***************************************************************************)
EXTENDS Reconciler

CONSTANTS
    UserProvides,   \* sets of kinds of secrets that users may have created
    NoObject,       \* no object of that kind and name
    Lagging,        \* bound: the cached kinds whose cache may lag
    MaxOwnedFaults  \* bound: calls about owned objects that fail

ASSUME OwnedAssumption ==
    /\ UserProvides \subseteq
           SUBSET {"credentials", "shared", "secret", "certificates"}
    /\ NoObject \notin [owner : Nat, value : Nat]
    /\ Lagging \subseteq {"credentials", "shared", "service", "external",
                          "route", "secret", "certificates", "keystore"}
    /\ MaxOwnedFaults \in Nat

VARIABLES
    objs,           \* the API server: VDBs -> kind -> the object
    seen,           \* the operator's cache: VDBs -> lagging kind -> the object
    ownedFaults     \* how much of MaxOwnedFaults has been used

ownedVars == <<objs, seen, ownedFaults>>

\* With n the name of the VirtualDatabase: the secret n-cache-store-identity,
\* the Infinispan n-cache-store, the secrets n-cache-store and
\* teiid-cache-store; the services n and n-external, the route n; the secrets
\* n, n-certificates and n-keystore; the service monitor n.
Kinds == {"identity", "infinispan", "credentials", "shared",
          "service", "external", "route",
          "secret", "certificates", "keystore", "monitor"}

(***************************************************************************)
(* owner is the uid of the VirtualDatabase, for the certificates that of   *)
(* the service they were issued for, and NoOwner for what a user created.  *)
(* value is a password (identity, credentials), or 1 for a service that    *)
(* asks for a certificate, and 0 otherwise.                                *)
(***************************************************************************)
NoOwner == 0
Object  == [owner : Nat, value : Nat]

ProvidedObject == [owner |-> NoOwner, value |-> 0]

OwnedInit ==
    /\ Init
    /\ \E p \in UserProvides :
          objs = [v \in VDBs |-> [k \in Kinds |-> IF k \in p THEN ProvidedObject
                                                  ELSE NoObject]]
    /\ seen = [v \in VDBs |-> [k \in Lagging |-> objs[v][k]]]
    /\ ownedFaults = 0

-----------------------------------------------------------------------------
(* What one run of a handler may find and leave behind.                     *)

\* does a read show an object?  All kinds but the identity, the Infinispan and
\* the monitor are read through the manager's client and its cache.
Seen(v, k) == IF k \in Lagging THEN seen[v][k] # NoObject
              ELSE objs[v][k] # NoObject

\* client.Create: refused if there is an object of that name
Created(o, k, obj) == IF o[k] = NoObject THEN [o EXCEPT ![k] = obj] ELSE o

\* (mutant) an object without its data
OwnEmpty(inst, val) == [owner |-> inst.uid]

Own(inst, val) == [owner |-> inst.uid, value |-> val]

Faulty(n) == /\ ownedFaults' = ownedFaults + n
             /\ ownedFaults' <= MaxOwnedFaults

Left(v, o) == objs' = [objs EXCEPT ![v] = o]

-----------------------------------------------------------------------------
(* The cache and the garbage collector.                                     *)

\* the cache catches up with the writes of one kind
CatchUp(v, k) ==
    /\ seen[v][k] # objs[v][k]
    /\ seen' = [seen EXCEPT ![v][k] = objs[v][k]]
    /\ UNCHANGED <<vars, objs, ownedFaults>>

OwnerThere(v, k) ==
    LET uid == objs[v][k].owner
    IN  IF k = "certificates"
        THEN objs[v]["service"] # NoObject /\ objs[v]["service"].owner = uid
        ELSE store[v] # NoVdb /\ store[v].uid = uid

Collect(v, k) ==
    /\ objs[v][k] # NoObject
    /\ objs[v][k].owner # NoOwner
    /\ ~OwnerThere(v, k)
    /\ objs' = [objs EXCEPT ![v][k] = NoObject]
    /\ UNCHANGED <<vars, seen, ownedFaults>>

\* a restarted operator lists everything before it works
Relisted == seen' = [v \in VDBs |-> [k \in Lagging |-> objs'[v][k]]]

\* a step of the loop, which concerns owned objects only if it is a restart
OwnedLoop ==
    /\ Loop
    /\ UNCHANGED <<objs, ownedFaults>>
    /\ IF Crash \/ HandlerPanics THEN Relisted ELSE UNCHANGED seen

\* The API server holds one object of each kind and name, with an owner.
OwnedTypeOK ==
    /\ objs \in [VDBs -> [Kinds -> Object \cup {NoObject}]]
    /\ seen \in [VDBs -> [Lagging -> Object \cup {NoObject}]]
    /\ ownedFaults \in 0..MaxOwnedFaults
=============================================================================
