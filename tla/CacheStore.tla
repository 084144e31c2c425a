------------------------------ MODULE CacheStore -----------------------------
(***************************************************************************)
(* The CacheStore action in full.  Where the Infinispan operator is        *)
(* deployed, it looks for a secret that describes a cache store and, if    *)
(* there is none, creates one with a random password: first the secret     *)
(* that tells Infinispan its users, then the Infinispan cluster, and last  *)
(* the secret from which the pods take the password.  Errors are logged,   *)
(* and the phase advances whatever happened.                               *)
(***************************************************************************)
EXTENDS OwnedObjects, FiniteSets

CONSTANT CachingOff   \* values of Spec.Env that set DISABLE_ISPN_CACHING

ASSUME CacheStoreAssumption == CachingOff \subseteq Text

VARIABLE ispn         \* is the Infinispan operator deployed?

CacheStoreInit == ispn = FALSE

-----------------------------------------------------------------------------
IgnoreCacheStore(t) == ~ispn \/ t.spec.env \in CachingOff

\* the secrets that describe a cache store, as the cache shows them
ConfigurationsSeen(v) ==
    {k \in {"credentials", "shared"} : Seen(v, k)}

\* A password no object has: RandomPassword is taken not to repeat itself.
RandomPassword(o) ==
    CHOOSE p \in 1..3 :
        /\ \A k \in {"identity", "credentials"} :
              o[k] # NoObject => o[k].value # p
        /\ \A q \in 1..(p - 1) : \E k \in {"identity", "credentials"} :
              o[k] # NoObject /\ o[k].value = q

\* (mutant) a creation that is refused is taken for done
NewCacheStoreTolerant(inst, o) ==
    LET p  == RandomPassword(o)
        o1 == Created(o, "identity", Own(inst, p))
        o2 == Created(o1, "infinispan", Own(inst, 0))
    IN  <<o, o1, o2, Created(o2, "credentials", Own(inst, p))>>

(***************************************************************************)
(* The objects there are before and after each creation of a new cache     *)
(* store, up to the one that is refused.  All four are there only if both  *)
(* the identity and the Infinispan were created.                           *)
(***************************************************************************)
NewCacheStore(inst, o) ==
    LET p  == RandomPassword(o)
        o1 == Created(o, "identity", Own(inst, p))
        o2 == Created(o1, "infinispan", Own(inst, 0))
        o3 == Created(o2, "credentials", Own(inst, p))
    IN  <<o>> \o (IF o["identity"] # NoObject THEN <<>>
                  ELSE IF o["infinispan"] # NoObject THEN <<o1>>
                  ELSE <<o1, o2, o3>>)

Ran(o, stored, n) == [objs |-> o, stored |-> stored, faults |-> n]

\* (mutant) the cache store is recorded although its creation failed
NewStoreRunsAnyway(inst, o) ==
    LET s == NewCacheStore(inst, o) IN {Ran(s[Len(s)], TRUE, 0)}

\* the runs of createNewCacheStore and createCacheStoreSecret: no call fails,
\* or one does, whether or not it had its effect
NewStoreRuns(inst, o) ==
    LET s == NewCacheStore(inst, o)
        n == Len(s)
    IN  {Ran(s[n], n = 4, 0)}
        \cup {Ran(s[i], FALSE, 1) : i \in 1..n \ {4}}
        \cup {Ran(s[i], TRUE, 1)  : i \in 3..n}

\* the runs of Handle: an error while reading looks like no configuration,
\* and like no Infinispan operator
CacheStoreRuns(inst, v) ==
    LET found == Cardinality(ConfigurationsSeen(v))
    IN  IF IgnoreCacheStore(inst.obj) THEN {Ran(objs[v], FALSE, 0)}
        ELSE {Ran(objs[v], FALSE, 1)}
             \cup (IF found > 0 THEN {Ran(objs[v], FALSE, 0)} ELSE {})
             \cup {[r EXCEPT !.faults = @ + found] :
                       r \in NewStoreRuns(inst, objs[v])}

Recorded(t, stored) == [t EXCEPT !.status.cacheStore = @ \/ stored]

RunCacheStore ==
    LET t == worker.inst.obj
    IN  /\ AtStep("CacheStore")
        /\ \E r \in CacheStoreRuns(worker.inst, worker.key) :
              /\ Left(worker.key, r.objs)
              /\ Faulty(r.faults)
              /\ Handled(Return(InPhase(Recorded(t, r.stored), S2IReady)))
        /\ UNCHANGED <<seen, ispn, consoleLinks>>

\* the operator crashes between two of the creations
CrashInCacheStore ==
    /\ AtStep("CacheStore")
    /\ ~IgnoreCacheStore(worker.inst.obj)
    /\ ConfigurationsSeen(worker.key) = {}
    /\ LET s == NewCacheStore(worker.inst, objs[worker.key])
       IN  \E i \in 1..Len(s) : Left(worker.key, s[i])
    /\ Crash
    /\ Relisted
    /\ UNCHANGED <<ispn, ownedFaults>>

\* an administrator installs the Infinispan operator
InstallInfinispan ==
    /\ "infinispan" \in Conditions
    /\ ~ispn
    /\ ispn' = TRUE
    /\ UNCHANGED <<vars, ownedVars>>

-----------------------------------------------------------------------------
(* Properties.                                                              *)

\* The password in the secret the pods of a VirtualDatabase read is the one
\* its Infinispan was given.  Every run of the handler draws a new password,
\* and a run may be repeated after a conflict, a failed call or a crash between
\* the two secrets, or by a VirtualDatabase of the same name: no run may leave
\* its password in one of them only.
PasswordsAgree ==
    \A v \in VDBs :
        LET i == objs[v]["identity"]
            c == objs[v]["credentials"]
        IN  /\ store[v] # NoVdb /\ i # NoObject /\ c # NoObject
            /\ i.owner = store[v].uid /\ c.owner = store[v].uid
            => i.value = c.value

\* A cache store named in the status is there and belongs to this very
\* VirtualDatabase, not to a deleted one of the same name whose cache store
\* the garbage collector is about to take away.
RecordedStoreExists ==
    \A v \in VDBs :
        store[v] # NoVdb /\ store[v].obj.status.cacheStore =>
            \A k \in {"identity", "infinispan"} :
                /\ objs[v][k] # NoObject
                /\ objs[v][k].owner = store[v].uid
=============================================================================
