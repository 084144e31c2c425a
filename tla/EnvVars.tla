------------------------------- MODULE EnvVars -------------------------------
(***************************************************************************)
(* The environment variables of a deployment, as lists: what the user      *)
(* gives, the proxy of the cluster, the operator's defaults, Jaeger, the   *)
(* cache store and the data sources, merged so that the first wins.        *)
(*                                                                         *)
(* A value is a sequence of words, <<>> being "".  A variable that refers  *)
(* to a Secret, a ConfigMap or a field of the pod has its reference in     *)
(* from, and api is the API version of a field reference.                  *)
(***************************************************************************)
EXTENDS Naturals, Sequences
Seqs == INSTANCE SequencesExt

CONSTANTS
    Words,          \* the words: names, values and references of variables
    ProxyUrls,      \* values that are the URL of a proxy, with a port
    ClusterProxy    \* the proxy variables in the operator's own environment

\* those the operator and the API server write themselves are among them
ASSUME WordsAssumption ==
    /\ {"", "v1", "proxyHost", "proxyPort", "nonProxyHosts"} \subseteq Words
    /\ {"JAVA_APP_DIR", "/deployments", "JAVA_OPTIONS", "-Djava.net.preferIPv4Stack=true",
        "JAVA_DEBUG", "false", "AB_JMX_EXPORTER_CONFIG", "prometheus-config.yml",
        "NAMESPACE", "metadata.namespace", "TEIID_NODENAME", "spec.nodeName",
        "TEIID_PODNAME", "metadata.name"} \subseteq Words
    /\ {"JAEGER_AGENT_HOST", "localhost", "JAEGER_AGENT_PORT", "6831",
        "JAEGER_SERVICE_NAME", "CACHESTORE_USERNAME", "cache-store secret",
        "CACHESTORE_TRANSACTIONMODE", "NON_XA", "CACHESTORE_CACHENAME", "name"}
       \subseteq Words

EnvVar == [name : Words, value : Seq(Words), from : Words, api : Words]

Val(n, words) == [name |-> n, value |-> words, from |-> "", api |-> ""]
From(n, ref)  == [name |-> n, value |-> <<>>, from |-> ref, api |-> ""]

Named(vars, n) == {i \in DOMAIN vars : vars[i].name = n}
Has(vars, n) == Named(vars, n) # {}
Get(vars, n) == vars[CHOOSE i \in Named(vars, n) : \A j \in Named(vars, n) : i <= j]

\* SetVar, SetVal and SetValueFrom: the first variable of that name, or a new one
SetVar(vars, x) ==
    IF Has(vars, x.name)
    THEN [vars EXCEPT ![CHOOSE i \in Named(vars, x.name) :
                           \A j \in Named(vars, x.name) : i <= j] = x]
    ELSE Append(vars, x)

\* the list after each of the variables of more, from the first to the last:
\* each is set, or, if over is FALSE, set unless it is there
Stages(vars, more, over) ==
    LET stage[i \in 0..Len(more)] ==
            IF i = 0 THEN vars
            ELSE LET acc == stage[i - 1]
                 IN  IF Has(acc, more[i].name) /\ ~over THEN acc
                     ELSE SetVar(acc, more[i])
    IN  stage

SetAll(vars, more) == Stages(vars, more, TRUE)[Len(more)]

\* (mutant) a later variable replaces an earlier one of the same name
AddMissingOverwrites(vars, more) == SetAll(vars, more)

AddMissing(vars, more) == Stages(vars, more, FALSE)[Len(more)]

Clone(vars) == AddMissing(<<>>, vars)
Combine(a, b) == AddMissing(Clone(a), b)

-----------------------------------------------------------------------------
(* The proxy, which a user overrides as a whole.                            *)

ProxyNames == {"HTTPS_PROXY", "HTTP_PROXY", "NO_PROXY"}

\* the operator's environment has each of these variables at most once
ASSUME ProxyAssumption ==
    /\ ClusterProxy \in Seq(EnvVar)
    /\ \A i, j \in DOMAIN ClusterProxy :
          /\ ClusterProxy[i].name \in ProxyNames
          /\ ClusterProxy[i].name = ClusterProxy[j].name => i = j

UserDefinedProxy(vars) == \E n \in ProxyNames : Has(vars, n)
ClusterDefinedProxy == \E i \in DOMAIN ClusterProxy : ClusterProxy[i].value # <<>>

HTTPSettings(vars) ==
    IF ~UserDefinedProxy(vars) /\ ClusterDefinedProxy
    THEN SetAll(vars, ClusterProxy)
    ELSE vars

\* the Java properties that describe a proxy; HTTP_PROXY supersedes HTTPS_PROXY
ParseHTTPProxy(value) ==
    IF value \in ProxyUrls THEN {"proxyHost", "proxyPort"} ELSE {}

JavaProperties(vars) ==
    (IF Has(vars, "HTTP_PROXY") THEN ParseHTTPProxy(Get(vars, "HTTP_PROXY").value)
     ELSE IF Has(vars, "HTTPS_PROXY")
     THEN ParseHTTPProxy(Get(vars, "HTTPS_PROXY").value) ELSE {})
    \cup
    (IF Has(vars, "NO_PROXY") /\ Get(vars, "NO_PROXY").value # <<>>
     THEN {"nonProxyHosts"} ELSE {})

-----------------------------------------------------------------------------
(* The operator's own variables.                                            *)

PodFields == {"metadata.namespace", "spec.nodeName", "metadata.name"}

\* the defaults, with the Java properties in the given order
DefaultEnv(order) ==
    << Val("JAVA_APP_DIR", <<"/deployments">>),
       Val("JAVA_OPTIONS", order \o <<"-Djava.net.preferIPv4Stack=true">>),
       Val("JAVA_DEBUG", <<"false">>),
       Val("AB_JMX_EXPORTER_CONFIG", <<"prometheus-config.yml">>),
       From("NAMESPACE", "metadata.namespace"),
       From("TEIID_NODENAME", "spec.nodeName"),
       From("TEIID_PODNAME", "metadata.name") >>

\* (mutant) the defaults are kept in a map and come in any order
GetDefaultEnvsAnyOrder(userDefined) ==
    LET all == HTTPSettings(Clone(userDefined))
        env == DefaultEnv(Seqs!SetToSeq(JavaProperties(all)))
    IN  {AddMissing(all, env), AddMissing(all, Seqs!Reverse(env))}

\* Go ranges over the map of properties in any order, each time anew
DefaultEnvs(vars) == {DefaultEnv(o) : o \in Seqs!SetToSeqs(JavaProperties(vars))}

GetDefaultEnvs(userDefined) ==
    LET all == HTTPSettings(Clone(userDefined))
    IN  {AddMissing(all, d) : d \in DefaultEnvs(all)}

JaegerEnvs == << Val("JAEGER_AGENT_HOST", <<"localhost">>),
                 Val("JAEGER_AGENT_PORT", <<"6831">>),
                 Val("JAEGER_SERVICE_NAME", <<"name">>) >>

\* the cache store's credentials; user, password and URL are alike
CredentialsAsEnv ==
    << From("CACHESTORE_USERNAME", "cache-store secret"),
       Val("CACHESTORE_TRANSACTIONMODE", <<"NON_XA">>),
       Val("CACHESTORE_CACHENAME", <<"name">>) >>

-----------------------------------------------------------------------------
(* The data sources that the DDL names and the spec configures.  A property *)
(* carries the name of its variable; spaces marks a name with spaces.       *)

DataSource ==
    [name : Words, spaces : BOOLEAN,
     properties : Seq([var : Words, spaces : BOOLEAN, value : Seq(Words), from : Words])]

\* the first that is configured under that name
FindConfigured(s, configured) == Get(configured, s)

BadDataSources(sources, configured) ==
    \E i \in DOMAIN sources :
        /\ Has(configured, sources[i])
        /\ LET found == FindConfigured(sources[i], configured)
           IN  found.spaces \/ \E j \in DOMAIN found.properties : found.properties[j].spaces

\* what a property sets: one with a value and a reference ends up with the latter
Settings(p) ==
    (IF p.value # <<>> THEN <<Val(p.var, p.value)>> ELSE <<>>)
    \o (IF p.from # "" THEN <<From(p.var, p.from)>> ELSE <<>>)

\* what the properties of a data source set, one after the other
SourceSettings(s, configured) ==
    IF ~Has(configured, s) THEN <<>>
    ELSE LET properties == FindConfigured(s, configured).properties
         IN  Seqs!FlattenSeq([j \in DOMAIN properties |-> Settings(properties[j])])

AllSettings(sources, configured) ==
    Seqs!FlattenSeq([i \in DOMAIN sources |-> SourceSettings(sources[i], configured)])

SpringProperties(sources, configured) == SetAll(<<>>, AllSettings(sources, configured))

-----------------------------------------------------------------------------
\* the API server fills in the version of a field reference that has none
Defaulted(vars) ==
    [i \in DOMAIN vars |->
        IF vars[i].from \in PodFields /\ vars[i].api = ""
        THEN [vars[i] EXCEPT !.api = "v1"] ELSE vars[i]]
=============================================================================
