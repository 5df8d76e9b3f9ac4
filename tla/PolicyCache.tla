------------------------------ MODULE PolicyCache ------------------------------
(***************************************************************************)
(* The GetPolicies endpoint (src/api/xcep.py) in the threads of several    *)
(* gunicorn workers that share one Redis (src/cache/redis_cache.py):       *)
(* authenticate and look the client's groups up (src/app.py), look the     *)
(* response up under client and groups hash, build it if it is not there   *)
(* (src/soap/xcep_service.py, src/ad/templates.py), cache it, answer.      *)
(*                                                                         *)
(* Around them the directory changes, LDAP and Redis go down and come      *)
(* back, entries expire, the mapping file is replaced and workers restart. *)
(***************************************************************************)
EXTENDS FiniteSets

CONSTANTS
    Threads,        \* request threads
    Workers,        \* gunicorn worker processes
    WorkerOf,       \* the worker each thread belongs to
    Clients,        \* Kerberos principals
    Groups,         \* AD groups
    Templates,      \* template names with an OID
    Rules,          \* the contents the mapping file may have
    AllowedGroups,  \* for each content and template the groups it names
    LdapConfigured, \* config.ldap_url is set
    Connected,      \* connect() was called on the LDAP client (not by src/app.py)
    CacheEnabled    \* config.cache_enabled

ASSUME WorkersAssumption == WorkerOf \in [Threads -> Workers]
ASSUME RulesAssumption == AllowedGroups \in [Rules -> [Templates -> SUBSET Groups]]
ASSUME ConfigAssumption ==
    LdapConfigured \in BOOLEAN /\ Connected \in BOOLEAN /\ CacheEnabled \in BOOLEAN

\* A response lists the templates the groups give under a mapping file.
Visible(rules, groups) ==
    {t \in Templates : \/ AllowedGroups[rules][t] = {}
                       \/ AllowedGroups[rules][t] \cap groups # {}}

Policies == [kind : {"policies"}, rules : Rules, templates : SUBSET Templates]
Fault    == [kind |-> "fault"]
Response == Policies \cup {Fault}
Error500 == [kind |-> "error500"]

\* g.groups_hash and the hash PolicyProvider computes.  A hash of groups
\* stands for the groups; the three words are used instead of one.
Hash(groups) == <<"hash", groups>>
NoLdap       == <<"no_ldap", {}>>
LdapError    == <<"ldap_error", {}>>
NoGroups     == <<"no_groups", {}>>
Hashes == {Hash(G) : G \in SUBSET Groups} \cup {NoLdap, LdapError, NoGroups}
Keys == Clients \X Hashes

VARIABLES
    directory,  \* the groups of each client
    ldapUp,     \* the directory answers
    redis,      \* cached responses: {} or {the response} for each key
    redisUp,    \* Redis answers
    file,       \* the mapping file
    worker,     \* per worker: the rules it loaded and the cache it got
    pc,         \* per thread: "idle", "authenticated", "missed", "built", "answered"
    request,    \* per thread: client, whether the body is a GetPolicies
    groups,     \* per thread: g.user_groups, {} for None
    hash,       \* per thread: the groups hash, of before_request and then of the response
    response,   \* per thread: the response built or found
    seen        \* history, per thread: the groups the directory gave its client

envVars    == <<directory, ldapUp, file>>
threadVars == <<pc, request, groups, hash, response, seen>>
vars == <<directory, ldapUp, redis, redisUp, file, worker, threadVars>>

Request == [client : Clients, wellFormed : BOOLEAN]
NoRequest == [client |-> {}, wellFormed |-> FALSE]

\* create_cache: Redis if it answers when the worker starts, otherwise the
\* memory cache; available is False for a cache that is not enabled.
CacheAtStart == IF ~CacheEnabled THEN "off" ELSE IF redisUp THEN "redis" ELSE "memory"

Init ==
    /\ directory \in [Clients -> SUBSET Groups]
    /\ ldapUp \in BOOLEAN
    /\ redis = [k \in Keys |-> {}]
    /\ redisUp \in BOOLEAN
    /\ file \in Rules
    /\ worker = [w \in Workers |-> [rules |-> file, cache |-> CacheAtStart]]
    /\ pc = [t \in Threads |-> "idle"]
    /\ request = [t \in Threads |-> NoRequest]
    /\ groups = [t \in Threads |-> {}]
    /\ hash = [t \in Threads |-> NoGroups]
    /\ response = [t \in Threads |-> {}]
    /\ seen = [t \in Threads |-> {}]

-----------------------------------------------------------------------------
\* ADLDAPClient.connection: without connect() every search raises.
Bound == LdapConfigured /\ Connected

\* What the two lookups of _fetch_user_groups may find: {} is an exception (or
\* no client to ask).  When the directory fails the connection may be found
\* closed, which raises, or the searches fail, which the LDAP client logs: the
\* principal then counts as not in the directory, a member of no group.
Found(client) ==
    IF ~Bound THEN {{}}
    ELSE IF ldapUp THEN {{directory[client]}}
    ELSE {{}, {{}}}

\* g.groups_hash for the g.user_groups found.
HashOf(found) ==
    IF ~LdapConfigured THEN NoLdap
    ELSE IF found = {} THEN LdapError
    ELSE Hash(UNION found)

\* Mutant: a failed lookup gets the hash of a fault.
AuthenticateDefault(t, r) ==
    /\ pc[t] = "idle"
    /\ pc' = [pc EXCEPT ![t] = "authenticated"]
    /\ request' = [request EXCEPT ![t] = r]
    /\ \E found \in Found(r.client) :
        /\ groups' = [groups EXCEPT ![t] = found]
        /\ seen' = [seen EXCEPT ![t] = found]
        /\ hash' = [hash EXCEPT ![t] =
                      IF found = {} THEN <<"default", {}>> ELSE HashOf(found)]
    /\ UNCHANGED <<envVars, redis, redisUp, worker, response>>

\* before_request: authenticate, then _fetch_user_groups.
Authenticate(t, r) ==
    /\ pc[t] = "idle"
    /\ pc' = [pc EXCEPT ![t] = "authenticated"]
    /\ request' = [request EXCEPT ![t] = r]
    /\ \E found \in Found(r.client) :
        /\ groups' = [groups EXCEPT ![t] = found]
        /\ seen' = [seen EXCEPT ![t] = found]
        /\ hash' = [hash EXCEPT ![t] = HashOf(found)]
    /\ UNCHANGED <<envVars, redis, redisUp, worker, response>>

Cache(t) == worker[WorkerOf[t]].cache

\* Mutant: entries are shared by the groups of a client.
KeyOfClient(t) == <<request[t].client, NoGroups>>

Key(t) == <<request[t].client, hash[t]>>
Available(t) == Cache(t) = "redis" /\ redisUp

\* The memory cache has no get_policy_response: the request ends in a 500.
LookupRaises(t) ==
    /\ pc[t] = "authenticated" /\ Cache(t) = "memory"
    /\ pc' = [pc EXCEPT ![t] = "answered"]
    /\ response' = [response EXCEPT ![t] = {Error500}]
    /\ UNCHANGED <<envVars, redis, redisUp, worker, request, groups, hash, seen>>

\* A response found in the cache is the answer, whatever the request is.
Hit(t) ==
    /\ pc[t] = "authenticated" /\ Available(t) /\ redis[Key(t)] # {}
    /\ pc' = [pc EXCEPT ![t] = "answered"]
    /\ response' = [response EXCEPT ![t] = redis[Key(t)]]
    /\ UNCHANGED <<envVars, redis, redisUp, worker, request, groups, hash, seen>>

Miss(t) ==
    /\ pc[t] = "authenticated" /\ Cache(t) # "memory"
    /\ Available(t) => redis[Key(t)] = {}
    /\ pc' = [pc EXCEPT ![t] = "missed"]
    /\ UNCHANGED <<envVars, redis, redisUp, worker, request, groups, hash, response, seen>>

\* PolicyProvider._get_user_groups: groups not known are looked up again, and
\* an error then counts as no groups.
ProviderGroups(t) ==
    IF groups[t] # {} THEN UNION groups[t]
    ELSE IF Bound /\ ldapUp THEN directory[request[t].client]
    ELSE {}

\* handle_request: a fault comes with the hash "default", which leaves the
\* hash of before_request in place.
Build(t) ==
    /\ pc[t] = "missed"
    /\ pc' = [pc EXCEPT ![t] = "built"]
    /\ IF request[t].wellFormed
       THEN LET G == ProviderGroups(t)
                rules == worker[WorkerOf[t]].rules
            IN /\ response' = [response EXCEPT ![t] =
                    {[kind |-> "policies", rules |-> rules, templates |-> Visible(rules, G)]}]
               /\ hash' = [hash EXCEPT ![t] = IF G = {} THEN NoGroups ELSE Hash(G)]
               /\ seen' = [seen EXCEPT ![t] = @ \cup
                    (IF groups[t] = {} /\ Bound /\ ldapUp
                     THEN {directory[request[t].client]} ELSE {})]
       ELSE /\ response' = [response EXCEPT ![t] = {Fault}]
            /\ UNCHANGED <<hash, seen>>
    /\ UNCHANGED <<envVars, redis, redisUp, worker, request, groups>>

\* Mutant: a response is cached under the hash it was looked up under.
StoreUnderLookup(t) ==
    /\ pc[t] = "built"
    /\ pc' = [pc EXCEPT ![t] = "answered"]
    /\ redis' = IF Available(t) THEN [redis EXCEPT ![<<request[t].client, HashOf(groups[t])>>] = response[t]] ELSE redis
    /\ UNCHANGED <<envVars, redisUp, worker, request, groups, hash, response, seen>>

Store(t) ==
    /\ pc[t] = "built"
    /\ pc' = [pc EXCEPT ![t] = "answered"]
    /\ redis' = IF Available(t) THEN [redis EXCEPT ![Key(t)] = response[t]] ELSE redis
    /\ UNCHANGED <<envVars, redisUp, worker, request, groups, hash, response, seen>>

\* The answer is sent and the thread takes another request.
Return(t) ==
    /\ pc[t] = "answered"
    /\ pc' = [pc EXCEPT ![t] = "idle"]
    /\ request' = [request EXCEPT ![t] = NoRequest]
    /\ groups' = [groups EXCEPT ![t] = {}]
    /\ hash' = [hash EXCEPT ![t] = NoGroups]
    /\ response' = [response EXCEPT ![t] = {}]
    /\ seen' = [seen EXCEPT ![t] = {}]
    /\ UNCHANGED <<envVars, redis, redisUp, worker>>

Handle(t) ==
    \/ LookupRaises(t) \/ Hit(t) \/ Miss(t) \/ Build(t) \/ Store(t) \/ Return(t)

-----------------------------------------------------------------------------
\* The surroundings.
ChangeGroups ==
    /\ \E c \in Clients, G \in SUBSET Groups : directory' = [directory EXCEPT ![c] = G]
    /\ UNCHANGED <<ldapUp, file, redis, redisUp, worker, threadVars>>

ToggleLdap ==
    /\ ldapUp' = ~ldapUp
    /\ UNCHANGED <<directory, file, redis, redisUp, worker, threadVars>>

ToggleRedis ==
    /\ redisUp' = ~redisUp
    /\ UNCHANGED <<envVars, redis, worker, threadVars>>

\* setex with policy_ttl; Redis keeps its clock while the workers do not.
Expire ==
    /\ \E k \in Keys : redis[k] # {} /\ redis' = [redis EXCEPT ![k] = {}]
    /\ UNCHANGED <<envVars, redisUp, worker, threadVars>>

ReplaceFile ==
    /\ \E r \in Rules : file' = r
    /\ UNCHANGED <<directory, ldapUp, redis, redisUp, worker, threadVars>>

\* A worker starts again; its requests are lost.
Restart(w) ==
    /\ worker' = [worker EXCEPT ![w] = [rules |-> file, cache |-> CacheAtStart]]
    /\ LET mine == {t \in Threads : WorkerOf[t] = w}
           Clear(f, v) == [t \in Threads |-> IF t \in mine THEN v ELSE f[t]]
       IN /\ pc' = Clear(pc, "idle")             /\ request' = Clear(request, NoRequest)
          /\ groups' = Clear(groups, {})         /\ hash' = Clear(hash, NoGroups)
          /\ response' = Clear(response, {})     /\ seen' = Clear(seen, {})
    /\ UNCHANGED <<envVars, redis, redisUp>>

Next ==
    \/ \E t \in Threads : Handle(t) \/ \E r \in Request : Authenticate(t, r)
    \/ ChangeGroups \/ ToggleLdap \/ ToggleRedis \/ Expire \/ ReplaceFile
    \/ \E w \in Workers : Restart(w)

Spec == Init /\ [][Next]_vars

-----------------------------------------------------------------------------
Pcs == {"idle", "authenticated", "missed", "built", "answered"}

TypeOK ==
    /\ directory \in [Clients -> SUBSET Groups]
    /\ ldapUp \in BOOLEAN /\ redisUp \in BOOLEAN /\ file \in Rules
    /\ redis \in [Keys -> SUBSET Response]
    /\ worker \in [Workers -> [rules : Rules, cache : {"redis", "memory", "off"}]]
    /\ pc \in [Threads -> Pcs]
    /\ request \in [Threads -> Request \cup {NoRequest}]
    /\ groups \in [Threads -> SUBSET (SUBSET Groups)]
    /\ hash \in [Threads -> Hashes]
    /\ response \in [Threads -> SUBSET (Response \cup {Error500})]
    /\ seen \in [Threads -> SUBSET (SUBSET Groups)]

\* The groups a hash stands for.
GroupsOf(h) == h[2]

\* Policies cached under a client and a groups hash are the ones those groups
\* give, although they may be built from groups looked up after the hash.
CachedMatchesKey ==
    \A k \in Keys : \A p \in redis[k] :
        p.kind = "policies" => p.templates = Visible(p.rules, GroupsOf(k[2]))

\* Whatever the cache holds and however memberships change, a client is
\* answered with the policies of groups the directory gave it during this very
\* request, or with the policies of no groups: the cache delays the effect of
\* no change of membership.
AnswerFromCurrentGroups ==
    \A t \in Threads : \A p \in response[t] :
        pc[t] = "answered" /\ p.kind = "policies" =>
            \E G \in seen[t] \cup {{}} : p.templates = Visible(p.rules, G)

\* Policies found in the cache are those of the very groups the client has now,
\* and it has some: what was built while the directory failed, or for a client
\* in no group, lies under a word no lookup uses, so an outage does not outlive
\* itself in the cache (nor does the cache help such a client).
CacheForgetsOutages ==
    [][\A t \in Threads : \A p \in response'[t] :
        pc[t] = "authenticated" /\ pc'[t] = "answered" /\ p.kind = "policies" =>
            /\ UNION groups[t] # {}
            /\ p.templates = Visible(p.rules, UNION groups[t])]_vars

\* The endpoint with its cache implements Listing, which has none: no order of
\* lookups, stores, expiries, outages, restarts and new mapping files lets a
\* client see what an earlier request learnt.
Promise == INSTANCE Listing WITH
    asking <- [t \in Threads |-> IF pc[t] = "idle" THEN {} ELSE {request[t].client}],
    learnt <- seen,
    answer <- [t \in Threads |-> IF pc[t] = "answered" THEN response[t] ELSE {}],
    Failures <- {Fault, Error500}

KeepsListing == Promise!Spec

\* "Fetch user groups from LDAP and store in request context": where LDAP is
\* configured and answers, a request is handled with the client's groups.
GroupsFetched ==
    [][\A t \in Threads :
        LdapConfigured /\ ldapUp /\ pc[t] = "idle" /\ pc'[t] = "authenticated"
            => groups'[t] = {directory[request'[t].client]}]_vars

\* A worker that fell back to the memory cache still answers.
FallbackAnswers == \A t \in Threads : Error500 \notin response[t]
=============================================================================
