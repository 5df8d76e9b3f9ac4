--------------------------- MODULE PolicyCacheProofs ---------------------------
(***************************************************************************)
(* CachedMatchesKey and AnswerFromCurrentGroups hold for every number of   *)
(* workers and threads, all groups, mapping files and configurations.      *)
(*                                                                         *)
(* The hash of a thread is what ties the two together: it always stands    *)
(* for groups the directory gave during the request, or for none (Honest), *)
(* and a response is made for the groups of the hash it will be stored     *)
(* under (Made), although both are computed after the lookup.              *)
(***************************************************************************)
EXTENDS PolicyCache, TLAPS

\* Groups and hash of a request are what the directory said during it.
Honest(t) ==
    /\ pc[t] # "idle" => request[t] \in Request
    /\ groups[t] # {} => UNION groups[t] \in seen[t]
    /\ pc[t] # "idle" => GroupsOf(hash[t]) \in seen[t] \cup {{}}

FromGroups(p, G) == p.kind = "policies" => p.templates = Visible(p.rules, G)

\* What a thread has built fits its hash; what it answers fits groups seen.
Made(t) ==
    /\ pc[t] = "built" => \A p \in response[t] :
          p \in Response /\ FromGroups(p, GroupsOf(hash[t]))
    /\ pc[t] = "answered" => \A p \in response[t] :
          \E G \in seen[t] \cup {{}} : FromGroups(p, G)

Entries == \A k \in Keys : \A p \in redis[k] : FromGroups(p, GroupsOf(k[2]))

IInv == TypeOK /\ Entries /\ \A t \in Threads : Honest(t) /\ Made(t)

\* The types of what is looked up and hashed.
LEMMA FoundTyped ==
  ASSUME TypeOK, NEW c \in Clients, NEW found \in Found(c)
  PROVE  /\ found \in SUBSET (SUBSET Groups)
         /\ HashOf(found) \in Hashes
         /\ found # {} => UNION found \in found
         /\ GroupsOf(HashOf(found)) \in found \cup {{}}
<1>1. /\ directory[c] \in SUBSET Groups
      /\ \A G : UNION {G} = G
  BY DEF TypeOK
<1>2. found \in {{}, {directory[c]}, {{}}}
  BY DEF Found
<1>3. found \in SUBSET (SUBSET Groups) /\ (found # {} => UNION found \in found)
  BY <1>1, <1>2
<1>4. HashOf(found) \in {NoLdap, LdapError} \/ (found # {} /\ HashOf(found) = Hash(UNION found))
  BY DEF HashOf
<1>5. GroupsOf(NoLdap) = {} /\ GroupsOf(LdapError) = {} /\ \A G : GroupsOf(Hash(G)) = G
  BY DEF GroupsOf, NoLdap, LdapError, Hash
<1>6. HashOf(found) \in Hashes
  BY <1>3, <1>4 DEF Hashes
<1>7. QED  BY <1>3, <1>4, <1>5, <1>6

\* Whichever groups the provider falls back to are groups.
LEMMA ProviderTyped ==
  ASSUME TypeOK, NEW t \in Threads, request[t] \in Request
  PROVE  ProviderGroups(t) \in SUBSET Groups
<1>1. UNION groups[t] \in SUBSET Groups
  BY DEF TypeOK
<1>2. directory[request[t].client] \in SUBSET Groups
  BY DEF TypeOK, Request
<1>3. QED  BY <1>1, <1>2 DEF ProviderGroups

\* A key is made of the client and the hash of the moment.
LEMMA KeyTyped ==
  ASSUME TypeOK, NEW t \in Threads, request[t] \in Request
  PROVE  Key(t) \in Keys /\ Key(t)[2] = hash[t]
  BY DEF Key, Keys, TypeOK, Request

\* At the start every cache is empty.
LEMMA InitIInv == Init => IInv
<1> SUFFICES ASSUME Init PROVE IInv
  OBVIOUS
<1>1. CacheAtStart \in {"redis", "memory", "off"}
  BY DEF CacheAtStart
<1>2. TypeOK
  BY <1>1 DEF Init, TypeOK, Pcs, Hashes
<1>3. QED
  BY <1>2 DEF Init, IInv, Entries, Honest, Made

\* What a thread does to the types.
LEMMA ThreadTypes ==
  ASSUME IInv, NEW t \in Threads, Handle(t) \/ \E r \in Request : Authenticate(t, r)
  PROVE  TypeOK'
<1>0. TypeOK /\ Honest(t) /\ Made(t)
  BY DEF IInv
<1>1. ASSUME NEW r \in Request, Authenticate(t, r)  PROVE TypeOK'
  <2>1. r.client \in Clients
    BY DEF Request
  <2>2. PICK found \in Found(r.client) :
            /\ groups' = [groups EXCEPT ![t] = found]
            /\ seen' = [seen EXCEPT ![t] = found]
            /\ hash' = [hash EXCEPT ![t] = HashOf(found)]
    BY <1>1 DEF Authenticate
  <2>3. found \in SUBSET (SUBSET Groups) /\ HashOf(found) \in Hashes
    BY <1>0, <2>1, FoundTyped
  <2>4. QED
    BY <1>0, <1>1, <2>2, <2>3 DEF Authenticate, TypeOK, Pcs, envVars
<1>2. CASE LookupRaises(t)
  BY <1>0, <1>2 DEF LookupRaises, TypeOK, Pcs, envVars
<1>3. CASE Hit(t)
  <2>1. redis[Key(t)] \in SUBSET Response
    BY <1>0, <1>3, KeyTyped DEF Hit, Honest, TypeOK
  <2>2. QED  BY <1>0, <1>3, <2>1 DEF Hit, TypeOK, Pcs, envVars
<1>4. CASE Miss(t)
  BY <1>0, <1>4 DEF Miss, TypeOK, Pcs, envVars
<1>5. CASE Build(t)
  <2>1. request[t] \in Request /\ ProviderGroups(t) \in SUBSET Groups
    BY <1>0, <1>5, ProviderTyped DEF Build, Honest
  <2>2. directory[request[t].client] \in SUBSET Groups
    BY <1>0, <2>1 DEF TypeOK, Request
  <2>3. worker[WorkerOf[t]].rules \in Rules
    BY <1>0, WorkersAssumption DEF TypeOK
  <2>4. Visible(worker[WorkerOf[t]].rules, ProviderGroups(t)) \in SUBSET Templates
    BY DEF Visible
  <2>5. NoGroups \in Hashes /\ Hash(ProviderGroups(t)) \in Hashes
    BY <2>1 DEF Hashes
  <2>6. [kind |-> "policies", rules |-> worker[WorkerOf[t]].rules,
         templates |-> Visible(worker[WorkerOf[t]].rules, ProviderGroups(t))] \in Response
    BY <2>3, <2>4 DEF Response, Policies
  <2>7. Fault \in Response
    BY DEF Response
  <2>8. response' \in [Threads -> SUBSET (Response \cup {Error500})]
    BY <1>0, <1>5, <2>6, <2>7 DEF Build, TypeOK
  <2>9. hash' \in [Threads -> Hashes] /\ seen' \in [Threads -> SUBSET (SUBSET Groups)]
    BY <1>0, <1>5, <2>2, <2>5 DEF Build, TypeOK
  <2>10. QED
    BY <1>0, <1>5, <2>8, <2>9 DEF Build, TypeOK, Pcs, envVars
<1>6. CASE Store(t)
  <2>1. response[t] \in SUBSET Response
    BY <1>0, <1>6 DEF Store, Made
  <2>2. QED  BY <1>0, <1>6, <2>1 DEF Store, TypeOK, Pcs, envVars
<1>7. CASE Return(t)
  BY <1>0, <1>7 DEF Return, TypeOK, Pcs, Hashes, envVars
<1>8. QED  BY <1>1, <1>2, <1>3, <1>4, <1>5, <1>6, <1>7 DEF Handle
\* What a thread does to its own part of the invariant and to the entries.
LEMMA ThreadParts ==
  ASSUME IInv, NEW t \in Threads, Handle(t) \/ \E r \in Request : Authenticate(t, r)
  PROVE  Entries' /\ Honest(t)' /\ Made(t)'
<1>0. TypeOK /\ Entries /\ Honest(t) /\ Made(t)
  BY DEF IInv
<1> USE DEF TypeOK
<1>1. ASSUME NEW r \in Request, Authenticate(t, r)
      PROVE  Entries' /\ Honest(t)' /\ Made(t)'
  <2>1. PICK found \in Found(r.client) :
            groups'[t] = found /\ seen'[t] = found /\ hash'[t] = HashOf(found)
    BY <1>0, <1>1 DEF Authenticate
  <2>2. /\ found # {} => UNION found \in found
        /\ GroupsOf(HashOf(found)) \in found \cup {{}}
    BY <1>0, FoundTyped DEF Request
  <2>3. redis' = redis /\ request'[t] = r /\ pc'[t] = "authenticated"
    BY <1>0, <1>1 DEF Authenticate
  <2>4. QED  BY <1>0, <2>1, <2>2, <2>3 DEF Entries, Honest, Made
<1>2. CASE LookupRaises(t)
  BY <1>0, <1>2 DEF LookupRaises, Entries, Honest, Made, FromGroups, Error500
<1>3. CASE Hit(t)
  <2>1. Key(t) \in Keys /\ Key(t)[2] = hash[t]
    BY <1>0, <1>3, KeyTyped DEF Hit, Honest
  <2>2. /\ UNCHANGED <<redis, request, groups, hash, seen>>
        /\ pc[t] = "authenticated" /\ pc'[t] = "answered" /\ response'[t] = redis[Key(t)]
    BY <1>0, <1>3 DEF Hit
  <2>3. \A p \in response'[t] : FromGroups(p, GroupsOf(hash[t]))
    BY <1>0, <2>1, <2>2 DEF Entries
  <2>4. QED  BY <1>0, <2>2, <2>3 DEF Entries, Honest, Made
<1>4. CASE Miss(t)
  BY <1>0, <1>4 DEF Miss, Entries, Honest, Made
<1>5. CASE Build(t) /\ ~request[t].wellFormed
  <2>1. /\ UNCHANGED <<redis, request, groups, hash, seen>>
        /\ pc[t] = "missed" /\ pc'[t] = "built" /\ response'[t] = {Fault}
    BY <1>0, <1>5 DEF Build
  <2>2. Fault \in Response /\ \A G : FromGroups(Fault, G)
    BY DEF Response, FromGroups, Fault
  <2>3. QED  BY <1>0, <2>1, <2>2 DEF Entries, Honest, Made
<1>6. CASE Build(t) /\ request[t].wellFormed
  <2> DEFINE G == ProviderGroups(t)
             rules == worker[WorkerOf[t]].rules
             p == [kind |-> "policies", rules |-> rules, templates |-> Visible(rules, G)]
             now == IF groups[t] = {} /\ Bound /\ ldapUp
                    THEN {directory[request[t].client]} ELSE {}
  <2>1. /\ UNCHANGED <<redis, request, groups>>
        /\ pc[t] = "missed" /\ pc'[t] = "built" /\ response'[t] = {p}
        /\ hash'[t] = (IF G = {} THEN NoGroups ELSE Hash(G))
        /\ seen'[t] = seen[t] \cup now
    BY <1>0, <1>6 DEF Build
  <2>2. GroupsOf(hash'[t]) = G
    BY <2>1 DEF GroupsOf, NoGroups, Hash
  <2>3. G \in seen[t] \cup now \cup {{}}
    BY <1>0, <2>1 DEF ProviderGroups, Honest
  <2>4. rules \in Rules
    BY <1>0, WorkersAssumption
  <2>5. p \in Response /\ FromGroups(p, G)
    BY <2>4 DEF Response, Policies, Visible, FromGroups
  <2>6. Honest(t)'
    BY <1>0, <2>1, <2>2, <2>3 DEF Honest
  <2>7. Made(t)'
    BY <2>1, <2>2, <2>5 DEF Made
  <2>8. QED  BY <1>0, <2>1, <2>6, <2>7 DEF Entries
<1>7. CASE Store(t)
  <2>1. Key(t) \in Keys /\ Key(t)[2] = hash[t]
    BY <1>0, <1>7, KeyTyped DEF Store, Honest
  <2>2. /\ UNCHANGED <<request, groups, hash, seen, response>>
        /\ pc[t] = "built" /\ pc'[t] = "answered"
        /\ redis' = redis \/ redis' = [redis EXCEPT ![Key(t)] = response[t]]
    BY <1>0, <1>7 DEF Store
  <2>3. \A p \in response[t] : FromGroups(p, GroupsOf(hash[t]))
    BY <1>0, <2>2 DEF Made
  <2>4. Entries'
    BY <1>0, <2>1, <2>2, <2>3 DEF Entries
  <2>5. QED  BY <1>0, <2>2, <2>3, <2>4 DEF Honest, Made
<1>8. CASE Return(t)
  BY <1>0, <1>8 DEF Return, Entries, Honest, Made
<1>9. QED  BY <1>1, <1>2, <1>3, <1>4, <1>5, <1>6, <1>7, <1>8 DEF Handle

\* Other threads notice a thread in Redis only.
LEMMA OthersKeep ==
  ASSUME IInv, NEW t \in Threads, NEW u \in Threads, u # t,
         Handle(t) \/ \E r \in Request : Authenticate(t, r)
  PROVE  Honest(u)' /\ Made(u)'
<1>1. TypeOK /\ Honest(u) /\ Made(u)
  BY DEF IInv
<1>2. /\ pc'[u] = pc[u] /\ request'[u] = request[u] /\ groups'[u] = groups[u]
      /\ hash'[u] = hash[u] /\ response'[u] = response[u] /\ seen'[u] = seen[u]
  BY <1>1 DEF TypeOK, Handle, Authenticate, LookupRaises, Hit, Miss, Build, Store, Return
<1>3. QED  BY <1>1, <1>2 DEF Honest, Made

\* Directory, Redis, files and restarts.
LEMMA SurroundingsStep ==
  ASSUME IInv,
         \/ ChangeGroups \/ ToggleLdap \/ ToggleRedis \/ Expire \/ ReplaceFile
         \/ \E w \in Workers : Restart(w)
  PROVE  IInv'
<1>0. TypeOK /\ Entries /\ \A t \in Threads : Honest(t) /\ Made(t)
  BY DEF IInv
<1>1. CASE ChangeGroups
  <2>1. TypeOK'
    BY <1>0, <1>1 DEF ChangeGroups, TypeOK, threadVars
  <2>2. QED
    BY <1>0, <1>1, <2>1 DEF ChangeGroups, threadVars, IInv, Entries, Honest, Made
<1>2. CASE ToggleLdap \/ ToggleRedis \/ ReplaceFile
  <2>1. TypeOK'
    BY <1>0, <1>2 DEF ToggleLdap, ToggleRedis, ReplaceFile, TypeOK, envVars, threadVars
  <2>2. QED
    BY <1>0, <1>2, <2>1 DEF ToggleLdap, ToggleRedis, ReplaceFile, envVars, threadVars,
         IInv, Entries, Honest, Made
<1>3. CASE Expire
  <2>1. PICK k \in Keys : redis' = [redis EXCEPT ![k] = {}]
    BY <1>3 DEF Expire
  <2>2. TypeOK'
    BY <1>0, <1>3, <2>1 DEF Expire, TypeOK, envVars, threadVars
  <2>3. Entries'
    BY <1>0, <2>1 DEF TypeOK, Entries
  <2>4. QED
    BY <1>0, <1>3, <2>2, <2>3 DEF Expire, threadVars, IInv, Honest, Made
<1>4. ASSUME NEW w \in Workers, Restart(w)  PROVE IInv'
  <2>1. CacheAtStart \in {"redis", "memory", "off"}
    BY DEF CacheAtStart
  <2>2. TypeOK'
    BY <1>0, <1>4, <2>1 DEF Restart, TypeOK, envVars, Pcs, Hashes
  <2>3. ASSUME NEW t \in Threads  PROVE Honest(t)' /\ Made(t)'
    BY <1>0, <1>4, <2>3 DEF Restart, Honest, Made
  <2>4. QED  BY <1>0, <1>4, <2>2, <2>3 DEF Restart, IInv, Entries
<1>5. QED  BY <1>1, <1>2, <1>3, <1>4

\* Every step of a thread, and each of the surroundings, keeps the invariant.
LEMMA NextIInv == IInv /\ [Next]_vars => IInv'
<1> SUFFICES ASSUME IInv, [Next]_vars PROVE IInv'
  OBVIOUS
<1>1. ASSUME NEW t \in Threads, Handle(t) \/ \E r \in Request : Authenticate(t, r)
      PROVE  IInv'
  BY <1>1, ThreadTypes, ThreadParts, OthersKeep DEF IInv
<1>2. CASE UNCHANGED vars
  BY <1>2 DEF vars, threadVars, IInv, TypeOK, Entries, Honest, Made
<1>3. QED  BY <1>1, <1>2, SurroundingsStep DEF Next

\* The invariant holds always.
LEMMA SpecIInv == Spec => []IInv
  BY InitIInv, NextIInv, PTL DEF Spec

\* Types, for any workers, threads and configuration.
THEOREM Typing == Spec => []TypeOK
<1>1. IInv => TypeOK
  BY DEF IInv
<1>2. QED  BY <1>1, SpecIInv, PTL

\* What the workers put into Redis under a hash of groups is what those groups
\* give, whatever happens between lookup and store.
THEOREM Matching == Spec => []CachedMatchesKey
<1>1. IInv => CachedMatchesKey
  BY DEF IInv, Entries, FromGroups, CachedMatchesKey
<1>2. QED  BY <1>1, SpecIInv, PTL

\* No answer is made from groups that the directory did not give during the
\* request, be it built or found in the cache.
THEOREM Current == Spec => []AnswerFromCurrentGroups
<1>1. IInv => AnswerFromCurrentGroups
  BY DEF IInv, Made, FromGroups, AnswerFromCurrentGroups
<1>2. QED  BY <1>1, SpecIInv, PTL

-----------------------------------------------------------------------------
(***************************************************************************)
(* What was built without groups is stored where nobody looks.             *)
(***************************************************************************)
\* The hashes a client without groups, or without known ones, looks up.
Groupless == {NoLdap, LdapError, Hash({})}

\* A thread that is to look up has the hash of the groups it found; policies
\* are built for a hash of groups or under the word no lookup uses.
Keyed(t) ==
    /\ pc[t] = "authenticated" => hash[t] = HashOf(groups[t])
    /\ pc[t] = "built" =>
          \A p \in response[t] : p.kind = "policies" => hash[t] \notin Groupless

Placed == \A k \in Keys : \A p \in redis[k] : p.kind = "policies" => k[2] \notin Groupless

\* What Build computes is never the hash of a lookup without groups.
LEMMA BuiltHash ==
  ASSUME NEW G
  PROVE  (IF G = {} THEN NoGroups ELSE Hash(G)) \notin Groupless
  BY DEF Groupless, NoGroups, NoLdap, LdapError, Hash

\* A lookup with any other hash is one with groups.
LEMMA LookedUpWithGroups ==
  ASSUME NEW found, HashOf(found) \notin Groupless
  PROVE  UNION found # {} /\ GroupsOf(HashOf(found)) = UNION found
  BY DEF HashOf, Groupless, GroupsOf, Hash

\* A thread keeps its own part, and puts policies in their place.
LEMMA ThreadKeyed ==
  ASSUME IInv, Placed, NEW t \in Threads, Keyed(t),
         Handle(t) \/ \E r \in Request : Authenticate(t, r)
  PROVE  Placed' /\ Keyed(t)'
<1>0. TypeOK /\ Honest(t)
  BY DEF IInv
<1>1. ASSUME NEW r \in Request, Authenticate(t, r)  PROVE Placed' /\ Keyed(t)'
  <2>1. /\ hash'[t] = HashOf(groups'[t]) /\ pc'[t] = "authenticated"
        /\ redis' = redis
    BY <1>0, <1>1 DEF Authenticate, TypeOK
  <2>2. Keyed(t)'
    BY <2>1 DEF Keyed, HashOf
  <2>3. QED  BY <2>1, <2>2 DEF Placed
<1>2. CASE LookupRaises(t) \/ Hit(t) \/ Miss(t) \/ Return(t)
  <2>1. pc'[t] \notin {"authenticated", "built"} /\ redis' = redis
    BY <1>0, <1>2 DEF LookupRaises, Hit, Miss, Return, TypeOK
  <2>2. QED  BY <2>1 DEF Keyed, Placed
<1>3. CASE Build(t)
  <2>1. pc'[t] = "built" /\ redis' = redis
    BY <1>0, <1>3 DEF Build, TypeOK
  <2>2. CASE request[t].wellFormed
    <3>1. hash'[t] = (IF ProviderGroups(t) = {} THEN NoGroups ELSE Hash(ProviderGroups(t)))
      BY <1>0, <1>3, <2>2 DEF Build, TypeOK
    <3>2. QED  BY <2>1, <3>1, BuiltHash DEF Keyed, Placed
  <2>3. CASE ~request[t].wellFormed
    <3>1. response'[t] = {Fault} /\ Fault.kind # "policies"
      BY <1>0, <1>3, <2>3 DEF Build, TypeOK, Fault
    <3>2. QED  BY <2>1, <3>1 DEF Keyed, Placed
  <2>4. QED  BY <2>2, <2>3
<1>4. CASE Store(t)
  <2>1. Key(t) \in Keys /\ Key(t)[2] = hash[t]
    BY <1>0, <1>4, KeyTyped DEF Store, Honest
  <2>2. /\ pc[t] = "built" /\ pc'[t] = "answered"
        /\ redis' = redis \/ redis' = [redis EXCEPT ![Key(t)] = response[t]]
    BY <1>0, <1>4 DEF Store, TypeOK
  <2>3. Placed'
    BY <1>0, <2>1, <2>2 DEF Keyed, Placed, TypeOK
  <2>4. QED  BY <2>2, <2>3 DEF Keyed
<1>5. QED  BY <1>1, <1>2, <1>3, <1>4 DEF Handle

\* Nothing else puts anything into Redis or into a thread.
LEMMA KeyedStep ==
  ASSUME IInv, Placed, \A t \in Threads : Keyed(t), [Next]_vars
  PROVE  Placed' /\ \A t \in Threads : Keyed(t)'
<1>0. TypeOK
  BY DEF IInv
<1>1. ASSUME NEW t \in Threads, Handle(t) \/ \E r \in Request : Authenticate(t, r)
      PROVE  Placed' /\ \A u \in Threads : Keyed(u)'
  <2>1. ASSUME NEW u \in Threads, u # t  PROVE Keyed(u)'
    <3>1. /\ pc'[u] = pc[u] /\ groups'[u] = groups[u] /\ hash'[u] = hash[u]
          /\ response'[u] = response[u]
      BY <1>0, <1>1, <2>1 DEF TypeOK, Handle, Authenticate, LookupRaises, Hit, Miss,
           Build, Store, Return
    <3>2. QED  BY <3>1 DEF Keyed, HashOf
  <2>2. QED  BY <1>1, <2>1, ThreadKeyed
<1>2. CASE ChangeGroups \/ ToggleLdap \/ ToggleRedis \/ ReplaceFile \/ UNCHANGED vars
  <2>1. UNCHANGED <<redis, pc, groups, hash, response>>
    BY <1>2 DEF ChangeGroups, ToggleLdap, ToggleRedis, ReplaceFile, vars, envVars,
         threadVars
  <2>2. QED  BY <2>1 DEF Placed, Keyed, HashOf
<1>3. CASE Expire
  <2>1. UNCHANGED <<pc, groups, hash, response>>
        /\ \E k \in Keys : redis' = [redis EXCEPT ![k] = {}]
    BY <1>3 DEF Expire, threadVars
  <2>2. Placed'
    BY <1>0, <2>1 DEF Placed, TypeOK
  <2>3. QED  BY <2>1, <2>2 DEF Keyed, HashOf
<1>4. ASSUME NEW w \in Workers, Restart(w)  PROVE Placed' /\ \A t \in Threads : Keyed(t)'
  <2>1. Placed'
    BY <1>4 DEF Restart, Placed
  <2>2. ASSUME NEW t \in Threads  PROVE Keyed(t)'
    BY <1>4, <2>2 DEF Restart, Keyed, HashOf
  <2>3. QED  BY <2>1, <2>2
<1>5. QED  BY <1>1, <1>2, <1>3, <1>4 DEF Next

\* Both hold always.
AllKeyed == Placed /\ \A t \in Threads : Keyed(t)

LEMMA SpecKeyed == Spec => [](IInv /\ AllKeyed)
<1>1. Init => AllKeyed
  BY DEF Init, AllKeyed, Placed, Keyed
<1>2. IInv /\ AllKeyed /\ [Next]_vars => AllKeyed'
  BY KeyedStep DEF AllKeyed
<1>3. QED  BY <1>1, <1>2, SpecIInv, PTL DEF Spec

\* What is found in the cache is for the groups the client has now, and it has
\* some, for every number of workers, threads, groups and mapping files.
THEOREM Outages == Spec => CacheForgetsOutages
<1>1. ASSUME IInv, AllKeyed, [Next]_vars
      PROVE  [\A t \in Threads : \A p \in response'[t] :
                 pc[t] = "authenticated" /\ pc'[t] = "answered" /\ p.kind = "policies" =>
                     /\ UNION groups[t] # {}
                     /\ p.templates = Visible(p.rules, UNION groups[t])]_vars
  <2>0. TypeOK /\ Entries /\ Placed
    BY <1>1 DEF IInv, AllKeyed
  <2>1. SUFFICES ASSUME NEW t \in Threads, NEW p \in response'[t],
                        pc[t] = "authenticated", pc'[t] = "answered", p.kind = "policies"
                 PROVE  /\ UNION groups[t] # {}
                        /\ p.templates = Visible(p.rules, UNION groups[t])
    OBVIOUS
  <2>2. Hit(t) \/ LookupRaises(t)
    <3>1. ASSUME NEW u \in Threads, Handle(u) \/ \E r \in Request : Authenticate(u, r)
          PROVE  Hit(t) \/ LookupRaises(t)
      <4>1. u = t
        BY <2>0, <2>1, <3>1 DEF TypeOK, Handle, Authenticate, LookupRaises, Hit, Miss,
             Build, Store, Return
      <4>2. QED
        BY <2>0, <2>1, <3>1, <4>1 DEF TypeOK, Handle, Authenticate, Miss, Build, Store,
             Return
    <3>2. ASSUME NEW w \in Workers, Restart(w)  PROVE FALSE
      BY <2>0, <2>1, <3>2 DEF TypeOK, Restart
    <3>3. ASSUME \/ ChangeGroups \/ ToggleLdap \/ ToggleRedis \/ Expire
                 \/ ReplaceFile \/ UNCHANGED vars
          PROVE  FALSE
      BY <2>1, <3>3 DEF ChangeGroups, ToggleLdap, ToggleRedis, Expire, ReplaceFile,
           vars, threadVars
    <3>4. QED  BY <1>1, <3>1, <3>2, <3>3 DEF Next
  <2>3. p \in redis[Key(t)]
    <3>1. ~LookupRaises(t)
      BY <2>0, <2>1 DEF LookupRaises, TypeOK, Error500
    <3>2. QED  BY <2>0, <2>1, <2>2, <3>1 DEF Hit, TypeOK
  <2>4. request[t] \in Request
    BY <1>1, <2>1 DEF IInv, Honest
  <2>5. Key(t) \in Keys /\ Key(t)[2] = hash[t] /\ hash[t] = HashOf(groups[t])
    BY <1>1, <2>0, <2>1, <2>4, KeyTyped DEF AllKeyed, Keyed
  <2>6. HashOf(groups[t]) \notin Groupless /\ FromGroups(p, GroupsOf(HashOf(groups[t])))
    BY <2>0, <2>1, <2>3, <2>5 DEF Placed, Entries
  <2>7. QED  BY <2>1, <2>6, LookedUpWithGroups DEF FromGroups
<1>2. QED  BY <1>1, SpecKeyed, PTL DEF Spec, CacheForgetsOutages

-----------------------------------------------------------------------------
(***************************************************************************)
(* The endpoint with its cache implements Listing.                         *)
(***************************************************************************)
\* A key has one response at most, a thread has built exactly one, and a thread
\* that is idle has heard nothing of the directory.
Single(answers) == \E p \in Response : answers = {p}

OneResponse ==
    /\ \A k \in Keys : redis[k] = {} \/ Single(redis[k])
    /\ \A t \in Threads :
          /\ pc[t] = "built" => Single(response[t])
          /\ pc[t] = "idle" => seen[t] = {}

LEMMA OneResponseStep ==
  ASSUME IInv, OneResponse, [Next]_vars
  PROVE  OneResponse'
<1>0. TypeOK
  BY DEF IInv
<1>1. ASSUME NEW t \in Threads, Handle(t) \/ \E r \in Request : Authenticate(t, r)
      PROVE  OneResponse'
  <2>1. ASSUME NEW u \in Threads, u # t
        PROVE  pc'[u] = pc[u] /\ response'[u] = response[u] /\ seen'[u] = seen[u]
    BY <1>0, <1>1, <2>1 DEF TypeOK, Handle, Authenticate, LookupRaises, Hit, Miss,
         Build, Store, Return
  <2>2. CASE Store(t)
    <3>1. Key(t) \in Keys
      BY <1>0, <2>2, KeyTyped DEF IInv, Store, Honest
    <3>2. Single(response[t]) /\ pc'[t] = "answered"
      BY <1>0, <2>2 DEF OneResponse, Store, TypeOK
    <3>3. redis' = redis \/ redis' = [redis EXCEPT ![Key(t)] = response[t]]
      BY <2>2 DEF Store
    <3>4. QED  BY <1>0, <2>1, <3>1, <3>2, <3>3 DEF OneResponse, TypeOK
  <2>3. CASE Build(t)
    <3>1. pc'[t] = "built" /\ redis' = redis
      BY <1>0, <2>3 DEF Build, TypeOK
    <3>2. worker[WorkerOf[t]].rules \in Rules
      BY <1>0, WorkersAssumption DEF TypeOK
    <3>3. Single(response'[t])
      <4>1. CASE request[t].wellFormed
        <5> DEFINE rules == worker[WorkerOf[t]].rules
                   p == [kind |-> "policies", rules |-> rules,
                         templates |-> Visible(rules, ProviderGroups(t))]
        <5>1. response'[t] = {p}
          BY <1>0, <2>3, <4>1 DEF Build, TypeOK
        <5>2. p \in Response
          BY <3>2 DEF Response, Policies, Visible
        <5>3. QED  BY <5>1, <5>2 DEF Single
      <4>2. CASE ~request[t].wellFormed
        BY <1>0, <2>3, <4>2 DEF Build, TypeOK, Single, Response
      <4>3. QED  BY <4>1, <4>2
    <3>4. QED  BY <2>1, <3>1, <3>3 DEF OneResponse
  <2>4. CASE \/ LookupRaises(t) \/ Hit(t) \/ Miss(t) \/ Return(t)
             \/ \E r \in Request : Authenticate(t, r)
    <3>1. /\ redis' = redis /\ pc'[t] # "built"
          /\ pc'[t] = "idle" => seen'[t] = {}
      BY <1>0, <2>4 DEF TypeOK, LookupRaises, Hit, Miss, Return, Authenticate
    <3>2. QED  BY <2>1, <3>1 DEF OneResponse
  <2>5. QED  BY <1>1, <2>2, <2>3, <2>4 DEF Handle
<1>2. CASE ChangeGroups \/ ToggleLdap \/ ToggleRedis \/ ReplaceFile \/ UNCHANGED vars
  <2>1. UNCHANGED <<redis, pc, response, seen>>
    BY <1>2 DEF ChangeGroups, ToggleLdap, ToggleRedis, ReplaceFile, vars, envVars,
         threadVars
  <2>2. QED  BY <2>1 DEF OneResponse
<1>3. CASE Expire
  <2>1. UNCHANGED <<pc, response, seen>> /\ \E k \in Keys : redis' = [redis EXCEPT ![k] = {}]
    BY <1>3 DEF Expire, threadVars
  <2>2. QED  BY <1>0, <2>1 DEF OneResponse, TypeOK
<1>4. ASSUME NEW w \in Workers, Restart(w)  PROVE OneResponse'
  <2>1. redis' = redis
    BY <1>4 DEF Restart
  <2>2. ASSUME NEW t \in Threads
        PROVE  \/ pc'[t] = pc[t] /\ response'[t] = response[t] /\ seen'[t] = seen[t]
               \/ pc'[t] = "idle" /\ seen'[t] = {}
    BY <1>4, <2>2 DEF Restart
  <2>3. QED  BY <2>1, <2>2 DEF OneResponse
<1>5. QED  BY <1>1, <1>2, <1>3, <1>4 DEF Next

\* The abstract variables, for the proofs about single steps.
Asking(t) == IF pc[t] = "idle" THEN {} ELSE {request[t].client}
Answer(t) == IF pc[t] = "answered" THEN response[t] ELSE {}

\* A response for groups seen, or a failure, is something Listing may tell.
LEMMA Tellable ==
  ASSUME NEW t \in Threads, NEW p \in Response,
         \E G \in seen[t] \cup {{}} : FromGroups(p, G)
  PROVE  \/ \E rules \in Rules, G \in seen[t] \cup {{}} :
               p = Promise!Policies(rules, G)
         \/ p \in {Fault, Error500}
<1>1. CASE p = Fault
  BY <1>1
<1>2. CASE p \in Policies
  <2>1. PICK G \in seen[t] \cup {{}} : FromGroups(p, G)
    OBVIOUS
  <2>2. /\ p.rules \in Rules /\ p.kind = "policies" /\ p.templates = Visible(p.rules, G)
        /\ p = [kind |-> p.kind, rules |-> p.rules, templates |-> p.templates]
    BY <1>2, <2>1 DEF Policies, FromGroups
  <2>3. p = Promise!Policies(p.rules, G)
    BY <2>2 DEF Promise!Policies
  <2>4. QED  BY <2>2, <2>3
<1>3. QED  BY <1>1, <1>2 DEF Response

\* A thread that answers takes the abstract step Tell.
LEMMA AnsweringTells ==
  ASSUME TypeOK, NEW t \in Threads, NEW p,
         pc[t] \notin {"idle", "answered"}, pc' = [pc EXCEPT ![t] = "answered"],
         response' = [response EXCEPT ![t] = {p}],
         UNCHANGED <<directory, request, seen>>,
         \/ \E rules \in Rules, G \in seen[t] \cup {{}} : p = Promise!Policies(rules, G)
         \/ p \in {Fault, Error500}
  PROVE  Promise!Tell(t)
<1>1. [u \in Threads |-> Asking(u)]' = [u \in Threads |-> Asking(u)]
  BY DEF TypeOK, Asking
<1>2. [u \in Threads |-> Answer(u)]' = [[u \in Threads |-> Answer(u)] EXCEPT ![t] = {p}]
  BY DEF TypeOK, Answer
<1>3. [u \in Threads |-> Asking(u)][t] # {} /\ [u \in Threads |-> Answer(u)][t] = {}
  BY DEF Asking, Answer
<1>4. CASE p \in {Fault, Error500}
  BY <1>1, <1>2, <1>3, <1>4 DEF Promise!Tell, Asking, Answer
<1>5. CASE \E rules \in Rules, G \in seen[t] \cup {{}} : p = Promise!Policies(rules, G)
  <2>1. PICK rules \in Rules, G \in seen[t] \cup {{}} : p = Promise!Policies(rules, G)
    BY <1>5
  <2>2. [u \in Threads |-> Answer(u)]'
           = [[u \in Threads |-> Answer(u)] EXCEPT ![t] = {Promise!Policies(rules, G)}]
    BY <1>2, <2>1
  <2>3. QED  BY <1>1, <1>3, <2>2 DEF Promise!Tell, Asking, Answer
<1>6. QED  BY <1>4, <1>5

\* Requests under way may end together.
LEMMA ForgettingIsNext ==
  ASSUME NEW S \in SUBSET {u \in Threads : pc[u] # "idle"}, Promise!Forget(S)
  PROVE  Promise!Next
<1> DEFINE busy == {u \in Threads : [v \in Threads |->
                      IF pc[v] = "idle" THEN {} ELSE {request[v].client}][u] # {}}
<1>1. S \in SUBSET busy
  OBVIOUS
<1>2. \E done \in SUBSET busy : Promise!Forget(done)
  BY <1>1
<1>3. QED  BY <1>2, Zenon DEF Promise!Next

\* What the steps of a thread are for Listing.
LEMMA ThreadPromise ==
  ASSUME IInv, OneResponse, NEW t \in Threads,
         Handle(t) \/ \E r \in Request : Authenticate(t, r)
  PROVE  [Promise!Next]_(Promise!vars)
<1>0. TypeOK /\ Honest(t) /\ Made(t) /\ Entries
  BY DEF IInv
<1>1. ASSUME NEW r \in Request, Authenticate(t, r)  PROVE Promise!Ask(t)
  <2>1. PICK found \in Found(r.client) : seen' = [seen EXCEPT ![t] = found]
    BY <1>1 DEF Authenticate
  <2>2. r.client \in Clients /\ found \in {{}, {{}}, {directory[r.client]}}
    BY DEF Request, Found
  <2>3. [u \in Threads |-> Asking(u)]'
           = [[u \in Threads |-> Asking(u)] EXCEPT ![t] = {r.client}]
    BY <1>0, <1>1 DEF Authenticate, TypeOK, Asking
  <2>4. [u \in Threads |-> Answer(u)]' = [u \in Threads |-> Answer(u)]
    BY <1>0, <1>1 DEF Authenticate, TypeOK, Answer
  <2>5. [u \in Threads |-> Asking(u)][t] = {}
    BY <1>1 DEF Authenticate, Asking
  <2>6. directory' = directory
    BY <1>1 DEF Authenticate, envVars
  <2>7. QED  BY <2>1, <2>2, <2>3, <2>4, <2>5, <2>6 DEF Promise!Ask, Asking, Answer
<1>2. CASE LookupRaises(t)
  BY <1>0, <1>2, AnsweringTells DEF LookupRaises, envVars, Promise!Next
<1>3. CASE Hit(t)
  <2>1. Key(t) \in Keys /\ Key(t)[2] = hash[t]
    BY <1>0, <1>3, KeyTyped DEF Hit, Honest
  <2>2. PICK p \in Response : redis[Key(t)] = {p}
    BY <1>3, <2>1 DEF Hit, OneResponse, Single
  <2>3. \E G \in seen[t] \cup {{}} : FromGroups(p, G)
    BY <1>0, <1>3, <2>1, <2>2 DEF Hit, Entries, Honest
  <2>4. Promise!Tell(t)
    BY <1>0, <1>3, <2>2, <2>3, Tellable, AnsweringTells DEF Hit, envVars
  <2>5. QED  BY <2>4 DEF Promise!Next
<1>4. CASE Store(t)
  <2>1. PICK p \in Response : response[t] = {p}
    BY <1>4 DEF Store, OneResponse, Single
  <2>2. \E G \in seen[t] \cup {{}} : FromGroups(p, G)
    BY <1>0, <1>4, <2>1 DEF Store, Made, Honest
  <2>3. response' = [response EXCEPT ![t] = {p}]
    BY <1>0, <1>4, <2>1 DEF Store, TypeOK
  <2>4. Promise!Tell(t)
    BY <1>0, <1>4, <2>2, <2>3, Tellable, AnsweringTells DEF Store, envVars
  <2>5. QED  BY <2>4 DEF Promise!Next
<1>5. CASE Miss(t) \/ Build(t)
  <2>1. /\ [u \in Threads |-> Asking(u)]' = [u \in Threads |-> Asking(u)]
        /\ [u \in Threads |-> Answer(u)]' = [u \in Threads |-> Answer(u)]
        /\ directory' = directory
    BY <1>0, <1>5 DEF Miss, Build, TypeOK, Asking, Answer, envVars
  <2>2. CASE seen' = seen
    BY <2>1, <2>2 DEF Promise!vars, Asking, Answer
  <2>3. CASE seen' = [seen EXCEPT ![t] = @ \cup {directory[request[t].client]}]
    <3>1. /\ [u \in Threads |-> Asking(u)][t] = {request[t].client}
          /\ [u \in Threads |-> Answer(u)][t] = {}
      BY <1>5 DEF Miss, Build, Asking, Answer
    <3>2. Promise!Learn(t)
      BY <2>1, <2>3, <3>1 DEF Promise!Learn, Asking, Answer
    <3>3. QED  BY <3>2 DEF Promise!Next
  <2>4. seen' = seen \/ seen' = [seen EXCEPT ![t] = @ \cup {directory[request[t].client]}]
    <3>1. seen = [seen EXCEPT ![t] = @ \cup {}]
      BY <1>0 DEF TypeOK
    <3>2. CASE groups[t] = {} /\ Bound /\ ldapUp
      BY <1>5, <3>2 DEF Miss, Build
    <3>3. CASE ~(groups[t] = {} /\ Bound /\ ldapUp)
      BY <1>5, <3>1, <3>3 DEF Miss, Build
    <3>4. QED  BY <3>2, <3>3
  <2>5. QED  BY <2>2, <2>3, <2>4
<1>6. CASE Return(t)
  <2>1. [u \in Threads |-> Asking(u)]'
           = [u \in Threads |-> IF u \in {t} THEN {} ELSE [v \in Threads |-> Asking(v)][u]]
    BY <1>0, <1>6 DEF Return, TypeOK, Asking
  <2>2. [u \in Threads |-> Answer(u)]'
           = [u \in Threads |-> IF u \in {t} THEN {} ELSE [v \in Threads |-> Answer(v)][u]]
    BY <1>0, <1>6 DEF Return, TypeOK, Answer
  <2>3. seen' = [u \in Threads |-> IF u \in {t} THEN {} ELSE seen[u]] /\ directory' = directory
    BY <1>0, <1>6 DEF Return, TypeOK, envVars
  <2>4. Promise!Forget({t})
    BY <2>1, <2>2, <2>3 DEF Promise!Forget, Asking, Answer
  <2>5. {t} \in SUBSET {u \in Threads : pc[u] # "idle"}
    BY <1>6 DEF Return
  <2>6. QED  BY <2>4, <2>5, ForgettingIsNext
<1>7. QED
  <2>1. (\E r \in Request : Authenticate(t, r)) => Promise!Next
    BY <1>1 DEF Promise!Next
  <2>2. QED  BY <1>2, <1>3, <1>4, <1>5, <1>6, <2>1 DEF Handle

\* A restart forgets the requests of its worker, the rest is not seen.
LEMMA SurroundingsPromise ==
  ASSUME IInv, OneResponse,
         \/ ChangeGroups \/ ToggleLdap \/ ToggleRedis \/ Expire \/ ReplaceFile
         \/ \E w \in Workers : Restart(w)
  PROVE  [Promise!Next]_(Promise!vars)
<1>0. TypeOK
  BY DEF IInv
<1>1. CASE ToggleLdap \/ ToggleRedis \/ Expire \/ ReplaceFile
  <2>1. UNCHANGED <<directory, pc, request, response, seen>>
    BY <1>1 DEF ToggleLdap, ToggleRedis, Expire, ReplaceFile, envVars, threadVars
  <2>2. QED  BY <2>1 DEF Promise!vars
<1>2. CASE ChangeGroups
  <2>1. UNCHANGED <<pc, request, response, seen>>
    BY <1>2 DEF ChangeGroups, threadVars
  <2>2. Promise!Change
    BY <1>2, <2>1 DEF ChangeGroups, Promise!Change
  <2>3. QED  BY <2>2 DEF Promise!Next
<1>3. ASSUME NEW w \in Workers, Restart(w)  PROVE Promise!Next
  <2>1. PICK done \in SUBSET {u \in Threads : pc[u] # "idle"} :
            \A t \in Threads : t \in done <=> WorkerOf[t] = w /\ pc[t] # "idle"
    <3>1. {t \in Threads : WorkerOf[t] = w /\ pc[t] # "idle"}
            \in SUBSET {u \in Threads : pc[u] # "idle"}
      OBVIOUS
    <3>2. QED  BY <3>1
  <2>2. ASSUME NEW t \in Threads
        PROVE  /\ Asking(t)' = IF t \in done THEN {} ELSE Asking(t)
               /\ Answer(t)' = IF t \in done THEN {} ELSE Answer(t)
               /\ seen'[t] = IF t \in done THEN {} ELSE seen[t]
    BY <1>3, <2>1, <2>2 DEF Restart, OneResponse, Asking, Answer
  <2>3. seen' = [t \in Threads |-> seen'[t]] /\ directory' = directory
    BY <1>3 DEF Restart, envVars
  <2>4. [u \in Threads |-> Asking(u)]'
           = [u \in Threads |-> IF u \in done THEN {} ELSE [v \in Threads |-> Asking(v)][u]]
    BY <2>2
  <2>5. [u \in Threads |-> Answer(u)]'
           = [u \in Threads |-> IF u \in done THEN {} ELSE [v \in Threads |-> Answer(v)][u]]
    BY <2>2
  <2>6. seen' = [u \in Threads |-> IF u \in done THEN {} ELSE seen[u]]
    BY <2>2, <2>3
  <2>7. Promise!Forget(done)
    BY <2>3, <2>4, <2>5, <2>6 DEF Promise!Forget, Asking, Answer
  <2>8. QED  BY <2>7, ForgettingIsNext
<1>4. QED  BY <1>1, <1>2, <1>3

\* For every number of workers, threads, groups and mapping files, the endpoint
\* with its cache answers as one without a cache may.
THEOREM Implements == Spec => KeepsListing
<1>1. Init => OneResponse /\ Promise!Init
  BY DEF Init, OneResponse, Promise!Init
<1>2. IInv /\ OneResponse /\ [Next]_vars => OneResponse'
  BY OneResponseStep
<1>3. IInv /\ OneResponse /\ [Next]_vars => [Promise!Next]_(Promise!vars)
  <2>1. UNCHANGED vars => UNCHANGED Promise!vars
    BY DEF vars, threadVars, Promise!vars
  <2>2. QED  BY <2>1, ThreadPromise, SurroundingsPromise DEF Next
<1>4. QED
  BY <1>1, <1>2, <1>3, SpecIInv, PTL DEF Spec, KeepsListing, Promise!Spec
=============================================================================
