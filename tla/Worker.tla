-------------------------------- MODULE Worker --------------------------------
(***************************************************************************)
(* What one gunicorn worker keeps while it lives, and what its threads     *)
(* share: the services that create_services (src/services/__init__.py)     *)
(* made of what was there at its start, the LDAP connection (LdapClient),  *)
(* and the threads themselves, on which certificate requests, policy       *)
(* requests and the probes of src/api/health.py wait for each other.       *)
(*                                                                         *)
(* The enrollment handler is reduced to one call to EJBCA, since its       *)
(* sequence of calls is Enrollment's subject, and the cached responses to  *)
(* whether they have the CA certificate, since their groups are            *)
(* PolicyCache's.                                                          *)
(***************************************************************************)
EXTENDS Naturals, Sequences

CONSTANTS
    Threads,            \* the thread pool of the worker
    Clients,            \* whoever sends it requests, one at a time
    MayAsk,             \* what each may ask for: paths
    Accounts, UserAccounts, ComputerAccounts,   \* see LdapClient
    AccountOf,          \* the account of each client that is authenticated
    Configurations,     \* sets of what config may have: "ldap", "ejbca" (their URLs)
    MaxAttempts         \* sends of one call: 1 + max_retries of the session

Paths == {"cep", "ces", "readyz", "health"}

ASSUME PoolAssumption ==
    /\ MayAsk \in [Clients -> SUBSET Paths]
    /\ AccountOf \in [Clients -> Accounts]
    /\ Configurations \subseteq SUBSET {"ldap", "ejbca"}
    /\ MaxAttempts \in Nat \ {0}

VARIABLES
    configured, \* which of config.ldap_url and config.ejbca_url are set
    connected,  \* the LDAP client is connected at start (create_services does
                \* not call connect, but all of ADLDAPClient is made for it)
    path,       \* what each client asks for, each time
    certified,  \* the template manager got the CA certificate
    cache,      \* per client: {} or {a cached response}
    queue,      \* clients whose requests wait for a thread
    serving,    \* per thread: {} or {the client it serves}
    at,         \* where the thread is
    groups,     \* g.user_groups, until the endpoint has read it: {} is None,
                \* else {the accounts found}
    attempt,    \* sends of the call to EJBCA
    response,   \* of the thread, when it answers with policies
    mixed,      \* history: threads one of whose lookups was crossed
    link, entries, lookup, found, crossed       \* see LdapClient

L == INSTANCE LdapClient

setting     == <<configured, connected, path>>
serviceVars == <<setting, certified, cache>>
poolVars    == <<queue, serving, at, groups, attempt, response, mixed>>
ldapVars    == <<link, entries, lookup, found, crossed>>
vars == <<serviceVars, poolVars, ldapVars>>

At == {"free", "hook", "endpoint", "provider", "building", "calling", "answering"}

\* What is told apart of a response: policies have the CA certificate or not,
\* and (history) were built in an earlier life of the worker or in this.  Of
\* the other responses only that there is one.
Policies(ca, life) == [ca |-> ca, life |-> life]
CachedResponse == [ca : BOOLEAN, life : {"this", "earlier"}]

\* get_ca_certificate at start: without EJBCA, or if anything goes wrong, the
\* policies are without it.
FetchCa == IF "ejbca" \in configured THEN BOOLEAN ELSE {FALSE}

Init ==
    /\ configured \in Configurations
    /\ connected \in BOOLEAN /\ (connected => "ldap" \in configured)
    /\ path \in [Clients -> Paths] /\ \A c \in Clients : path[c] \in MayAsk[c]
    /\ certified \in FetchCa
    /\ cache = [c \in Clients |-> {}]
    /\ queue = <<>>
    /\ serving = [t \in Threads |-> {}]
    /\ at = [t \in Threads |-> "free"]
    /\ groups = [t \in Threads |-> {}]
    /\ attempt = [t \in Threads |-> 0]
    /\ response = [t \in Threads |-> {}]
    /\ mixed = {}
    /\ L!LdapInit /\ (link = "bound" <=> connected)

-----------------------------------------------------------------------------
Goto(t, place) == at' = [at EXCEPT ![t] = place]
Client(t) == CHOOSE c \in serving[t] : TRUE
Serves(t, p) == \E c \in serving[t] : path[c] = p
Waiting(c) == \E i \in DOMAIN queue : queue[i] = c
Busy(c) == \E t \in Threads : c \in serving[t]

\* A client sends a request and waits for its answer.
Arrive(c) ==
    /\ ~Waiting(c) /\ ~Busy(c)
    /\ queue' = Append(queue, c)
    /\ UNCHANGED <<serviceVars, serving, at, groups, attempt, response, mixed, ldapVars>>

\* A free thread takes the request that waited longest; probes skip the hook.
Take(t) ==
    /\ at[t] = "free" /\ queue # <<>>
    /\ serving' = [serving EXCEPT ![t] = {Head(queue)}]
    /\ queue' = Tail(queue)
    /\ Goto(t, IF path[Head(queue)] \in {"readyz", "health"} THEN "endpoint" ELSE "hook")
    /\ UNCHANGED <<serviceVars, groups, attempt, response, mixed, ldapVars>>

-----------------------------------------------------------------------------
(***************************************************************************)
(* The groups: _fetch_user_groups in the hook, and once more in the policy *)
(* provider, if the hook could not tell them.                              *)
(***************************************************************************)
Known(t, who) == groups' = [groups EXCEPT ![t] = who]

NoDirectory(t) ==
    /\ at[t] = "hook" /\ "ldap" \notin configured
    /\ Goto(t, "endpoint")
    /\ UNCHANGED <<serviceVars, queue, serving, groups, attempt, response, mixed, ldapVars>>

NoteCrossing(t) == mixed' = mixed \cup (crossed \cap {t})

LookUp(t, op) ==
    /\ at[t] \in {"hook", "provider"} /\ "ldap" \in configured
    /\ L!Start(t, op, AccountOf[Client(t)])
    /\ NoteCrossing(t)
    /\ UNCHANGED <<serviceVars, queue, serving, at, groups, attempt, response>>

LookUpUser(t)     == L!At(t, "idle") /\ LookUp(t, "user")
LookUpComputer(t) == L!At(t, "missing") /\ lookup[t].op = "user" /\ LookUp(t, "computer")

LookUpOn(t) == L!Advance(t) /\ UNCHANGED <<serviceVars, poolVars>>

\* The entry's groups; no groups when there is no such account; None when the
\* lookup raised, or no groups in the provider.
Resolve(t) ==
    /\ at[t] \in {"hook", "provider"}
    /\ \/ L!At(t, "found") /\ Known(t, {found[t]})
       \/ L!At(t, "missing") /\ lookup[t].op = "computer" /\ Known(t, {{}})
       \/ L!At(t, "raised") /\ Known(t, IF at[t] = "hook" THEN {} ELSE {{}})
    /\ L!Finish(t)
    /\ NoteCrossing(t)
    /\ Goto(t, IF at[t] = "hook" THEN "endpoint" ELSE "building")
    /\ UNCHANGED <<serviceVars, queue, serving, attempt, response>>

-----------------------------------------------------------------------------
(***************************************************************************)
(* The endpoints.                                                          *)
(***************************************************************************)
\* An endpoint reads the groups at once, if at all.
Enter(t, place) ==
    /\ at[t] = place
    /\ groups' = [groups EXCEPT ![t] = {}]
    /\ mixed' = mixed \ {t}

Answer(t, r) ==
    /\ Goto(t, "answering")
    /\ response' = [response EXCEPT ![t] = r]

Alive(t) ==
    /\ Enter(t, "endpoint") /\ Serves(t, "health")
    /\ Answer(t, {})
    /\ UNCHANGED <<serviceVars, queue, serving, attempt, ldapVars>>

AskProvider(t) ==
    /\ at[t] = "endpoint" /\ Serves(t, "cep") /\ cache[Client(t)] = {}
    /\ Goto(t, IF groups[t] = {} /\ "ldap" \in configured THEN "provider" ELSE "building")
    /\ UNCHANGED <<serviceVars, queue, serving, groups, attempt, response, mixed, ldapVars>>

\* Mutant: the certificate is fetched for each response.
NewPoliciesRefetched(t) ==
    /\ Enter(t, "building")
    /\ \E ca \in FetchCa :
        /\ Answer(t, {Policies(ca, "this")})
        /\ cache' = [cache EXCEPT ![Client(t)] = {Policies(ca, "this")}]
    /\ UNCHANGED <<setting, certified, queue, serving, attempt, ldapVars>>

\* A cached response, or one built and cached.
CachedPolicies(t) ==
    /\ Enter(t, "endpoint") /\ Serves(t, "cep")
    /\ cache[Client(t)] # {} /\ Answer(t, cache[Client(t)])
    /\ UNCHANGED <<serviceVars, queue, serving, attempt, ldapVars>>

NewPolicies(t) ==
    /\ Enter(t, "building")
    /\ Answer(t, {Policies(certified, "this")})
    /\ cache' = [cache EXCEPT ![Client(t)] = {Policies(certified, "this")}]
    /\ UNCHANGED <<setting, certified, queue, serving, attempt, ldapVars>>

\* Without EJBCA there is no handler, and readyz is not ready.
WithoutEjbca(t) ==
    /\ Enter(t, "endpoint") /\ "ejbca" \notin configured
    /\ Serves(t, "ces") \/ Serves(t, "readyz")
    /\ Answer(t, {})
    /\ UNCHANGED <<serviceVars, queue, serving, attempt, ldapVars>>

CallEjbca(t) ==
    /\ Enter(t, "endpoint") /\ "ejbca" \in configured
    /\ Serves(t, "ces") \/ Serves(t, "readyz")
    /\ Goto(t, "calling")
    /\ attempt' = [attempt EXCEPT ![t] = 1]
    /\ UNCHANGED <<serviceVars, queue, serving, response, ldapVars>>

\* EJBCA answers, with what was asked for, an error or nothing usable.
EjbcaAnswers(t) ==
    /\ at[t] = "calling"
    /\ Answer(t, {})
    /\ attempt' = [attempt EXCEPT ![t] = 0]
    /\ UNCHANGED <<serviceVars, queue, serving, groups, mixed, ldapVars>>

\* Mutant: a call has no timeout.
NoTimeout(t) ==
    /\ at[t] = "calling" /\ attempt[t] > MaxAttempts
    /\ Answer(t, {})
    /\ attempt' = [attempt EXCEPT ![t] = 0]
    /\ UNCHANGED <<serviceVars, queue, serving, groups, mixed, ldapVars>>

\* Mutant: one more send than the session is set up for.
OneMoreSend(t) ==
    /\ at[t] = "calling"
    /\ \/ /\ attempt[t] <= MaxAttempts
          /\ attempt' = [attempt EXCEPT ![t] = @ + 1]
          /\ UNCHANGED <<at, response>>
       \/ /\ attempt[t] > MaxAttempts
          /\ attempt' = [attempt EXCEPT ![t] = 0]
          /\ Answer(t, {})
    /\ UNCHANGED <<serviceVars, queue, serving, groups, mixed, ldapVars>>

\* A send times out or is refused, and the session sends again or gives up.
TimeOut(t) ==
    /\ at[t] = "calling"
    /\ \/ /\ attempt[t] < MaxAttempts
          /\ attempt' = [attempt EXCEPT ![t] = @ + 1]
          /\ UNCHANGED <<at, response>>
       \/ /\ attempt[t] = MaxAttempts
          /\ attempt' = [attempt EXCEPT ![t] = 0]
          /\ Answer(t, {})
    /\ UNCHANGED <<serviceVars, queue, serving, groups, mixed, ldapVars>>

Return(t) ==
    /\ at[t] = "answering"
    /\ Goto(t, "free")
    /\ serving' = [serving EXCEPT ![t] = {}]
    /\ response' = [response EXCEPT ![t] = {}]
    /\ UNCHANGED <<serviceVars, queue, groups, attempt, mixed, ldapVars>>

Endpoint(t) ==
    \/ Alive(t) \/ CachedPolicies(t) \/ AskProvider(t) \/ NewPolicies(t) \/ WithoutEjbca(t)
    \/ CallEjbca(t) \/ TimeOut(t)

Run(t) ==
    \/ Take(t) \/ NoDirectory(t) \/ LookUpUser(t) \/ LookUpComputer(t)
    \/ LookUpOn(t) \/ Resolve(t) \/ Endpoint(t) \/ Return(t)

-----------------------------------------------------------------------------
(***************************************************************************)
(* The surroundings.                                                       *)
(***************************************************************************)
LoseDirectory == L!Drop /\ UNCHANGED <<serviceVars, poolVars>>

\* policy_ttl, in Redis, which outlives the worker.
Expire ==
    /\ \E c \in Clients : cache[c] # {} /\ cache' = [cache EXCEPT ![c] = {}]
    /\ UNCHANGED <<setting, certified, poolVars, ldapVars>>

\* The worker starts again: the requests it had are lost.
Restart ==
    /\ certified' \in FetchCa
    /\ cache' = [c \in Clients |-> {[r EXCEPT !.life = "earlier"] : r \in cache[c]}]
    /\ queue' = <<>>
    /\ serving' = [t \in Threads |-> {}]
    /\ at' = [t \in Threads |-> "free"]
    /\ groups' = [t \in Threads |-> {}]
    /\ attempt' = [t \in Threads |-> 0]
    /\ response' = [t \in Threads |-> {}]
    /\ mixed' = {}
    /\ L!Renew /\ (link' = "bound" <=> connected)
    /\ UNCHANGED setting

Next ==
    \/ \E c \in Clients : Arrive(c)
    \/ \E t \in Threads : Run(t) \/ EjbcaAnswers(t)
    \/ LoseDirectory \/ Expire \/ Restart

Spec == Init /\ [][Next]_vars

\* Threads are scheduled and timeouts expire; EJBCA, the directory and the
\* clients owe nothing.
FairSpec == Spec /\ \A t \in Threads : WF_vars(Run(t))

-----------------------------------------------------------------------------
\* The types of the services and the pool.
TypeOK ==
    /\ configured \in Configurations /\ connected \in BOOLEAN
    /\ path \in [Clients -> Paths]
    /\ certified \in BOOLEAN
    /\ cache \in [Clients -> SUBSET CachedResponse]
    /\ queue \in Seq(Clients)
    /\ serving \in [Threads -> SUBSET Clients]
    /\ at \in [Threads -> At]
    /\ groups \in [Threads -> SUBSET (SUBSET Accounts)]
    /\ attempt \in [Threads -> 0 .. MaxAttempts]
    /\ response \in [Threads -> SUBSET CachedResponse]
    /\ mixed \subseteq Threads
    /\ L!LdapTypeOK

Authenticated(t) ==
    at[t] \in {"endpoint", "building"} /\ (Serves(t, "cep") \/ Serves(t, "ces"))

\* The threads share one connection and its entries.  A request is handled
\* with the groups of its own account, or of none, or with no groups known,
\* and while the connection is up with exactly what the directory has, be the
\* account a user's or a computer's: unless another thread searched in the
\* middle of one of its lookups.
OwnGroups ==
    \A t \in Threads \ mixed : Authenticated(t) /\ "ldap" \in configured =>
        LET own == {AccountOf[Client(t)]} \cap (UserAccounts \cup ComputerAccounts)
        IN /\ groups[t] \subseteq {{}, own}
           /\ link = "bound" => groups[t] = {own}

\* What the worker says of the CA is what it learned at its start, until it
\* starts again, except in responses that are older than it: a start without
\* EJBCA shows as long as the worker lives, and then until the entries expire.
CaOfThisLife ==
    \A t \in Threads : \A r \in response[t] :
        r.life = "this" => r.ca = certified

\* No probe waits forever for a thread or its answer, even if EJBCA never
\* answers and every thread calls it: it is answered, or lost with its worker.
Probes == {c \in Clients : MayAsk[c] \subseteq {"readyz", "health"}}

ProbesAnswered ==
    \A c \in Probes : Waiting(c) ~> ~Waiting(c) /\ ~Busy(c)
=============================================================================
