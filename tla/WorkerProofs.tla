----------------------------- MODULE WorkerProofs -----------------------------
(***************************************************************************)
(* OwnGroups and CaOfThisLife hold for every number of threads and         *)
(* clients, every directory and configuration, and any number of attempts. *)
(*                                                                         *)
(* The worker uses the LDAP client as LdapClient allows (Connection), so   *)
(* what LdapProofs shows of one lookup holds here.  A request makes two of *)
(* them, and is handled later: Asks ties a lookup to the client that is    *)
(* served, and what is known of the first lookup to the second, Knows ties *)
(* both to the groups the endpoint reads.                                  *)
(***************************************************************************)
EXTENDS Worker, TLAPS

LP == INSTANCE LdapProofs

\* A thread that is not free serves a client.
Placed == \A t \in Threads : at[t] # "free" => \E c \in Clients : serving[t] = {c}

\* The client of a busy thread is the one it serves.
LEMMA ClientServed ==
  ASSUME Placed, NEW t \in Threads, at[t] # "free"
  PROVE  Client(t) \in Clients /\ serving[t] = {Client(t)}
<1>1. PICK c \in Clients : serving[t] = {c}
  BY DEF Placed
<1>2. Client(t) = c
  BY <1>1 DEF Client
<1>3. QED  BY <1>1, <1>2

\* The pool's own types, without those of the LDAP client.
PoolTypes ==
    /\ configured \in Configurations /\ connected \in BOOLEAN
    /\ path \in [Clients -> Paths]
    /\ certified \in BOOLEAN
    /\ cache \in [Clients -> SUBSET CachedResponse]
    /\ queue \in Seq(Clients)
    /\ serving \in [Threads -> SUBSET Clients]
    /\ at \in [Threads -> At]
    /\ groups \in [Threads -> SUBSET (SUBSET Accounts)]
    /\ attempt \in [Threads -> 0 .. MaxAttempts]
    /\ response \in [Threads -> SUBSET CachedResponse]
    /\ mixed \subseteq Threads

Base == PoolTypes /\ L!LdapTypeOK /\ Placed

\* The worker's names for LdapClient and the proofs' are the same.
LEMMA SameConnection ==
  /\ L!LdapInit = LP!LdapInit /\ L!LdapTypeOK = LP!LdapTypeOK
  /\ L!LookupIsOwn = LP!LookupIsOwn
  /\ [L!LdapNext]_ldapVars = [LP!LdapNext]_(LP!ldapVars)
  BY DEF ldapVars, LP!ldapVars, L!LdapInit, LP!LdapInit, L!LdapTypeOK, LP!LdapTypeOK,
    L!Lookup, LP!Lookup, L!Steps, LP!Steps, L!LookupIsOwn, LP!LookupIsOwn,
    L!LdapNext, LP!LdapNext, L!Advance, LP!Advance, L!Search, LP!Search, L!Goto, LP!Goto,
    L!At, LP!At, L!Listed, LP!Listed, L!Matches, LP!Matches, L!Reading, LP!Reading,
    L!SearchFails, LP!SearchFails, L!NotConnected, LP!NotConnected, L!Usable, LP!Usable,
    L!Test, LP!Test, L!TakeFirst, LP!TakeFirst, L!Finish, LP!Finish, L!Ended, LP!Ended,
    L!NoLookup, LP!NoLookup, L!Start, LP!Start, L!Drop, LP!Drop, L!Renew, LP!Renew,
    L!Ops, LP!Ops

\* Fetching the certificate gives it or not.
LEMMA CaTyped == FetchCa \subseteq BOOLEAN
<1>1. CASE "ejbca" \in configured
  BY <1>1 DEF FetchCa
<1>2. CASE "ejbca" \notin configured
  BY <1>2 DEF FetchCa
<1>3. QED  BY <1>1, <1>2

\* At the start threads are free and of their types.
LEMMA InitBase == Init => Base
<1> SUFFICES ASSUME Init PROVE Base
  OBVIOUS
<1>1. L!LdapTypeOK
  BY DEF Init, L!LdapInit, L!LdapTypeOK, L!NoLookup, L!Lookup, L!Steps, L!Ops
<1>2. PoolTypes
  <2>1. certified \in BOOLEAN
    BY CaTyped DEF Init
  <2>2. QED  BY <2>1, PoolAssumption DEF Init, PoolTypes, At
<1>3. QED  BY <1>1, <1>2 DEF Base, Init, Placed

\* Every step of a worker is, for its LDAP client, a step or none.
LEMMA ConnectionStep == Base /\ [Next]_vars => [L!LdapNext]_ldapVars
<1> SUFFICES ASSUME Base, [Next]_vars PROVE [L!LdapNext]_ldapVars
  OBVIOUS
<1>1. ASSUME NEW c \in Clients, Arrive(c)  PROVE UNCHANGED ldapVars
  BY <1>1 DEF Arrive
<1>2. ASSUME NEW t \in Threads, LookUpUser(t) \/ LookUpComputer(t)  PROVE L!LdapNext
  <2>1. PICK op \in {"user", "computer"} : LookUp(t, op)
    BY <1>2 DEF LookUpUser, LookUpComputer
  <2>2. AccountOf[Client(t)] \in Accounts
    BY <2>1, ClientServed, PoolAssumption DEF LookUp, Base
  <2>3. QED  BY <2>1, <2>2 DEF LookUp, L!LdapNext, L!Ops
<1>3. ASSUME NEW t \in Threads, LookUpOn(t) \/ Resolve(t)  PROVE L!LdapNext
  BY <1>3 DEF LookUpOn, Resolve, L!LdapNext
<1>4. ASSUME NEW t \in Threads,
             Take(t) \/ NoDirectory(t) \/ Endpoint(t) \/ Return(t) \/ EjbcaAnswers(t)
      PROVE  UNCHANGED ldapVars
  BY <1>4 DEF Take, NoDirectory, Return, EjbcaAnswers, Endpoint, Alive, CachedPolicies,
       AskProvider, NewPolicies, WithoutEjbca, CallEjbca, TimeOut
<1>5. CASE LoseDirectory \/ Expire \/ Restart
  BY <1>5 DEF LoseDirectory, Expire, Restart, L!LdapNext
<1>6. CASE UNCHANGED vars
  BY <1>6 DEF vars
<1>7. QED  BY <1>1, <1>2, <1>3, <1>4, <1>5, <1>6 DEF Next, Run

-----------------------------------------------------------------------------
\* Types and places of the threads are kept by each action.
LEMMA PoolStep ==
  ASSUME Base, NEW t \in Threads, Run(t) \/ EjbcaAnswers(t)
  PROVE  PoolTypes' /\ Placed'
<1>0. PoolTypes /\ Placed /\ L!LdapTypeOK
  BY DEF Base
<1> USE DEF PoolTypes, At, Goto, serviceVars, setting
<1>1. CASE Take(t)
  <2>1. Head(queue) \in Clients /\ Tail(queue) \in Seq(Clients)
    BY <1>0, <1>1 DEF Take
  <2>2. QED  BY <1>0, <1>1, <2>1 DEF Take, Placed
<1>2. CASE NoDirectory(t)
  BY <1>0, <1>2 DEF NoDirectory, Placed
<1>3. CASE LookUpUser(t) \/ LookUpComputer(t)
  BY <1>0, <1>3 DEF LookUpUser, LookUpComputer, LookUp, NoteCrossing, L!LdapTypeOK, Placed
<1>4. CASE LookUpOn(t)
  BY <1>0, <1>4 DEF LookUpOn, poolVars, Placed
<1>5. CASE Resolve(t)
  <2>1. PICK who \in {{}, {{}}, {found[t]}} : groups' = [groups EXCEPT ![t] = who]
    BY <1>5 DEF Resolve, Known
  <2>2. who \in SUBSET (SUBSET Accounts)
    BY <1>0, <2>1 DEF L!LdapTypeOK
  <2>3. groups' \in [Threads -> SUBSET (SUBSET Accounts)]
    BY <1>0, <2>1, <2>2
  <2>4. /\ UNCHANGED <<configured, connected, path, certified, cache, queue, serving, attempt, response>>
        /\ at[t] \in {"hook", "provider"}
        /\ \E place \in {"endpoint", "building"} : at' = [at EXCEPT ![t] = place]
        /\ mixed' = mixed \cup (crossed \cap {t})
    BY <1>5 DEF Resolve, NoteCrossing
  <2>5. QED  BY <1>0, <2>3, <2>4 DEF Placed
<1>6. CASE Alive(t) \/ WithoutEjbca(t)
  BY <1>0, <1>6 DEF Alive, WithoutEjbca, Enter, Answer, Placed
<1>7. CASE CachedPolicies(t)
  <2>1. Client(t) \in Clients
    BY <1>0, <1>7, ClientServed DEF CachedPolicies, Enter
  <2>2. QED  BY <1>0, <1>7, <2>1 DEF CachedPolicies, Enter, Answer, Placed
<1>8. CASE AskProvider(t)
  BY <1>0, <1>8 DEF AskProvider, Placed
<1>9. CASE NewPolicies(t)
  <2>1. Policies(certified, "this") \in CachedResponse
    BY <1>0 DEF Policies, CachedResponse
  <2>2. QED  BY <1>0, <1>9, <2>1 DEF NewPolicies, Enter, Answer, Placed
<1>10. CASE CallEjbca(t)
  BY <1>0, <1>10, PoolAssumption DEF CallEjbca, Enter, Placed
<1>11. CASE TimeOut(t)
  <2>1. attempt[t] \in 0 .. MaxAttempts /\ MaxAttempts \in Nat
    BY <1>0, PoolAssumption
  <2>2. CASE attempt[t] < MaxAttempts
    <3>1. attempt[t] + 1 \in 0 .. MaxAttempts
      BY <2>1, <2>2
    <3>2. at' = at /\ response' = response /\ attempt' = [attempt EXCEPT ![t] = @ + 1]
      BY <1>11, <2>1, <2>2 DEF TimeOut
    <3>3. QED  BY <1>0, <1>11, <3>1, <3>2 DEF TimeOut, Placed
  <2>3. CASE attempt[t] = MaxAttempts
    <3>1. 0 \in 0 .. MaxAttempts
      BY <2>1
    <3>2. /\ at' = [at EXCEPT ![t] = "answering"] /\ response' = [response EXCEPT ![t] = {}]
          /\ attempt' = [attempt EXCEPT ![t] = 0]
      BY <1>11, <2>1, <2>3 DEF TimeOut, Answer
    <3>3. QED  BY <1>0, <1>11, <3>1, <3>2 DEF TimeOut, Placed
  <2>4. QED  BY <2>1, <2>2, <2>3
<1>12. CASE EjbcaAnswers(t)
  BY <1>0, <1>12, PoolAssumption DEF EjbcaAnswers, Answer, Placed
<1>13. CASE Return(t)
  BY <1>0, <1>13 DEF Return, Placed
<1>14. QED
  BY <1>1, <1>2, <1>3, <1>4, <1>5, <1>6, <1>7, <1>8, <1>9, <1>10, <1>11, <1>12, <1>13
     DEF Run, Endpoint

\* Arrivals and the surroundings keep types and places.
LEMMA AroundStep ==
  ASSUME Base, (\E c \in Clients : Arrive(c)) \/ LoseDirectory \/ Expire \/ Restart
  PROVE  PoolTypes' /\ Placed'
<1>0. PoolTypes /\ Placed
  BY DEF Base
<1> USE DEF PoolTypes, At, serviceVars, setting, poolVars
<1>1. ASSUME NEW c \in Clients, Arrive(c)  PROVE PoolTypes' /\ Placed'
  BY <1>0, <1>1 DEF Arrive, Placed
<1>2. CASE LoseDirectory
  BY <1>0, <1>2 DEF LoseDirectory, Placed
<1>3. CASE Expire
  BY <1>0, <1>3 DEF Expire, Placed
<1>4. CASE Restart
  <2>1. certified' \in BOOLEAN
    BY <1>4, CaTyped DEF Restart
  <2>2. \A r \in CachedResponse : [r EXCEPT !.life = "earlier"] \in CachedResponse
    BY DEF CachedResponse
  <2>3. cache' \in [Clients -> SUBSET CachedResponse]
    BY <1>0, <1>4, <2>2 DEF Restart
  <2>4. QED  BY <1>0, <1>4, <2>1, <2>3, PoolAssumption DEF Restart, Placed
<1>5. QED  BY <1>1, <1>2, <1>3, <1>4

\* So does every step, lookups included, by LdapProofs.
LEMMA BaseStep == Base /\ [Next]_vars => Base'
<1> SUFFICES ASSUME Base, [Next]_vars PROVE Base'
  OBVIOUS
<1>1. L!LdapTypeOK'
  <2>1. LP!LdapTypeOK'
    BY ConnectionStep, SameConnection, LP!TypeStep DEF Base
  <2>2. QED
    BY <2>1 DEF L!LdapTypeOK, LP!LdapTypeOK, L!Lookup, LP!Lookup, L!Steps, LP!Steps,
       L!Ops, LP!Ops
<1>2. PoolTypes' /\ Placed'
  <2>1. CASE UNCHANGED vars
    BY <2>1 DEF vars, serviceVars, setting, poolVars, Base, PoolTypes, Placed
  <2>2. QED  BY <2>1, PoolStep, AroundStep DEF Next
<1>3. QED  BY <1>1, <1>2 DEF Base

\* The invariant of the connection holds inside the worker.
LEMMA ConnectionHolds == Spec => [](Base /\ LP!IInv)
<1>1. Init => LP!IInv
  BY LP!InitIInv, SameConnection DEF Init
<1>2. Base /\ LP!IInv /\ [Next]_vars => LP!IInv'
  BY ConnectionStep, SameConnection, LP!TypeStep, LP!EntriesStep, LP!LookupStep DEF LP!IInv
<1>3. QED  BY <1>1, <1>2, InitBase, BaseStep, PTL DEF Spec

-----------------------------------------------------------------------------
(***************************************************************************)
(* A request and its lookups.                                              *)
(***************************************************************************)
Account(t) == AccountOf[Client(t)]

\* A lookup is for the client that is served; the second one follows a first
\* that found nothing; and what is found is something.
Asks(t) == lookup[t].step # "idle" =>
    /\ at[t] \in {"hook", "provider"} /\ "ldap" \in configured
    /\ lookup[t].account = {Account(t)}
    /\ lookup[t].op = "computer" /\ t \notin mixed /\ link = "bound" =>
        Account(t) \notin UserAccounts
    /\ lookup[t].step = "found" => found[t] # {}

Own(t) == {Account(t)} \cap (UserAccounts \cup ComputerAccounts)

\* The groups are the client's own, of nobody or unknown.
Knows(t) == Authenticated(t) /\ "ldap" \in configured /\ t \notin mixed =>
    /\ groups[t] \subseteq {{}, Own(t)}
    /\ link = "bound" => groups[t] = {Own(t)}

Request(t) == Asks(t) /\ Knows(t)

Strong == Base /\ LP!IInv

\* What does not concern a thread or its lookup changes neither.
LEMMA RequestFrame ==
  ASSUME NEW u \in Threads, Request(u), UNCHANGED <<configured, path>>,
         link' = link \/ link' # "bound",
         lookup'[u] = lookup[u], at'[u] = at[u], serving'[u] = serving[u],
         groups'[u] = groups[u], found'[u] = found[u], u \in mixed <=> u \in mixed'
  PROVE  Request(u)'
  BY DEF Request, Asks, Knows, Authenticated, Own, Account, Client, Serves

\* A thread does not disturb the request of another.
LEMMA OthersKeep ==
  ASSUME Strong, NEW t \in Threads, NEW u \in Threads, u # t, Request(u),
         Run(t) \/ EjbcaAnswers(t)
  PROVE  Request(u)'
<1>0. PoolTypes /\ L!LdapTypeOK
  BY DEF Strong, Base
<1>1. CASE LookUpOn(t)
  <2>1. /\ lookup'[u] = lookup[u] /\ found'[u] = found[u]
        /\ link' = link \/ link' # "bound"
    BY <1>0, <1>1 DEF LookUpOn, L!Advance, L!Search, L!SearchFails, L!NotConnected, L!Test,
         L!TakeFirst, L!Goto, L!LdapTypeOK
  <2>2. QED  BY <1>1, <2>1, RequestFrame DEF LookUpOn, serviceVars, setting, poolVars
<1>2. CASE LookUpUser(t) \/ LookUpComputer(t) \/ Resolve(t)
  <2>1. /\ lookup'[u] = lookup[u] /\ found'[u] = found[u] /\ link' = link
        /\ u \in mixed <=> u \in mixed'
    BY <1>0, <1>2 DEF LookUpUser, LookUpComputer, LookUp, Resolve, NoteCrossing, L!Start,
         L!Finish, L!LdapTypeOK
  <2>2. /\ UNCHANGED <<configured, path>> /\ serving'[u] = serving[u]
        /\ at'[u] = at[u] /\ groups'[u] = groups[u]
    BY <1>0, <1>2 DEF LookUpUser, LookUpComputer, LookUp, Resolve, Known, Goto, PoolTypes,
         serviceVars, setting
  <2>3. QED  BY <2>1, <2>2, RequestFrame
<1>3. CASE Take(t) \/ NoDirectory(t) \/ Return(t) \/ EjbcaAnswers(t) \/ TimeOut(t)
  BY <1>0, <1>3, RequestFrame DEF Take, NoDirectory, Return, EjbcaAnswers, TimeOut, Answer, Goto,
       PoolTypes, serviceVars, setting, ldapVars
<1>4. CASE Alive(t) \/ WithoutEjbca(t) \/ CallEjbca(t) \/ AskProvider(t)
  BY <1>0, <1>4, RequestFrame DEF Alive, WithoutEjbca, CallEjbca, AskProvider, Enter, Answer, Goto,
       PoolTypes, serviceVars, setting, ldapVars
<1>5. CASE CachedPolicies(t) \/ NewPolicies(t)
  BY <1>0, <1>5, RequestFrame DEF CachedPolicies, NewPolicies, Enter, Answer, Goto,
       PoolTypes, serviceVars, setting, ldapVars
<1>6. QED  BY <1>1, <1>2, <1>3, <1>4, <1>5 DEF Run, Endpoint

\* What an uncrossed lookup came to, in the words of the worker.
LEMMA LookupEnds ==
  ASSUME Strong, NEW t \in Threads, Asks(t), lookup[t].step \in {"found", "missing", "raised"},
         t \notin crossed
  PROVE  LET l == lookup[t]
             listed == {Account(t)} \cap (IF l.op = "user" THEN UserAccounts ELSE ComputerAccounts)
         IN /\ found[t] \subseteq listed
            /\ link = "bound" => l.step # "raised" /\ (l.step = "found" <=> listed # {})
<1>1. LP!LookupIsOwn
  BY DEF Strong, LP!IInv
<1>2. LP!Listed(lookup[t]) =
        {Account(t)} \cap (IF lookup[t].op = "user" THEN UserAccounts ELSE ComputerAccounts)
  BY DEF LP!Listed, LP!Matches, Asks
<1>3. QED  BY <1>1, <1>2 DEF LP!LookupIsOwn, LP!At, LP!Ended

\* The steps of its own lookups do not, either.
LEMMA LookUpKeeps ==
  ASSUME Strong, NEW t \in Threads, Request(t), LookUpUser(t) \/ LookUpComputer(t) \/ LookUpOn(t)
  PROVE  Request(t)'
<1>0. PoolTypes /\ L!LdapTypeOK /\ Asks(t)
  BY DEF Strong, Base, Request
<1>1. CASE LookUpUser(t)
  <2>1. lookup'[t] = [step |-> "search", op |-> "user", account |-> {Account(t)}]
    BY <1>0, <1>1 DEF LookUpUser, LookUp, L!Start, L!LdapTypeOK, Account
  <2>2. /\ at[t] \in {"hook", "provider"} /\ "ldap" \in configured
        /\ UNCHANGED <<configured, path, serving, at>>
    BY <1>1 DEF LookUpUser, LookUp, serviceVars, setting
  <2>3. QED
    BY <2>1, <2>2 DEF Request, Asks, Knows, Authenticated, Account, Client
<1>2. CASE LookUpComputer(t)
  <2>1. lookup'[t] = [step |-> "search", op |-> "computer", account |-> {Account(t)}]
    BY <1>0, <1>2 DEF LookUpComputer, LookUp, L!Start, L!LdapTypeOK, Account
  <2>2. /\ at[t] \in {"hook", "provider"} /\ "ldap" \in configured
        /\ UNCHANGED <<configured, path, serving, at, link>>
        /\ mixed' = mixed \cup (crossed \cap {t})
        /\ lookup[t].step = "missing" /\ lookup[t].op = "user"
    BY <1>2 DEF LookUpComputer, LookUp, L!Start, L!At, NoteCrossing, serviceVars, setting
  <2>3. t \notin mixed' /\ link = "bound" => Account(t) \notin UserAccounts
    BY <1>0, <2>2, LookupEnds
  <2>4. QED
    BY <2>1, <2>2, <2>3 DEF Request, Asks, Knows, Authenticated, Account, Client
<1>3. CASE LookUpOn(t)
  <2>1. /\ lookup[t].step \in {"search", "test", "take"}
        /\ link' = "bound" => link = "bound"
        /\ lookup'[t].op = lookup[t].op /\ lookup'[t].account = lookup[t].account
        /\ lookup'[t].step = "found" => found'[t] # {}
    BY <1>0, <1>3 DEF LookUpOn, L!Advance, L!Search, L!SearchFails, L!NotConnected, L!Test,
         L!TakeFirst, L!Goto, L!At, L!LdapTypeOK, L!Lookup
  <2>2. UNCHANGED <<configured, path, serving, at, mixed>>
    BY <1>3 DEF LookUpOn, serviceVars, setting, poolVars
  <2>3. QED
    BY <1>0, <2>1, <2>2 DEF Request, Asks, Knows, Authenticated, Account, Client
<1>4. QED  BY <1>1, <1>2, <1>3

\* The two lookups together give the client's groups.
LEMMA ResolveKnows ==
  ASSUME Strong, NEW t \in Threads, Request(t), Resolve(t)
  PROVE  Request(t)'
<1>0. PoolTypes /\ L!LdapTypeOK /\ Asks(t)
  BY DEF Strong, Base, Request
<1>1. /\ UNCHANGED <<configured, path, serving, link>>
      /\ mixed' = mixed \cup (crossed \cap {t})
      /\ lookup'[t].step = "idle" /\ lookup[t].step \in {"found", "missing", "raised"}
  BY <1>0 DEF Resolve, L!Finish, L!At, L!NoLookup, L!LdapTypeOK, NoteCrossing, serviceVars, setting
<1>2. \/ lookup[t].step = "found" /\ groups'[t] = {found[t]}
      \/ lookup[t].step = "missing" /\ lookup[t].op = "computer" /\ groups'[t] = {{}}
      \/ lookup[t].step = "raised" /\ groups'[t] \in {{}, {{}}}
  BY <1>0 DEF Resolve, L!At, Known, PoolTypes
<1>3. ASSUME t \notin mixed'
      PROVE  /\ groups'[t] \subseteq {{}, Own(t)}
             /\ link = "bound" => groups'[t] = {Own(t)}
  <2>1. t \notin crossed /\ t \notin mixed
    BY <1>1, <1>3
  <2>2. CASE lookup[t].op = "user"
    <3>1. /\ found[t] \subseteq {Account(t)} \cap UserAccounts
          /\ link = "bound" => lookup[t].step # "raised"
      BY <1>0, <1>1, <2>1, <2>2, LookupEnds
    <3>2. CASE lookup[t].step = "found"
      <4>1. found[t] = Own(t)
        BY <1>0, <3>1, <3>2 DEF Asks, Own
      <4>2. QED  BY <1>2, <3>2, <4>1
    <3>3. CASE lookup[t].step = "raised"
      BY <1>2, <3>1, <3>3
    <3>4. QED  BY <1>2, <2>2, <3>2, <3>3
  <2>3. CASE lookup[t].op # "user"
    <3>1. lookup[t].op = "computer"
      BY <1>0, <2>3 DEF L!LdapTypeOK, L!Lookup, L!Ops
    <3>2. /\ found[t] \subseteq {Account(t)} \cap ComputerAccounts
          /\ link = "bound" => /\ lookup[t].step # "raised"
                               /\ lookup[t].step = "found"
                                    <=> {Account(t)} \cap ComputerAccounts # {}
      BY <1>0, <1>1, <2>1, <2>3, LookupEnds
    <3>3. link = "bound" => Account(t) \notin UserAccounts
      BY <1>0, <1>1, <2>1, <3>1 DEF Asks
    <3>4. CASE lookup[t].step = "found"
      <4>1. found[t] = Own(t)
        BY <1>0, <3>2, <3>4 DEF Asks, Own
      <4>2. QED  BY <1>2, <3>4, <4>1
    <3>5. CASE lookup[t].step = "missing"
      <4>1. link = "bound" => Own(t) = {}
        BY <3>2, <3>3, <3>5 DEF Own
      <4>2. QED  BY <1>2, <3>5, <4>1
    <3>6. CASE lookup[t].step = "raised"
      BY <1>2, <3>2, <3>6
    <3>7. QED  BY <1>2, <3>4, <3>5, <3>6
  <2>4. QED  BY <2>2, <2>3
<1>4. Own(t)' = Own(t)
  BY <1>1 DEF Own, Account, Client
<1>5. QED  BY <1>1, <1>3, <1>4 DEF Request, Asks, Knows

\* A thread at its own: the other steps of it make no lookup.
LEMMA SelfKeeps ==
  ASSUME Strong, NEW t \in Threads, Request(t), Run(t) \/ EjbcaAnswers(t)
  PROVE  Request(t)'
<1>0. PoolTypes /\ L!LdapTypeOK /\ Placed /\ Asks(t) /\ Knows(t)
  BY DEF Strong, Base, Request
<1>1. ASSUME UNCHANGED <<configured, lookup>>, lookup[t].step = "idle",
             at'[t] \notin {"endpoint", "building"}
      PROVE  Request(t)'
  BY <1>1 DEF Request, Asks, Knows, Authenticated
<1>2. CASE Take(t)
  <2>1. UNCHANGED <<configured, path, lookup>> /\ lookup[t].step = "idle"
    BY <1>0, <1>2 DEF Take, Asks, serviceVars, setting, ldapVars
  <2>2. /\ serving'[t] = {Head(queue)}
        /\ at'[t] = IF path[Head(queue)] \in {"readyz", "health"} THEN "endpoint" ELSE "hook"
    BY <1>0, <1>2 DEF Take, Goto, PoolTypes
  <2>3. ~Authenticated(t)'
    BY <2>1, <2>2 DEF Authenticated, Serves
  <2>4. QED  BY <2>1, <2>3 DEF Request, Asks, Knows
<1>3. CASE NoDirectory(t)
  BY <1>0, <1>3 DEF NoDirectory, Request, Asks, Knows, serviceVars, setting, ldapVars
<1>4. CASE Alive(t) \/ WithoutEjbca(t) \/ CallEjbca(t)
  BY <1>0, <1>1, <1>4 DEF Alive, WithoutEjbca, CallEjbca, Enter, Answer, Goto, PoolTypes, Asks,
       serviceVars, setting, ldapVars
<1>5. CASE CachedPolicies(t) \/ NewPolicies(t)
  BY <1>0, <1>1, <1>5 DEF CachedPolicies, NewPolicies, Enter, Answer, Goto, PoolTypes, Asks,
       serviceVars, setting, ldapVars
<1>6. CASE AskProvider(t)
  <2>1. UNCHANGED <<configured, path, serving, groups, mixed, ldapVars>>
    BY <1>6 DEF AskProvider, serviceVars, setting
  <2>2. at[t] = "endpoint" /\ Serves(t, "cep") /\ at'[t] \in {"provider", "building"}
    BY <1>0, <1>6 DEF AskProvider, Goto, PoolTypes
  <2>3. lookup[t].step = "idle"
    BY <1>0, <2>2 DEF Asks
  <2>4. Authenticated(t)
    BY <2>2 DEF Authenticated
  <2>5. Asks(t)'
    BY <2>1, <2>3 DEF Asks, ldapVars
  <2>6. Own(t)' = Own(t)
    BY <2>1 DEF Own, Account, Client
  <2>7. Knows(t)'
    BY <1>0, <2>1, <2>4, <2>6 DEF Knows, ldapVars
  <2>8. QED  BY <2>5, <2>7 DEF Request
<1>7. CASE TimeOut(t) \/ EjbcaAnswers(t)
  <2>1. UNCHANGED <<configured, lookup>> /\ at[t] = "calling"
    BY <1>7 DEF TimeOut, EjbcaAnswers, serviceVars, setting, ldapVars
  <2>2. at'[t] \in {"calling", "answering"}
    BY <1>0, <1>7 DEF TimeOut, EjbcaAnswers, Answer, Goto, PoolTypes
  <2>3. QED  BY <1>0, <1>1, <2>1, <2>2 DEF Asks
<1>8. CASE Return(t)
  BY <1>0, <1>1, <1>8 DEF Return, Goto, PoolTypes, Asks, serviceVars, setting, ldapVars
<1>9. QED
  BY <1>2, <1>3, <1>4, <1>5, <1>6, <1>7, <1>8, LookUpKeeps, ResolveKnows DEF Run, Endpoint, Request

\* Every step keeps what is said of all requests.
LEMMA RequestsStep ==
  ASSUME Strong, \A t \in Threads : Request(t), [Next]_vars
  PROVE  \A u \in Threads : Request(u)'
<1>0. PoolTypes /\ L!LdapTypeOK
  BY DEF Strong, Base
<1>1. ASSUME NEW t \in Threads, Run(t) \/ EjbcaAnswers(t)
      PROVE  \A u \in Threads : Request(u)'
  BY <1>1, SelfKeeps, OthersKeep
<1>2. ASSUME UNCHANGED <<configured, path, serving, at, groups, mixed, lookup, found>>,
             link' = link \/ link' # "bound"
      PROVE  \A u \in Threads : Request(u)'
  BY <1>2, RequestFrame
<1>3. CASE \E c \in Clients : Arrive(c)
  BY <1>2, <1>3 DEF Arrive, serviceVars, setting, ldapVars
<1>4. CASE LoseDirectory
  BY <1>2, <1>4 DEF LoseDirectory, L!Drop, serviceVars, setting, poolVars
<1>5. CASE Expire
  BY <1>2, <1>5 DEF Expire, setting, poolVars, ldapVars
<1>6. CASE Restart
  BY <1>6 DEF Restart, L!Renew, L!NoLookup, Request, Asks, Knows, Authenticated
<1>7. CASE UNCHANGED vars
  BY <1>2, <1>7 DEF vars, serviceVars, setting, poolVars, ldapVars
<1>8. QED  BY <1>1, <1>3, <1>4, <1>5, <1>6, <1>7 DEF Next

\* A request is handled with the groups of its own account, of nobody or of
\* an unknown one, and exactly its own while the connection is up, whatever
\* the other threads of the worker do, unless one searched in the middle of
\* one of its lookups.
THEOREM GroupsOwned == Spec => []OwnGroups
<1> DEFINE Requests == \A t \in Threads : Request(t)
<1>1. Init => Requests
  <2>1. ASSUME Init, NEW t \in Threads  PROVE Request(t)
    <3>1. lookup[t].step = "idle" /\ at[t] = "free"
      BY <2>1 DEF Init, L!LdapInit, L!NoLookup
    <3>2. QED  BY <3>1 DEF Request, Asks, Knows, Authenticated
  <2>2. QED  BY <2>1
<1>2. Requests => OwnGroups
  BY DEF Request, Knows, Own, Account, OwnGroups
<1>3. Base /\ LP!IInv /\ Requests /\ [Next]_vars => Requests'
  BY RequestsStep DEF Strong
<1> HIDE DEF Requests
<1>4. QED  BY <1>1, <1>2, <1>3, ConnectionHolds, PTL DEF Spec

-----------------------------------------------------------------------------
\* Cached responses of this life say of the CA what the worker knows.
CacheOfThisLife ==
    \A c \in Clients : \A r \in cache[c] : r.life = "this" => r.ca = certified

\* Every step keeps what responses say of the CA.
LEMMA LifeStep ==
  ASSUME Base, CacheOfThisLife, CaOfThisLife, [Next]_vars
  PROVE  CacheOfThisLife' /\ CaOfThisLife'
<1>0. PoolTypes /\ Placed
  BY DEF Base
<1>1. ASSUME UNCHANGED <<certified, cache>>,
             \A u \in Threads : response'[u] \subseteq response[u]
      PROVE  CacheOfThisLife' /\ CaOfThisLife'
  BY <1>1 DEF CacheOfThisLife, CaOfThisLife
<1>2. ASSUME NEW t \in Threads,
             Take(t) \/ NoDirectory(t) \/ LookUpUser(t) \/ LookUpComputer(t) \/ LookUpOn(t)
                \/ Resolve(t) \/ AskProvider(t) \/ CallEjbca(t)
      PROVE  CacheOfThisLife' /\ CaOfThisLife'
  BY <1>1, <1>2 DEF Take, NoDirectory, LookUpUser, LookUpComputer, LookUp, LookUpOn, Resolve,
       AskProvider, CallEjbca, serviceVars, poolVars
<1>3. ASSUME NEW t \in Threads,
             Alive(t) \/ WithoutEjbca(t) \/ TimeOut(t) \/ EjbcaAnswers(t) \/ Return(t)
      PROVE  CacheOfThisLife' /\ CaOfThisLife'
  BY <1>0, <1>1, <1>3 DEF Alive, WithoutEjbca, TimeOut, EjbcaAnswers, Return, Answer,
       PoolTypes, serviceVars
<1>4. ASSUME NEW t \in Threads, CachedPolicies(t)
      PROVE  CacheOfThisLife' /\ CaOfThisLife'
  <2>1. UNCHANGED <<certified, cache>> /\ response' = [response EXCEPT ![t] = cache[Client(t)]]
    BY <1>4 DEF CachedPolicies, Answer, serviceVars
  <2>2. Client(t) \in Clients
    BY <1>0, <1>4, ClientServed DEF CachedPolicies, Enter
  <2>3. QED  BY <1>0, <2>1, <2>2 DEF PoolTypes, CacheOfThisLife, CaOfThisLife
<1>5. ASSUME NEW t \in Threads, NewPolicies(t)
      PROVE  CacheOfThisLife' /\ CaOfThisLife'
  <2>1. /\ certified' = certified
        /\ response' = [response EXCEPT ![t] = {Policies(certified, "this")}]
        /\ cache' = [cache EXCEPT ![Client(t)] = {Policies(certified, "this")}]
    BY <1>5 DEF NewPolicies, Answer
  <2>2. Policies(certified, "this").ca = certified
    BY DEF Policies
  <2>3. QED  BY <1>0, <2>1, <2>2 DEF PoolTypes, CacheOfThisLife, CaOfThisLife
<1>6. CASE (\E c \in Clients : Arrive(c)) \/ LoseDirectory
  BY <1>1, <1>6 DEF Arrive, LoseDirectory, serviceVars, poolVars
<1>7. CASE Expire
  BY <1>0, <1>7 DEF Expire, PoolTypes, CacheOfThisLife, CaOfThisLife, poolVars
<1>8. CASE Restart
  <2>1. \A r \in CachedResponse : [r EXCEPT !.life = "earlier"].life = "earlier"
    BY DEF CachedResponse
  <2>2. CacheOfThisLife'
    BY <1>0, <1>8, <2>1 DEF Restart, PoolTypes, CacheOfThisLife
  <2>3. QED  BY <1>8, <2>2 DEF Restart, CaOfThisLife
<1>9. CASE UNCHANGED vars
  BY <1>1, <1>9 DEF vars, serviceVars, poolVars
<1>10. QED
  BY <1>2, <1>3, <1>4, <1>5, <1>6, <1>7, <1>8, <1>9 DEF Next, Run, Endpoint

\* The CA certificate in an answer is the one the worker got when it started,
\* or the answer is older than the worker.
THEOREM CaOfStart == Spec => []CaOfThisLife
<1>1. Init => CacheOfThisLife /\ CaOfThisLife
  BY DEF Init, CacheOfThisLife, CaOfThisLife
<1>2. QED  BY <1>1, ConnectionHolds, LifeStep, PTL DEF Spec

\* Types, for any pool and configuration.
THEOREM Typing == Spec => []TypeOK
<1>1. Base => TypeOK
  BY DEF Base, PoolTypes, TypeOK
<1>2. QED  BY <1>1, ConnectionHolds, PTL
=============================================================================
