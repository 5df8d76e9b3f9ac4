------------------------------ MODULE LdapClient ------------------------------
(***************************************************************************)
(* ADLDAPClient (src/ad/ldap_client.py) in the hands of several threads:   *)
(* one connection, whose entries are those of the last search that anyone  *)
(* made on it.  A lookup searches, tests whether there are entries and     *)
(* takes the first, and asks for the connection anew at each of the three. *)
(* connect may have been called, or not, as the server leaves it.          *)
(*                                                                         *)
(* The lookups the server makes are get_user_by_principal and              *)
(* get_computer_by_name; the other queries of the class have this shape.   *)
(***************************************************************************)
CONSTANTS
    Threads,            \* that share the client
    Accounts,           \* names that are looked up
    UserAccounts,       \* those (objectClass=user) finds
    ComputerAccounts    \* those (objectClass=computer) finds

VARIABLES
    link,       \* "none", "bound", "broken" (bound, but dead) or "closed"
    entries,    \* of the last search: {} or {an account}
    lookup,     \* what each thread looks up, and how far it got
    found,      \* what it found: {} or {the account of the entry}
    crossed     \* history: lookups since whose search another one searched

ldapVars == <<link, entries, lookup, found, crossed>>

Ops   == {"user", "computer"}
Steps == {"idle", "search", "test", "take", "found", "missing", "raised"}
Ended == {"found", "missing", "raised"}
NoLookup == [step |-> "idle", op |-> "user", account |-> {}]
Lookup   == [step : Steps, op : Ops, account : {{}} \cup {{a} : a \in Accounts}]

\* The names that differ in their search filter.
Matches(op) == IF op = "user" THEN UserAccounts ELSE ComputerAccounts

\* What the directory has for a lookup.
Listed(l) == l.account \cap Matches(l.op)

LdapInit ==
    /\ link \in {"none", "bound"}
    /\ entries = {}
    /\ lookup = [t \in Threads |-> NoLookup]
    /\ found = [t \in Threads |-> {}]
    /\ crossed = {}

At(t, step) == lookup[t].step = step
Goto(t, step) == lookup' = [lookup EXCEPT ![t].step = step]

-----------------------------------------------------------------------------
Start(t, op, a) ==
    /\ At(t, "idle") \/ At(t, "missing")
    /\ lookup' = [lookup EXCEPT ![t] = [step |-> "search", op |-> op, account |-> {a}]]
    /\ found' = [found EXCEPT ![t] = {}]
    /\ crossed' = crossed \ {t}
    /\ UNCHANGED <<link, entries>>

\* The connection property: bound is what the client last knew.
Usable == link \in {"bound", "broken"}

Reading == {t \in Threads : lookup[t].step \in {"test", "take"}}

Search(t) ==
    /\ At(t, "search") /\ link = "bound"
    /\ entries' = Listed(lookup[t])
    /\ Goto(t, "test")
    /\ crossed' = crossed \cup (Reading \ {t})
    /\ UNCHANGED <<link, found>>

\* Mutant: the entries are looked at whether the search came back or not.
SearchFailsUnnoticed(t) ==
    /\ At(t, "search") /\ link = "broken"
    /\ Goto(t, "test")
    /\ link' \in {"broken", "closed"}
    /\ UNCHANGED <<entries, found, crossed>>

\* An LDAPException is logged and counts as not found.  It may leave the
\* connection unbound.
SearchFails(t) ==
    /\ At(t, "search") /\ link = "broken"
    /\ Goto(t, "missing")
    /\ link' \in {"broken", "closed"}
    /\ UNCHANGED <<entries, found, crossed>>

\* "Not connected to LDAP server": not an LDAPException, so it is not caught.
NotConnected(t) ==
    /\ lookup[t].step \in {"search", "test", "take"} /\ ~Usable
    /\ Goto(t, "raised")
    /\ UNCHANGED <<link, entries, found, crossed>>

Test(t) ==
    /\ At(t, "test") /\ Usable
    /\ Goto(t, IF entries = {} THEN "missing" ELSE "take")
    /\ UNCHANGED <<link, entries, found, crossed>>

\* entries[0], or an IndexError.
TakeFirst(t) ==
    /\ At(t, "take") /\ Usable
    /\ found' = [found EXCEPT ![t] = entries]
    /\ Goto(t, IF entries = {} THEN "raised" ELSE "found")
    /\ UNCHANGED <<link, entries, crossed>>

Finish(t) ==
    /\ lookup[t].step \in Ended
    /\ lookup' = [lookup EXCEPT ![t] = NoLookup]
    /\ found' = [found EXCEPT ![t] = {}]
    /\ crossed' = crossed \ {t}
    /\ UNCHANGED <<link, entries>>

\* The directory drops the connection.  Nothing binds it again.
Drop ==
    /\ link = "bound"
    /\ link' \in {"broken", "closed"}
    /\ UNCHANGED <<entries, lookup, found, crossed>>

\* The process starts again, with a client of its own.
Renew ==
    /\ link' \in {"none", "bound"}
    /\ entries' = {}
    /\ lookup' = [t \in Threads |-> NoLookup]
    /\ found' = [t \in Threads |-> {}]
    /\ crossed' = {}

Advance(t) ==
    \/ Search(t) \/ SearchFails(t) \/ NotConnected(t) \/ Test(t) \/ TakeFirst(t)

LdapNext ==
    \/ \E t \in Threads :
        \/ Advance(t) \/ Finish(t)
        \/ \E op \in Ops, a \in Accounts : Start(t, op, a)
    \/ Drop \/ Renew

LdapSpec == LdapInit /\ [][LdapNext]_ldapVars

-----------------------------------------------------------------------------
LdapTypeOK ==
    /\ link \in {"none", "bound", "broken", "closed"}
    /\ entries \subseteq Accounts
    /\ lookup \in [Threads -> Lookup]
    /\ found \in [Threads -> SUBSET Accounts]
    /\ crossed \subseteq Threads

\* A lookup finds the account it asked for or none, and while the connection
\* is up what the directory has, and does not raise, unless another thread
\* searched between its search and its last look at the entries.
LookupIsOwn ==
    \A t \in Threads \ crossed :
        /\ found[t] \subseteq Listed(lookup[t])
        /\ link = "bound" /\ lookup[t].step \in Ended =>
            ~At(t, "raised") /\ (At(t, "found") <=> Listed(lookup[t]) # {})

\* Why it holds: the entries are those of the search of a thread that is
\* reading them and was not crossed.
EntriesAreOwn ==
    \A t \in Threads \ crossed :
        /\ lookup[t].step \in {"test", "take"} => entries = Listed(lookup[t])
        /\ At(t, "take") => entries # {}
=============================================================================
