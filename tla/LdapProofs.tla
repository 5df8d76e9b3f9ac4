------------------------------ MODULE LdapProofs ------------------------------
(***************************************************************************)
(* LookupIsOwn holds for every number of threads and every directory.  Its *)
(* strengthening is EntriesAreOwn: a thread that reads the entries and was *)
(* not crossed reads those of its own search.                              *)
(***************************************************************************)
EXTENDS LdapClient, TLAPS

IInv == LdapTypeOK /\ EntriesAreOwn /\ LookupIsOwn

\* The connection client, before anyone looked anything up, has the invariant.
LEMMA InitIInv == LdapInit => IInv
  BY DEF LdapInit, IInv, LdapTypeOK, EntriesAreOwn, LookupIsOwn, NoLookup, Lookup,
         Steps, Ops, Ended, At, Listed

\* Every step of a lookup, an end of the connection and a restart keep types.
LEMMA TypeStep == LdapTypeOK /\ [LdapNext]_ldapVars => LdapTypeOK'
<1> SUFFICES ASSUME LdapTypeOK, [LdapNext]_ldapVars PROVE LdapTypeOK'
  OBVIOUS
<1> USE DEF LdapTypeOK, Lookup, Steps, Ops
<1>1. ASSUME NEW t \in Threads, NEW op \in Ops, NEW a \in Accounts, Start(t, op, a)
      PROVE  LdapTypeOK'
  BY <1>1 DEF Start
<1>2. ASSUME NEW t \in Threads, Search(t) PROVE LdapTypeOK'
  <2>1. Listed(lookup[t]) \subseteq Accounts
    BY DEF Listed
  <2>2. QED  BY <1>2, <2>1 DEF Search, Goto, Reading
<1>3. ASSUME NEW t \in Threads, SearchFails(t) PROVE LdapTypeOK'
  BY <1>3 DEF SearchFails, Goto
<1>4. ASSUME NEW t \in Threads, NotConnected(t) PROVE LdapTypeOK'
  BY <1>4 DEF NotConnected, Goto
<1>5. ASSUME NEW t \in Threads, Test(t) PROVE LdapTypeOK'
  BY <1>5 DEF Test, Goto
<1>6. ASSUME NEW t \in Threads, TakeFirst(t) PROVE LdapTypeOK'
  BY <1>6 DEF TakeFirst, Goto
<1>7. ASSUME NEW t \in Threads, Finish(t) PROVE LdapTypeOK'
  BY <1>7 DEF Finish, NoLookup
<1>8. CASE Drop
  BY <1>8 DEF Drop
<1>9. CASE Renew
  BY <1>9 DEF Renew, NoLookup
<1>10. CASE UNCHANGED ldapVars
  BY <1>10 DEF ldapVars
<1>11. QED
  BY <1>1, <1>2, <1>3, <1>4, <1>5, <1>6, <1>7, <1>8, <1>9, <1>10 DEF LdapNext, Advance

\* Entries change by a search only, and a search crosses whoever reads them.
LEMMA EntriesStep == IInv /\ [LdapNext]_ldapVars => EntriesAreOwn'
<1> SUFFICES ASSUME IInv, [LdapNext]_ldapVars, NEW s \in Threads, s \notin crossed'
             PROVE  /\ lookup'[s].step \in {"test", "take"} => entries' = Listed(lookup[s])'
                    /\ lookup'[s].step = "take" => entries' # {}
  BY DEF EntriesAreOwn, At
<1> USE DEF IInv, LdapTypeOK, Lookup, EntriesAreOwn, At, Listed, Matches
<1>1. ASSUME NEW t \in Threads, NEW op \in Ops, NEW a \in Accounts, Start(t, op, a)
      PROVE  /\ lookup'[s].step \in {"test", "take"} => entries' = Listed(lookup[s])'
             /\ lookup'[s].step = "take" => entries' # {}
  BY <1>1 DEF Start
<1>2. ASSUME NEW t \in Threads, Search(t)
      PROVE  /\ lookup'[s].step \in {"test", "take"} => entries' = Listed(lookup[s])'
             /\ lookup'[s].step = "take" => entries' # {}
  <2>1. CASE s = t
    BY <1>2, <2>1 DEF Search, Goto
  <2>2. CASE s # t
    BY <1>2, <2>2 DEF Search, Goto, Reading
  <2>3. QED  BY <2>1, <2>2
<1>3. ASSUME NEW t \in Threads, SearchFails(t) \/ NotConnected(t) \/ Test(t) \/ TakeFirst(t)
      PROVE  /\ lookup'[s].step \in {"test", "take"} => entries' = Listed(lookup[s])'
             /\ lookup'[s].step = "take" => entries' # {}
  BY <1>3 DEF SearchFails, NotConnected, Test, TakeFirst, Goto
<1>4. ASSUME NEW t \in Threads, Finish(t)
      PROVE  /\ lookup'[s].step \in {"test", "take"} => entries' = Listed(lookup[s])'
             /\ lookup'[s].step = "take" => entries' # {}
  BY <1>4 DEF Finish, NoLookup
<1>5. CASE Drop
  BY <1>5 DEF Drop
<1>6. CASE Renew
  BY <1>6 DEF Renew, NoLookup
<1>7. CASE UNCHANGED ldapVars
  BY <1>7 DEF ldapVars
<1>8. QED  BY <1>1, <1>2, <1>3, <1>4, <1>5, <1>6, <1>7 DEF LdapNext, Advance

Owned(s) ==
    /\ found[s] \subseteq Listed(lookup[s])
    /\ link = "bound" /\ lookup[s].step \in Ended =>
        ~At(s, "raised") /\ (At(s, "found") <=> Listed(lookup[s]) # {})

\* A thread that was not crossed finds what its own search found.
LEMMA LookupStep == IInv /\ [LdapNext]_ldapVars => LookupIsOwn'
<1> SUFFICES ASSUME IInv, [LdapNext]_ldapVars, NEW s \in Threads, s \notin crossed'
             PROVE  Owned(s)'
  BY DEF LookupIsOwn, Owned
<1> USE DEF IInv, LdapTypeOK, Lookup, EntriesAreOwn, LookupIsOwn, Owned, At, Listed,
            Matches, Ended
<1>1. ASSUME NEW t \in Threads, NEW op \in Ops, NEW a \in Accounts, Start(t, op, a)
      PROVE  Owned(s)'
  BY <1>1 DEF Start
<1>2. ASSUME NEW t \in Threads, Search(t) PROVE Owned(s)'
  BY <1>2 DEF Search, Goto
<1>3. ASSUME NEW t \in Threads, SearchFails(t) PROVE Owned(s)'
  BY <1>3 DEF SearchFails, Goto
<1>4. ASSUME NEW t \in Threads, NotConnected(t) PROVE Owned(s)'
  BY <1>4 DEF NotConnected, Usable, Goto
<1>5. ASSUME NEW t \in Threads, Test(t) PROVE Owned(s)'
  BY <1>5 DEF Test, Goto
<1>6. ASSUME NEW t \in Threads, TakeFirst(t) PROVE Owned(s)'
  BY <1>6 DEF TakeFirst, Goto
<1>7. ASSUME NEW t \in Threads, Finish(t) PROVE Owned(s)'
  BY <1>7 DEF Finish, NoLookup
<1>8. CASE Drop
  BY <1>8 DEF Drop
<1>9. CASE Renew
  BY <1>9 DEF Renew, NoLookup
<1>10. CASE UNCHANGED ldapVars
  BY <1>10 DEF ldapVars
<1>11. QED
  BY <1>1, <1>2, <1>3, <1>4, <1>5, <1>6, <1>7, <1>8, <1>9, <1>10 DEF LdapNext, Advance

\* However many threads share the connection, and however it ends: a lookup
\* that no other search crossed finds its own account or none, and, while the
\* connection is up, exactly what the directory has, without an exception.
THEOREM OwnLookups == LdapSpec => []LookupIsOwn
<1>1. LdapInit => IInv
  BY InitIInv
<1>2. IInv /\ [LdapNext]_ldapVars => IInv'
  BY TypeStep, EntriesStep, LookupStep DEF IInv
<1>3. IInv => LookupIsOwn
  BY DEF IInv
<1>4. QED
  BY <1>1, <1>2, <1>3, PTL DEF LdapSpec
=============================================================================
