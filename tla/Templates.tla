------------------------------- MODULE Templates -------------------------------
(***************************************************************************)
(* The template manager of src/ad/templates.py and the policy provider on  *)
(* top of it: the mapping file a worker loads when it starts, the policies *)
(* it lists to a client (MS-XCEP), and the check it makes when the client  *)
(* enrolls for one of them (MS-WSTEP).                                     *)
(*                                                                         *)
(* Names are compared after lower() or casefold(), so a name here is a     *)
(* class of names equal up to case.  A user's group is a distinguished     *)
(* name with the common name _extract_cn finds in it; an allowed group is  *)
(* either (the one with "=" in it is a distinguished name).                *)
(***************************************************************************)
EXTENDS Integers, Sequences

CONSTANTS
    Names,          \* template names
    GroupDns,       \* distinguished names of groups
    CnOf,           \* the common name of each, see _extract_cn
    MappingFiles,   \* the files an installation may have, sequences of entries
    DefaultNames    \* names of the default mappings, in order

CommonNames == {CnOf[g] : g \in GroupDns}

AllowedGroup == {<<"dn", g>> : g \in GroupDns} \cup {<<"cn", n>> : n \in CommonNames}

\* validity is the YAML value: a string of a number and a unit, a string that
\* is not one ("junk"), an integer, or no value.
Units == {"y", "mo", "d", "h", "s"}
SecondsIn == [y |-> 31536000, mo |-> 2592000, d |-> 86400, h |-> 3600, s |-> 1]
Validity == [kind : {"string"}, count : Int, unit : Units]
            \cup {[kind |-> k] : k \in {"junk", "integer", "none"}}

Mapping == [name : Names, oid : BOOLEAN, allowed : SUBSET AllowedGroup,
            validity : Validity]

\* An entry without ad_template, or whatever makes reading the file raise.
Malformed == [name |-> "malformed"]

ASSUME FilesAssumption ==
    /\ MappingFiles \subseteq Seq(Mapping \cup {Malformed})
    /\ DefaultNames \in Seq(Names)

-----------------------------------------------------------------------------
(***************************************************************************)
(* _load_mappings: the dict keeps the position of the first mapping of a   *)
(* name and the value of the last one.                                     *)
(***************************************************************************)
\* Mutant: a list instead of a dict.
PutAgain(mappings, m) == Append(mappings, m)

Put(mappings, m) ==
    IF \E i \in DOMAIN mappings : mappings[i].name = m.name
    THEN [i \in DOMAIN mappings |-> IF mappings[i].name = m.name THEN m ELSE mappings[i]]
    ELSE Append(mappings, m)

PutAll(mappings, entries) ==
    LET put[n \in 0 .. Len(entries)] ==
            IF n = 0 THEN mappings ELSE Put(put[n - 1], entries[n])
    IN put[Len(entries)]

\* _create_default_mappings: no groups, no validity.
DefaultMapping(name) ==
    [name |-> name, oid |-> TRUE, allowed |-> {}, validity |-> [kind |-> "none"]]

AddDefaults(mappings) ==
    PutAll(mappings, [i \in 1 .. Len(DefaultNames) |-> DefaultMapping(DefaultNames[i])])

Broken(f) == \E i \in DOMAIN f : f[i] = Malformed

\* The position of the first entry that cannot be read.
Stop(f) == CHOOSE i \in DOMAIN f : /\ f[i] = Malformed
                                   /\ \A j \in DOMAIN f : j < i => f[j] # Malformed

\* Mutant: entries are taken as they are.
ReadUnchecked(f) == f

Readable(f) == IF Broken(f) THEN SubSeq(f, 1, Stop(f) - 1) ELSE f

\* An exception leaves the mappings read before it in place and adds the
\* default mappings to them, over those of the same name.
LoadMappings(f) ==
    LET read == PutAll(<<>>, Readable(f))
    IN IF Broken(f) THEN AddDefaults(read) ELSE read

-----------------------------------------------------------------------------
(***************************************************************************)
(* is_user_allowed.                                                        *)
(***************************************************************************)
NamesOf(groups) == {<<"dn", g>> : g \in groups} \cup {<<"cn", CnOf[g]>> : g \in groups}

IsUserAllowed(m, groups) ==
    m.allowed = {} \/ m.allowed \cap NamesOf(groups) # {}

\* _check_template_authorization: g.user_groups is {} when the directory
\* could not be asked, else {the groups}.
MayEnroll(m, userGroups) ==
    \/ m.allowed = {}
    \/ \E groups \in userGroups : IsUserAllowed(m, groups)

\* PolicyProvider._get_user_groups: groups the hook does not know are looked up
\* again, and a lookup that cannot be made or fails counts as no groups.
ProviderGroups(userGroups, again) ==
    UNION (IF userGroups # {} THEN userGroups ELSE again)

-----------------------------------------------------------------------------
(***************************************************************************)
(* get_policies_for_client.                                                *)
(***************************************************************************)
ParseValidity(v) ==
    IF v.kind = "string" THEN v.count * SecondsIn[v.unit] ELSE 31536000

ValidityOf(m) == IF m.validity.kind = "none" THEN 31536000 ELSE ParseValidity(m.validity)
RenewalOf(m) == IF m.validity.kind = "none" THEN 5184000 ELSE ValidityOf(m) \div 6

\* The common OIDs get the references 0 to 4.
CommonOids == [i \in 1 .. 5 |-> [ref |-> i - 1, name |-> "common"]]

\* Mutant: a client without groups is not checked.
IsListedUnchecked(m, groups) == (groups = {} \/ IsUserAllowed(m, groups)) /\ m.oid

IsListed(m, groups) == IsUserAllowed(m, groups) /\ m.oid

\* Mutant: references are counted from the first policy.
AddPolicyMisnumbered(response, m) ==
    LET ref == Len(response.policies)
    IN [oids     |-> Append(response.oids, [ref |-> ref, name |-> m.name]),
        policies |-> Append(response.policies,
                        [ref |-> ref, name |-> m.name, validity |-> ValidityOf(m),
                         renewal |-> RenewalOf(m)])]

AddPolicy(response, m) ==
    LET ref == Len(response.oids)
    IN [oids     |-> Append(response.oids, [ref |-> ref, name |-> m.name]),
        policies |-> Append(response.policies,
                        [ref |-> ref, name |-> m.name, validity |-> ValidityOf(m),
                         renewal |-> RenewalOf(m)])]

\* An integer validity has no endswith: the request ends in a fault.
Raises(mappings, groups) ==
    \E i \in DOMAIN mappings :
        IsListed(mappings[i], groups) /\ mappings[i].validity.kind = "integer"

Empty == [oids |-> CommonOids, policies |-> <<>>]

PoliciesForClient(mappings, groups) ==
    LET build[n \in 0 .. Len(mappings)] ==
            IF n = 0 THEN Empty
            ELSE IF IsListed(mappings[n], groups) THEN AddPolicy(build[n - 1], mappings[n])
            ELSE build[n - 1]
    IN build[Len(mappings)]

-----------------------------------------------------------------------------
(***************************************************************************)
(* A worker that loads its file and answers GetPolicies requests; the file *)
(* may be replaced, which a worker sees when it starts again.              *)
(***************************************************************************)
VARIABLES
    file,       \* the mapping file, {} when it is missing, else {the file}
    mappings,   \* TemplateManager.mappings of the worker
    asker,      \* g.user_groups of the last GetPolicies request
    again,      \* what the provider's own lookup found for it, {} for nothing
    response    \* the answer to it: {} before it, or after a fault

vars == <<file, mappings, asker, again, response>>

Loaded(f) == IF f = {} THEN AddDefaults(<<>>) ELSE LoadMappings(CHOOSE x \in f : TRUE)

Files == {{}} \cup {{f} : f \in MappingFiles}
UserGroups == {{}} \cup {{g} : g \in SUBSET GroupDns}

Start(f) ==
    /\ file' = f
    /\ mappings' = Loaded(f)
    /\ asker' = {} /\ again' = {}
    /\ response' = {}

Init ==
    /\ file \in Files
    /\ mappings = Loaded(file)
    /\ asker = {} /\ again = {}
    /\ response = {}

GetPolicies(userGroups, own) ==
    LET groups == ProviderGroups(userGroups, own)
    IN /\ userGroups # {} => own = {}
       /\ asker' = userGroups /\ again' = own
       /\ response' = IF Raises(mappings, groups) THEN {}
                      ELSE {PoliciesForClient(mappings, groups)}
       /\ UNCHANGED <<file, mappings>>

Next ==
    \/ \E f \in Files : f # file /\ Start(f)
    \/ \E userGroups, own \in UserGroups : GetPolicies(userGroups, own)

Spec == Init /\ [][Next]_vars

-----------------------------------------------------------------------------
TypeOK ==
    /\ file \in Files
    /\ \A i \in DOMAIN mappings : mappings[i] \in Mapping
    /\ asker \in UserGroups /\ again \in UserGroups
    /\ \A r \in response : \A i \in DOMAIN r.oids : r.oids[i].ref \in Nat

\* The reference of every policy is that of exactly one entry of the oIDs
\* collection, and that entry names its template: references stay in step with
\* the collection although mappings are skipped for groups or for want of an OID.
ReferencesResolve ==
    \A r \in response : \A i \in DOMAIN r.policies : \E j \in DOMAIN r.oids :
        /\ r.oids[j].name = r.policies[i].name
        /\ \A k \in DOMAIN r.oids : r.oids[k].ref = r.policies[i].ref <=> k = j

\* The templates with an OID that a client with such groups may enroll for.
Grants(userGroups) ==
    {mappings[i].name : i \in {k \in DOMAIN mappings :
                                 mappings[k].oid /\ MayEnroll(mappings[k], userGroups)}}

\* What MS-XCEP lists to a client is what MS-WSTEP lets it enroll for, for the
\* same g.user_groups: all of it, and nothing with an OID is missing.  The
\* exception is a directory that fails the hook and answers the provider, which
\* asks it again: the list then goes by the second answer, and its restricted
\* templates are denied to a request whose hook has no groups.
ListedIffEnrollable ==
    \A r \in response :
        LET listed == {r.policies[i].name : i \in DOMAIN r.policies}
        IN /\ listed = Grants(IF asker # {} THEN asker ELSE again)
           /\ Grants(asker) \subseteq listed

Occurs(name, entries) == \E i \in DOMAIN entries : entries[i].name = name

\* m is the last of the entries of its name.
LastOf(m, entries) ==
    \E i \in DOMAIN entries :
        /\ entries[i] = m
        /\ \A j \in DOMAIN entries : entries[j].name = m.name => j <= i

ReadableEntries == {Readable(f) : f \in file}
DefaultsUsed    == file = {} \/ \E f \in file : Broken(f)
IsDefault(name) == DefaultsUsed /\ \E i \in DOMAIN DefaultNames : DefaultNames[i] = name

\* A template has one mapping, and which one does not depend on where in the
\* file it first occurs: a default where the defaults were needed, be it
\* because the file breaks off half way, and else the last one that was read.
\* No template that was read is missing.
LastMappingWins ==
    /\ \A i, j \in DOMAIN mappings : mappings[i].name = mappings[j].name => i = j
    /\ \A i \in DOMAIN mappings :
        IF IsDefault(mappings[i].name)
        THEN mappings[i] = DefaultMapping(mappings[i].name)
        ELSE \E f \in ReadableEntries : LastOf(mappings[i], f)
    /\ \A name \in Names :
        IsDefault(name) \/ (\E f \in ReadableEntries : Occurs(name, f)) => Occurs(name, mappings)
=============================================================================
