------------------------------ MODULE MCTemplates ------------------------------
(* Three template names, two groups, files of up to three entries.           *)
EXTENDS Templates, TLC

CONSTANTS User, Server, Kiosk, staffDn, adminDn, staff, admins

MCCnOf == staffDn :> staff @@ adminDn :> admins
MCDefaultNames == <<User, Server>>

M(name, oid, allowed, validity) ==
    [name |-> name, oid |-> oid, allowed |-> allowed, validity |-> validity]
Text(n, unit) == [kind |-> "string", count |-> n, unit |-> unit]
NoValidity == [kind |-> "none"]

Entries == {
    M(User, TRUE, {<<"cn", staff>>}, Text(1, "y")),
    M(User, TRUE, {<<"dn", adminDn>>}, NoValidity),
    M(Server, TRUE, {}, Text(2, "h")),
    M(Server, FALSE, {<<"cn", admins>>, <<"dn", staffDn>>}, Text(1, "mo")),
    M(Kiosk, TRUE, {<<"cn", admins>>}, [kind |-> "junk"]),
    M(Kiosk, TRUE, {}, [kind |-> "integer"])}

ReadableFiles == UNION {[1 .. n -> Entries] : n \in 0 .. 3}
BrokenFiles == {Append(f, Malformed) : f \in UNION {[1 .. n -> Entries] : n \in 0 .. 2}}
MCMappingFiles == ReadableFiles \cup BrokenFiles
=============================================================================
