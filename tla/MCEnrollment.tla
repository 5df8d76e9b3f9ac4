----------------------------- MODULE MCEnrollment -----------------------------
(* Instances of Enrollment: two clients; a template restricted to a group,  *)
(* one open to everybody, and one without a mapping.                        *)
EXTENDS Enrollment, TLC

CONSTANTS r1, r2, alice, web, TUser, TServer, TNone, staff

MCAllowedGroups == TUser :> {staff} @@ TServer :> {}
MCStem == alice :> "alice_user_" @@ web :> "web_user_"

Ask(c, t, renew, groups) ==
    [client |-> c, template |-> t, renew |-> renew, groups |-> groups,
     readable |-> TRUE]

\* Every admissible request for one EJBCA user.
OneUserJobs == {Ask(web, TServer, renew, {}) : renew \in BOOLEAN}

\* The same, and one that is denied.
RetryJobs == OneUserJobs \cup {Ask(alice, TUser, FALSE, {{}})}

\* First enrollments for one EJBCA user.
IssueJobs == {Ask(web, TServer, FALSE, {})}

\* Two templates asked for by one client with a long name.
TwoTemplateJobs ==
    {Ask(web, TServer, FALSE, {}), Ask(web, TUser, TRUE, {{staff}})}

Symmetry == Permutations(Requests)
=============================================================================
