------------------------------ MODULE MCService ------------------------------
(* Two devices of one principal, one of which sends its token unasked; each  *)
(* asks for a first certificate or a renewal, or for a template it may not   *)
(* have.                                                                     *)
EXTENDS Service, MCEnrollment

MCPrincipal == [d \in Requests |-> web]
OneLeg == [d \in Requests |-> 1]

DeviceJobs == OneUserJobs \cup {Ask(web, TUser, FALSE, {{}})}
=============================================================================
