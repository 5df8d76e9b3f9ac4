------------------------------- MODULE Gateway -------------------------------
(***************************************************************************)
(* How a request of a device gets to the enrollment handler and back: the  *)
(* hooks of src/app.py, KerberosAuth (src/auth/kerberos.py), the CEP       *)
(* and CES endpoints (src/api/xcep.py, wstep.py) and WSTEPService          *)
(* (src/soap/wstep_service.py).                                            *)
(*                                                                         *)
(* A device talks SPNEGO: a request without a token is challenged, and the *)
(* next ones carry the tokens ("legs") of the exchange, all with the same  *)
(* message.  Each device has one request under way; devices interleave.    *)
(***************************************************************************)
EXTENDS Naturals

CONSTANTS
    Devices,    \* Windows clients, each with a principal of its own
    Legs        \* tokens each device has to send until GSSAPI is content

ASSUME LegsAssumption == Legs \in [Devices -> {1, 2}]

\* What the body of a request may be: not XML, of another SOAP action,
\* without a Body, without what a RequestSecurityToken needs, or complete.
Kinds == {"garbage", "otherAction", "noBody", "incomplete", "complete"}

VARIABLES
    configured, \* EJBCA is configured, so there is an enrollment handler
    valid,      \* devices with valid credentials
    stage,      \* of each device's request, "idle" when it has none
    path,       \* of the request: "cep", "ces" or "health"
    kind,       \* of the message in its body
    leg,        \* the token in its Authorization header; 0: none, 3: not Negotiate
    identity,   \* g.client_identity: {} or {the device whose principal it is}
    enrolled,   \* calls of EnrollmentHandler.enroll for the request
    answer      \* to the request

vars == <<configured, valid, stage, path, kind, leg, identity, enrolled, answer>>

Stages == {"idle", "sent", "authenticated", "enrolling", "answered", "lost"}
Paths  == {"cep", "ces", "health"}

Certificates == {"certificate", "rawCertificate"}
Faults       == {"SenderFault", "ReceiverFault"}

Answers == [status : {200, 401, 500, 503}, token : {"none", "continue", "mutual"},
            body : {"none", "ok", "policies", "error"} \cup Certificates \cup Faults]

Reply(status, token, body) == [status |-> status, token |-> token, body |-> body]
NoAnswer == Reply(200, "none", "none")

\* The template and the request type of a call are those Enrollment is about.
Call == [principal : Devices, outcome : {"running", "issued", "error"}]

Init ==
    /\ configured \in BOOLEAN
    /\ valid \in SUBSET Devices
    /\ stage = [d \in Devices |-> "idle"]
    /\ path = [d \in Devices |-> "ces"]
    /\ kind = [d \in Devices |-> "garbage"]
    /\ leg = [d \in Devices |-> 0]
    /\ identity = [d \in Devices |-> {}]
    /\ enrolled = [d \in Devices |-> {}]
    /\ answer = [d \in Devices |-> NoAnswer]

-----------------------------------------------------------------------------
(***************************************************************************)
(* A device.                                                               *)
(***************************************************************************)
\* The first request about a message has no token, or credentials of
\* another kind, or already the first token.
Send(d, p, k, l) ==
    /\ stage[d] = "idle"
    /\ stage' = [stage EXCEPT ![d] = "sent"]
    /\ path' = [path EXCEPT ![d] = p]
    /\ kind' = [kind EXCEPT ![d] = k]
    /\ leg' = [leg EXCEPT ![d] = l]
    /\ UNCHANGED <<configured, valid, identity, enrolled, answer>>

Begin(d) == \E p \in Paths, k \in Kinds, l \in {0, 1, 3} : Send(d, p, k, l)

\* After a challenge the device sends its first token, after a continuation
\* its second one.  The request is a new one, with a g of its own.
Continue(d) ==
    /\ stage[d] = "answered" /\ answer[d].status = 401
    /\ \/ leg[d] = 0 /\ answer[d].token = "none" /\ leg' = [leg EXCEPT ![d] = 1]
       \/ leg[d] = 1 /\ answer[d].token = "continue" /\ leg' = [leg EXCEPT ![d] = 2]
    /\ stage' = [stage EXCEPT ![d] = "sent"]
    /\ answer' = [answer EXCEPT ![d] = NoAnswer]
    /\ UNCHANGED <<configured, valid, path, kind, identity, enrolled>>

\* Any other answer is final, and so is a connection that broke.
Final(d) ==
    \/ stage[d] = "lost"
    \/ /\ stage[d] = "answered"
       /\ answer[d].status = 401 =>
            leg[d] \in {2, 3} \/ (leg[d] = 1 /\ answer[d].token = "none")

Finish(d) ==
    /\ Final(d)
    /\ stage' = [stage EXCEPT ![d] = "idle"]
    /\ path' = [path EXCEPT ![d] = "ces"]
    /\ kind' = [kind EXCEPT ![d] = "garbage"]
    /\ leg' = [leg EXCEPT ![d] = 0]
    /\ identity' = [identity EXCEPT ![d] = {}]
    /\ enrolled' = [enrolled EXCEPT ![d] = {}]
    /\ answer' = [answer EXCEPT ![d] = NoAnswer]
    /\ UNCHANGED <<configured, valid>>

\* The worker dies, or the connection to it breaks: no answer will come.
Lose(d) ==
    /\ stage[d] \in {"sent", "authenticated", "enrolling"}
    /\ stage' = [stage EXCEPT ![d] = "lost"]
    /\ UNCHANGED <<configured, valid, path, kind, leg, identity, enrolled, answer>>

-----------------------------------------------------------------------------
(***************************************************************************)
(* The authenticate hook.                                                  *)
(***************************************************************************)
Respond(d, reply) ==
    /\ stage' = [stage EXCEPT ![d] = "answered"]
    /\ answer' = [answer EXCEPT ![d] = reply]

\* The context of a request has seen the token of this request and no other.
Seen(d) == {leg[d]}

\* Mutant: a context is never complete after its first token.
CompleteLate(d) == d \in valid /\ leg[d] = 2

Complete(d) == d \in valid /\ Seen(d) = 1 .. Legs[d]
Incomplete(d) == leg[d] < Legs[d]

\* The probes need no authentication; readyz may find a dependency missing.
Health(d) ==
    /\ stage[d] = "sent" /\ path[d] = "health"
    /\ \E status \in {200, 503} : Respond(d, Reply(status, "none", "ok"))
    /\ UNCHANGED <<configured, valid, path, kind, leg, identity, enrolled>>

Challenge(d) ==
    /\ stage[d] = "sent" /\ path[d] # "health" /\ leg[d] \in {0, 3}
    /\ Respond(d, Reply(401, "none", "none"))
    /\ UNCHANGED <<configured, valid, path, kind, leg, identity, enrolled>>

\* Mutant: a context that is not complete counts as authenticated.
AuthenticateEarly(d) ==
    /\ stage[d] = "sent" /\ path[d] # "health" /\ leg[d] \in {1, 2}
    /\ stage' = [stage EXCEPT ![d] = "authenticated"]
    /\ identity' = [identity EXCEPT ![d] = {d}]
    /\ UNCHANGED <<configured, valid, path, kind, leg, enrolled, answer>>

\* authenticate returns the principal; the groups are fetched.
Authenticate(d) ==
    /\ stage[d] = "sent" /\ path[d] # "health" /\ leg[d] \in {1, 2} /\ Complete(d)
    /\ stage' = [stage EXCEPT ![d] = "authenticated"]
    /\ identity' = [identity EXCEPT ![d] = {d}]
    /\ UNCHANGED <<configured, valid, path, kind, leg, enrolled, answer>>

\* authenticate raises, with a token to continue with while the exchange is
\* incomplete, unless GSSAPI has already found the credentials invalid.
Reject(d) ==
    /\ stage[d] = "sent" /\ path[d] # "health" /\ leg[d] \in {1, 2} /\ ~Complete(d)
    /\ \/ Incomplete(d) /\ Respond(d, Reply(401, "continue", "none"))
       \/ (Incomplete(d) => d \notin valid) /\ Respond(d, Reply(401, "none", "none"))
    /\ UNCHANGED <<configured, valid, path, kind, leg, identity, enrolled>>

-----------------------------------------------------------------------------
(***************************************************************************)
(* The endpoints and handle_request.  The after_request hook adds the      *)
(* token of mutual authentication, if GSSAPI gave one, to any answer.      *)
(***************************************************************************)
Conclude(d, status, body) ==
    \E token \in {"none", "mutual"} : Respond(d, Reply(status, token, body))

\* The CEP endpoint answers what it has cached or builds, a fault or the
\* policies (see PolicyCache), or ends in an exception.
Policies(d) ==
    /\ stage[d] = "authenticated" /\ path[d] = "cep"
    /\ \/ \E body \in {"policies"} \cup Faults : Conclude(d, 200, body)
       \/ Conclude(d, 500, "none")
    /\ UNCHANGED <<configured, valid, path, kind, leg, identity, enrolled>>

NotConfigured(d) ==
    /\ stage[d] = "authenticated" /\ path[d] = "ces" /\ ~configured
    /\ Conclude(d, 500, "ReceiverFault")
    /\ UNCHANGED <<configured, valid, path, kind, leg, identity, enrolled>>

\* An element that is missing where None is not expected raises something
\* other than XMLSyntaxError and ValueError.
FaultOf(k) == IF k = "noBody" THEN "ReceiverFault" ELSE "SenderFault"

Fault(d) ==
    /\ stage[d] = "authenticated" /\ path[d] = "ces" /\ configured
    /\ kind[d] # "complete"
    /\ Conclude(d, 200, FaultOf(kind[d]))
    /\ UNCHANGED <<configured, valid, path, kind, leg, identity, enrolled>>

CallsOf(d) == {[principal |-> p, outcome |-> "running"] : p \in identity[d]}

Enroll(d) ==
    /\ stage[d] = "authenticated" /\ path[d] = "ces" /\ configured
    /\ kind[d] = "complete"
    /\ stage' = [stage EXCEPT ![d] = "enrolling"]
    /\ enrolled' = [enrolled EXCEPT ![d] = @ \cup CallsOf(d)]
    /\ UNCHANGED <<configured, valid, path, kind, leg, identity, answer>>

\* enroll returns (see Enrollment) and the response is built.  A certificate
\* that cannot be packed is sent as it is.  The handler accepts a PEM
\* certificate and _create_pkcs7_response does not: it raises a ValueError,
\* which handle_request takes for a bad request, after the certificate was
\* issued.  So does an error whose message, EJBCA's own, does not fit into XML.
Bodies == [issued |-> Certificates \cup {"SenderFault"}, error |-> {"error", "SenderFault"}]

\* Mutant: the response is built without looking at the status.
ReturnAnyway(d) ==
    /\ stage[d] = "enrolling"
    /\ \E outcome \in {"issued", "error"} :
        /\ enrolled' = [enrolled EXCEPT ![d] = {[c EXCEPT !.outcome = outcome] : c \in @}]
        /\ \E body \in Bodies.issued : Conclude(d, 200, body)
    /\ UNCHANGED <<configured, valid, path, kind, leg, identity>>

\* Mutant: requests that await an approval.
ReturnPending(d) ==
    /\ stage[d] = "enrolling"
    /\ enrolled' = [enrolled EXCEPT ![d] = {[c EXCEPT !.outcome = "pending"] : c \in @}]
    /\ Conclude(d, 200, "error")
    /\ UNCHANGED <<configured, valid, path, kind, leg, identity>>

ReturnOf(d, outcome) ==
    /\ stage[d] = "enrolling"
    /\ enrolled' = [enrolled EXCEPT ![d] = {[c EXCEPT !.outcome = outcome] : c \in @}]
    /\ \E body \in Bodies[outcome] : Conclude(d, 200, body)
    /\ UNCHANGED <<configured, valid, path, kind, leg, identity>>

Return(d) == \E outcome \in {"issued", "error"} : ReturnOf(d, outcome)

Serve(d) ==
    \/ Health(d) \/ Challenge(d) \/ Authenticate(d) \/ Reject(d)
    \/ Policies(d) \/ NotConfigured(d) \/ Fault(d) \/ Enroll(d) \/ Return(d)

Next == \E d \in Devices :
    Begin(d) \/ Continue(d) \/ Finish(d) \/ Lose(d) \/ Serve(d)

Spec == Init /\ [][Next]_vars

\* A worker answers what it receives, since every call it makes has a
\* timeout, and a device goes on with the exchange it began.
FairSpec == Spec /\ \A d \in Devices : WF_vars(Serve(d)) /\ WF_vars(Continue(d))

-----------------------------------------------------------------------------
TypeOK ==
    /\ configured \in BOOLEAN /\ valid \in SUBSET Devices
    /\ stage \in [Devices -> Stages]
    /\ path \in [Devices -> Paths]
    /\ kind \in [Devices -> Kinds]
    /\ leg \in [Devices -> 0 .. 3]
    /\ identity \in [Devices -> SUBSET Devices]
    /\ enrolled \in [Devices -> SUBSET Call]
    /\ answer \in [Devices -> Answers]

\* enroll runs for a device only after a whole exchange with valid credentials,
\* under the principal of that device, and a request answered with a challenge,
\* however far its exchange got, ran none.
EnrolledAsCaller ==
    \A d \in Devices :
        /\ \A c \in enrolled[d] : d \in valid /\ c.principal = d
        /\ answer[d].status = 401 => enrolled[d] = {}

\* A device knows from its answer where it stands, although the answer comes
\* from any of four places (hooks, endpoint, service, handler): a certificate is
\* one enroll issued, an error is enroll's own, a fault about a message that is
\* not complete, and a Receiver fault, come before enroll is called.  The
\* Sender fault for a complete message is left out: it tells that enroll has
\* returned, and that its certificate could not be packed, or that its error
\* message does not fit into XML.
AnswerTellsOutcome ==
    \A d \in Devices : stage[d] = "answered" =>
        LET outcomes == {c.outcome : c \in enrolled[d]}
        IN /\ answer[d].body \in Certificates => outcomes = {"issued"}
           /\ answer[d].body = "error" => outcomes = {"error"}
           /\ answer[d].body = "SenderFault" => outcomes = {} \/ kind[d] = "complete"
           /\ answer[d].body \in {"ReceiverFault", "none", "ok", "policies"} => outcomes = {}

\* A device that asks for a certificate with valid credentials gets past the
\* challenges, unless it loses the connection.
ServedBeyondChallenge(d) ==
    d \in valid /\ stage[d] = "sent" /\ path[d] = "ces" /\ leg[d] \in {0, 1}
        ~> \/ stage[d] = "answered" /\ answer[d].status # 401
           \/ stage[d] = "lost"

\* So it is for a device whose exchange takes one token (Kerberos): challenge,
\* token, and enroll or a fault, whatever the other devices do.
DirectDeviceServed == \A d \in Devices : Legs[d] = 1 => ServedBeyondChallenge(d)

\* "Handle SPNEGO multi-step": so it is for a device that needs several.
ValidDeviceServed == \A d \in Devices : ServedBeyondChallenge(d)
=============================================================================
