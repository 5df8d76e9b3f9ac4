------------------------------- MODULE Service -------------------------------
(***************************************************************************)
(* The whole way of a device to its certificate: the device (as            *)
(* tools/windows_client_simulator.py walks it: GetPolicies, then a         *)
(* RequestSecurityToken, then reading what came back), the hooks and       *)
(* endpoints of Gateway, and the handler and EJBCA of Enrollment.          *)
(*                                                                         *)
(* The two meet in enroll: HandOver is its call and Respond its return.    *)
(* Every other step is one of the device, of Gateway or of Enrollment.     *)
(* A device makes one request for a certificate, which stands for both.    *)
(***************************************************************************)
EXTENDS Enrollment

CONSTANTS
    Principal,  \* the Kerberos principal of each device
    Legs,       \* tokens each device has to send
    Preemptive  \* devices that send their token without being asked

ASSUME DeviceAssumption ==
    /\ Principal \in [Requests -> Clients]
    /\ Legs \in [Requests -> {1, 2}]
    /\ Preemptive \subseteq Requests

VARIABLES
    configured, valid, stage, path, kind, leg, identity, enrolled, answer,
    progress,   \* of the device: "new", "listing", "listed", "asking", "done"
    result      \* what the device made of the answers

G == INSTANCE Gateway WITH Devices <- Requests

gatewayVars == <<configured, valid, stage, path, kind, leg, identity, enrolled, answer>>
deviceVars  == <<progress, result>>
serviceVars == <<vars, gatewayVars, deviceVars>>

Verdicts == {"issued", "pending", "denied", "unknown", "error"}
Result   == [status : Verdicts, certificate : BOOLEAN]
Says(status)  == [status |-> status, certificate |-> FALSE]
NoResult      == Says("unknown")

ServiceInit ==
    /\ Init /\ \A d \in Requests : job[d].client = Principal[d]
    /\ G!Init
    /\ progress = [d \in Requests |-> "new"]
    /\ result = [d \in Requests |-> NoResult]

-----------------------------------------------------------------------------
(***************************************************************************)
(* The device.                                                             *)
(***************************************************************************)
FirstLeg(d) == IF d \in Preemptive THEN 1 ELSE 0

Post(d, from, where, to) ==
    /\ progress[d] = from
    /\ G!Send(d, where, "complete", FirstLeg(d))
    /\ progress' = [progress EXCEPT ![d] = to]
    /\ UNCHANGED <<vars, result>>

GetPolicies(d)        == Post(d, "new", "cep", "listing")
RequestCertificate(d) == Post(d, "listed", "ces", "asking")

Read(d, from, to, what) ==
    /\ progress[d] = from
    /\ G!Finish(d)
    /\ progress' = [progress EXCEPT ![d] = to]
    /\ result' = [result EXCEPT ![d] = what]
    /\ UNCHANGED vars

\* A fault, an answer that is no XML, or an exception when the device notices
\* that its connection is lost: it gives up.
Listed(d) == stage[d] = "answered" /\ answer[d].body = "policies"

ReadPolicies(d) ==
    \/ Listed(d)  /\ Read(d, "listing", "listed", NoResult)
    \/ ~Listed(d) /\ Read(d, "listing", "done", Says("error"))

\* An event in the log of the device's request.
Tells(d, event) == \E i \in DOMAIN audit[d] : audit[d][i] = event

\* Mutant: an answer without a fault is a certificate.
RstrSaysAnything(d) ==
    IF stage[d] = "answered" /\ answer[d].body \notin {"none"} \cup G!Faults
    THEN {[status |-> "issued", certificate |-> TRUE]}
    ELSE {Says("error")}

\* _parse_rstr_response: the certificate counts if it is packed; otherwise the
\* wording of the disposition message decides.  The proxy's own messages
\* contain none of the words looked for (a template's name apart); those of a
\* validation error are EJBCA's and may contain any.
RstrSays(d) ==
    IF stage[d] = "answered" /\ answer[d].body = "certificate"
    THEN {[status |-> "issued", certificate |-> TRUE]}
    ELSE IF stage[d] = "answered" /\ answer[d].body \in {"rawCertificate", "error"}
    THEN {Says("unknown")} \cup
         (IF Tells(d, "VALIDATION_ERROR")
          THEN {Says(s) : s \in {"issued", "pending", "denied"}} ELSE {})
    ELSE {Says("error")}

ReadResponse(d) == \E what \in RstrSays(d) : Read(d, "asking", "done", what)

\* The exchange of tokens goes on.
AnswerChallenge(d) == G!Continue(d) /\ UNCHANGED <<vars, deviceVars>>

GoOn(d) == AnswerChallenge(d) \/ ReadPolicies(d) \/ RequestCertificate(d) \/ ReadResponse(d)

Device(d) == GetPolicies(d) \/ GoOn(d)

-----------------------------------------------------------------------------
(***************************************************************************)
(* The proxy.                                                              *)
(***************************************************************************)
\* The hooks and endpoints, apart from enroll.
Gate(d) ==
    /\ \/ G!Challenge(d) \/ G!Authenticate(d) \/ G!Reject(d)
       \/ G!Policies(d) \/ G!NotConfigured(d)
    /\ UNCHANGED <<vars, deviceVars>>

\* Mutant: the hook's answer is dropped and the endpoint runs all the same.
HandOverAnyway(d) ==
    /\ stage[d] = "sent" /\ path[d] = "ces"
    /\ stage' = [stage EXCEPT ![d] = "enrolling"]
    /\ Receive(d)
    /\ UNCHANGED <<configured, valid, path, kind, leg, identity, enrolled, answer, deviceVars>>

HandOver(d) ==
    /\ G!Enroll(d)
    /\ Receive(d)
    /\ UNCHANGED deviceVars

Work ==
    /\ \/ \E r \in Requests : Step(r)
       \/ \E m \in net : Serve(m)
    /\ UNCHANGED <<gatewayVars, deviceVars>>

\* Mutant: the result of the last enrollment is kept in the service, which the
\* threads share.
RespondLast(d) ==
    /\ \E r \in Requests :
        \/ pc[r] = "issued" /\ G!ReturnOf(d, "issued")
        \/ pc[r] = "failed" /\ G!ReturnOf(d, "error")
    /\ UNCHANGED <<vars, deviceVars>>

\* Mutant: enroll raises where it should return a failure, and no one answers.
RespondIssued(d) ==
    /\ pc[d] = "issued" /\ G!ReturnOf(d, "issued")
    /\ UNCHANGED <<vars, deviceVars>>

Respond(d) ==
    /\ \/ pc[d] = "issued" /\ G!ReturnOf(d, "issued")
       \/ pc[d] = "failed" /\ G!ReturnOf(d, "error")
    /\ UNCHANGED <<vars, deviceVars>>

\* A connection breaks, with or without the device being told, and the thread
\* goes on; or the worker dies.
Disconnect(d) == G!Lose(d) /\ UNCHANGED <<vars, deviceVars>>
Die(d)        == G!Lose(d) /\ Crash(d) /\ UNCHANGED deviceVars

Proxy(d) == Gate(d) \/ HandOver(d) \/ Respond(d)

ServiceNext ==
    \/ \E d \in Requests : Device(d) \/ Proxy(d) \/ Disconnect(d) \/ Die(d)
    \/ Work

ServiceSpec == ServiceInit /\ [][ServiceNext]_serviceVars

\* Threads run and their calls time out (see Enrollment), and a device goes on
\* with what it is answered; EJBCA need not ever answer.  A device whose
\* connection is lost need not ever notice: it waits without a timeout, and the
\* connection may have broken without a word.
FairService ==
    /\ ServiceSpec
    /\ \A d \in Requests :
        /\ WF_serviceVars(Proxy(d))
        /\ WF_serviceVars(Step(d) /\ UNCHANGED <<gatewayVars, deviceVars>>)
        /\ WF_serviceVars(stage[d] # "lost" /\ GoOn(d))

-----------------------------------------------------------------------------
\* The types of the device's own variables and of the composed modules'.
ServiceTypeOK ==
    /\ TypeOK /\ G!TypeOK
    /\ progress \in [Requests -> {"new", "listing", "listed", "asking", "done"}]
    /\ result \in [Requests -> Result]

\* The devices that may have a certificate.
Entitled == {d \in Requests : d \in valid /\ configured /\ Admissible(job[d])}

\* From the first token to the device's verdict the proxy keeps the promise of
\* Certification: the CA signs for an authenticated device's admissible request
\* only, and a device has a certificate only if it was signed for its own CSR,
\* whatever connections break, workers die or requests of others run.
Word == INSTANCE Certification WITH
    Devices   <- Requests,
    entitled  <- Entitled,
    certified <- {c.csr : c \in signed},
    told      <- [d \in Requests |->
                    IF progress[d] # "done" THEN "nothing"
                    ELSE IF result[d].certificate THEN "certificate" ELSE "failure"]

KeepsWord == Word!Spec

\* The gateway and the handler agree on the request that is between them: the
\* gateway waits for enroll exactly while the handler has the request or its
\* outcome, and answers with that outcome.  Only a lost connection parts them.
HandOverAgrees ==
    \A d \in Requests :
        /\ stage[d] = "enrolling" => pc[d] \notin {"idle", "dead"}
        /\ pc[d] \in Running => stage[d] \in {"enrolling", "lost", "idle"}
        /\ \A c \in enrolled[d] : \/ c.outcome = "running"
                                  \/ c.outcome = "issued" /\ pc[d] = "issued"
                                  \/ c.outcome = "error" /\ pc[d] = "failed"

\* End to end: a device with valid credentials that needs one token and keeps
\* its connection is answered with the certificate of its admissible request,
\* unless a fault or a rival's call disturbed the request at EJBCA; or with a
\* fault, when the certificate cannot be packed.
UndisturbedDeviceCertified ==
    \A d \in Requests :
        /\ stage[d] = "answered" /\ path[d] = "ces" /\ G!Final(d)
        /\ d \in Entitled /\ Legs[d] = 1 /\ d \notin disturbed
        => pc[d] = "issued" /\ answer[d].body \in G!Certificates \cup {"SenderFault"}

\* A device tells its user "issued" with a certificate in hand, or because
\* EJBCA's own message says so.
SuccessHasCertificate ==
    \A d \in Requests : result[d].status = "issued" =>
        \/ result[d].certificate /\ CertsOf(d) # {} /\ d \in valid
        \/ ~result[d].certificate /\ Tells(d, "VALIDATION_ERROR")

\* A device that began and keeps its connection comes to a verdict, whatever its
\* credentials and its request, and even if EJBCA never answers: the proxy
\* leaves neither of its requests without an answer.  (Each device runs once, so
\* that in the end none is on its way any more.)
EveryDeviceEnds ==
    <>[](\A d \in Requests : progress[d] \in {"new", "done"} \/ stage[d] = "lost")
=============================================================================
