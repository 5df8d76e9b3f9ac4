----------------------------- MODULE ServiceProofs -----------------------------
(***************************************************************************)
(* Theorems about the composition: what Enrollment promises is not lost    *)
(* by the way requests get to it, and the whole keeps the promise of       *)
(* Certification, for every set of devices, principals, templates, tokens  *)
(* and attempts.                                                           *)
(*                                                                         *)
(* The first theorem brings everything proved in EnrollmentProofs over to  *)
(* ServiceSpec.  The promise of Certification needs two more facts, about  *)
(* the seams: what the handler has was handed over by the gateway (Handed) *)
(* and what is answered with a certificate came from the handler (Given).  *)
(***************************************************************************)
EXTENDS Service, EnrollmentProofs

\* Every step of the composition is one of Enrollment or leaves it alone.
LEMMA InnerStep == [ServiceNext]_serviceVars => [Next]_vars
<1> SUFFICES ASSUME [ServiceNext]_serviceVars PROVE [Next]_vars
  OBVIOUS
<1>1. ASSUME NEW d \in Requests, Device(d) PROVE UNCHANGED vars
  BY <1>1 DEF Device, GoOn, GetPolicies, AnswerChallenge, ReadPolicies, RequestCertificate,
              ReadResponse, Post, Read
<1>2. ASSUME NEW d \in Requests, Gate(d) \/ Respond(d) \/ Disconnect(d) PROVE UNCHANGED vars
  BY <1>2 DEF Gate, Respond, Disconnect
<1>3. ASSUME NEW d \in Requests, HandOver(d) \/ Die(d) PROVE Next
  BY <1>3 DEF HandOver, Die, Next
<1>4. ASSUME Work PROVE Next
  BY <1>4 DEF Work, Next
<1>5. CASE UNCHANGED serviceVars
  BY <1>5 DEF serviceVars
<1>6. QED
  BY <1>1, <1>2, <1>3, <1>4, <1>5 DEF ServiceNext, Proxy

\* With the devices and the gateway around it the handler still is Enrollment,
\* so all its theorems hold of the whole.
THEOREM Inner == ServiceSpec => Spec
<1>1. ServiceInit => Init
  BY DEF ServiceInit
<1>2. QED  BY <1>1, InnerStep, PTL DEF ServiceSpec, Spec

-----------------------------------------------------------------------------
(***************************************************************************)
(* The gateway, with the handler behind it.                                *)
(***************************************************************************)
GP == INSTANCE GatewayProofs WITH Devices <- Requests

\* The gateway GatewayProofs is about is the gateway of the service.
LEMMA SameGateway ==
  /\ G!Init => GP!Init
  /\ [G!Next]_gatewayVars => [GP!Next]_(GP!vars)
  /\ GP!TypeOK => G!TypeOK
  /\ GP!EnrolledAsCaller => G!EnrolledAsCaller
  /\ GP!AnswerTellsOutcome => G!AnswerTellsOutcome
  BY DEF gatewayVars, GP!vars, G!Init, GP!Init, G!NoAnswer, GP!NoAnswer, G!Reply, GP!Reply,
    G!Next, GP!Next, G!Begin, GP!Begin, G!Send, GP!Send, G!Paths, GP!Paths, G!Kinds, GP!Kinds,
    G!Continue, GP!Continue, G!Finish, GP!Finish, G!Final, GP!Final, G!Lose, GP!Lose,
    G!Serve, GP!Serve, G!Health, GP!Health, G!Respond, GP!Respond, G!Challenge, GP!Challenge,
    G!Authenticate, GP!Authenticate, G!Complete, GP!Complete, G!Seen, GP!Seen,
    G!Reject, GP!Reject, G!Incomplete, GP!Incomplete, G!Policies, GP!Policies,
    G!Conclude, GP!Conclude, G!Faults, GP!Faults, G!NotConfigured, GP!NotConfigured,
    G!Fault, GP!Fault, G!FaultOf, GP!FaultOf, G!Enroll, GP!Enroll, G!CallsOf, GP!CallsOf,
    G!Return, GP!Return, G!ReturnOf, GP!ReturnOf, G!Bodies, GP!Bodies,
    G!Certificates, GP!Certificates, G!TypeOK, GP!TypeOK, G!Stages, GP!Stages,
    G!Call, GP!Call, G!Answers, GP!Answers, G!EnrolledAsCaller, GP!EnrolledAsCaller,
    G!AnswerTellsOutcome, GP!AnswerTellsOutcome

\* Every step of the composition is one of Gateway or leaves it alone.
LEMMA OuterStep == [ServiceNext]_serviceVars => [G!Next]_gatewayVars
<1> SUFFICES ASSUME [ServiceNext]_serviceVars PROVE [G!Next]_gatewayVars
  OBVIOUS
<1>1. ASSUME NEW d \in Requests, GetPolicies(d) \/ RequestCertificate(d) PROVE G!Begin(d)
  BY <1>1 DEF GetPolicies, RequestCertificate, Post, FirstLeg, G!Begin, G!Paths, G!Kinds
<1>2. ASSUME NEW d \in Requests, AnswerChallenge(d) PROVE G!Continue(d)
  BY <1>2 DEF AnswerChallenge
<1>3. ASSUME NEW d \in Requests, ReadPolicies(d) \/ ReadResponse(d) PROVE G!Finish(d)
  BY <1>3 DEF ReadPolicies, ReadResponse, Read
<1>4. ASSUME NEW d \in Requests, Proxy(d) PROVE G!Serve(d)
  BY <1>4 DEF Proxy, Gate, HandOver, Respond, G!Serve, G!Return
<1>5. ASSUME NEW d \in Requests, Disconnect(d) \/ Die(d) PROVE G!Lose(d)
  BY <1>5 DEF Disconnect, Die
<1>6. CASE Work \/ UNCHANGED serviceVars
  BY <1>6 DEF Work, serviceVars
<1>7. QED
  BY <1>1, <1>2, <1>3, <1>4, <1>5, <1>6 DEF ServiceNext, Device, GoOn, G!Next

\* With the handler behind it the gateway still is Gateway.
THEOREM Outer == ServiceSpec => G!Spec
<1>1. ServiceInit => G!Init
  BY DEF ServiceInit
<1>2. [ServiceNext]_serviceVars => [G!Next]_(G!vars)
  BY OuterStep DEF gatewayVars, G!vars
<1>3. QED  BY <1>1, <1>2, PTL DEF ServiceSpec, G!Spec

\* What GatewayProofs has shown holds within the service.
LEMMA GatewayHolds == ServiceSpec => []GP!IInv
<1>0. GP!LegsAssumption
  BY DeviceAssumption DEF GP!LegsAssumption
<1>1. ServiceInit => GP!IInv
  BY <1>0, SameGateway, GP!InitIInv DEF ServiceInit
<1>2. GP!IInv /\ [ServiceNext]_serviceVars => GP!IInv'
  BY <1>0, OuterStep, SameGateway, GP!NextIInv
<1>3. QED  BY <1>1, <1>2, PTL DEF ServiceSpec

\* Within the service, too, enroll runs for a caller with valid credentials and
\* as that caller only, and every answer tells what came of the call.
THEOREM GatewayKeeps == ServiceSpec => [](G!EnrolledAsCaller /\ G!AnswerTellsOutcome)
<1>1. GP!IInv => GP!EnrolledAsCaller
  BY DEF GP!IInv, GP!Parts, GP!Caller, GP!EnrolledAsCaller
<1>2. GP!IInv => GP!AnswerTellsOutcome
  BY Zenon DEF GP!IInv, GP!Parts, GP!Told, GP!OutcomesOf, GP!AnswerTellsOutcome
<1>3. GP!IInv => G!EnrolledAsCaller /\ G!AnswerTellsOutcome
  BY <1>1, <1>2, SameGateway
<1>4. QED  BY <1>3, GatewayHolds, PTL

\* What a device knows of itself.
DeviceTypes ==
    /\ progress \in [Requests -> {"new", "listing", "listed", "asking", "done"}]
    /\ result \in [Requests -> Result]

\* It makes one of the verdicts of any answer.
LEMMA DeviceTypesStep == DeviceTypes /\ [ServiceNext]_serviceVars => DeviceTypes'
<1> SUFFICES ASSUME DeviceTypes, [ServiceNext]_serviceVars PROVE DeviceTypes'
  OBVIOUS
<1>1. \A s \in Verdicts : Says(s) \in Result
  BY DEF Says, Result
<1>2. ASSUME NEW d \in Requests PROVE RstrSays(d) \subseteq Result
  <2>1. [status |-> "issued", certificate |-> TRUE] \in Result
    BY DEF Result, Verdicts
  <2>2. \A s \in {"issued", "pending", "denied", "unknown", "error"} : Says(s) \in Result
    BY <1>1 DEF Verdicts
  <2>3. QED  BY <2>1, <2>2 DEF RstrSays
<1>3. ASSUME NEW d \in Requests, GetPolicies(d) \/ RequestCertificate(d) PROVE DeviceTypes'
  BY <1>3 DEF GetPolicies, RequestCertificate, Post, DeviceTypes
<1>4. ASSUME NEW d \in Requests, NEW from, NEW to \in {"listed", "done"}, NEW what \in Result,
             Read(d, from, to, what)
      PROVE  DeviceTypes'
  BY <1>4 DEF Read, DeviceTypes
<1>5. ASSUME NEW d \in Requests, ReadPolicies(d) PROVE DeviceTypes'
  <2>1. NoResult \in Result /\ Says("error") \in Result
    BY <1>1 DEF NoResult, Verdicts
  <2>2. QED  BY <1>4, <1>5, <2>1 DEF ReadPolicies
<1>6. ASSUME NEW d \in Requests, ReadResponse(d) PROVE DeviceTypes'
  BY <1>2, <1>4, <1>6 DEF ReadResponse
<1>7. CASE UNCHANGED deviceVars
  BY <1>7 DEF deviceVars, DeviceTypes
<1>8. QED
  BY <1>3, <1>5, <1>6, <1>7 DEF ServiceNext, Device, GoOn, AnswerChallenge, Proxy, Gate,
     HandOver, Respond, Disconnect, Die, Work, serviceVars

\* Types of the whole service: each component keeps its own in the composition.
THEOREM ServiceTyping == ServiceSpec => []ServiceTypeOK
<1>1. ServiceInit => DeviceTypes
  <2>1. NoResult \in Result
    BY DEF NoResult, Says, Result, Verdicts
  <2>2. QED  BY <2>1 DEF ServiceInit, DeviceTypes
<1>2. GP!IInv => G!TypeOK
  BY SameGateway DEF GP!IInv
<1>3. TypeOK /\ G!TypeOK /\ DeviceTypes => ServiceTypeOK
  BY DEF ServiceTypeOK, DeviceTypes
<1>4. QED
  BY <1>1, <1>2, <1>3, DeviceTypesStep, Inner, GatewayHolds, Typing, PTL DEF ServiceSpec

-----------------------------------------------------------------------------
(***************************************************************************)
(* The seams.                                                              *)
(***************************************************************************)
\* The domains of the functions the proofs look into.
Shape ==
    /\ stage \in [Requests -> G!Stages]
    /\ DOMAIN answer = Requests
    /\ DOMAIN progress = Requests
    /\ DOMAIN result = Requests

\* Whatever the handler ever had comes from an authenticated device.
Handed(d) ==
    /\ stage[d] = "authenticated" => d \in valid
    /\ pc[d] # "idle" => d \in valid /\ configured

\* A certificate in an answer is one the CA signed for the device's CSR.
Given(d) ==
    stage[d] = "answered" /\ answer[d].body = "certificate" =>
        CertsOf(d) # {} /\ d \in valid

Seams == Shape /\ \A d \in Requests : Handed(d) /\ Given(d)

\* What EnrollmentProofs has shown of the handler.
Handler == TypeOK /\ OnlyAdmissibleAct /\ SignedIsReal /\ CleanRun /\ UndisturbedSucceeds

\* What EnrollmentProofs shows of the handler holds inside the service.
LEMMA HandlerHolds == ServiceSpec => []Handler
  BY Inner, ActInvariant, CleanInvariant, Undisturbed, PTL DEF Handler

\* At the start nothing was handed over.
LEMMA SeamsInit == ServiceInit => Seams
  BY DEF ServiceInit, Init, G!Init, Seams, Shape, Handed, Given, G!Stages

\* An event that was logged stays in the log.
LEMMA LogTells ==
  ASSUME TypeOK, NEW r \in Requests, NEW event \in Events, Log(r, event)
  PROVE  \A e : Tells(r, e) => Tells(r, e)'
<1>1. audit[r] \in Seq(Events) /\ audit'[r] = Append(audit[r], event)
  BY DEF TypeOK, Log
<1>2. \A i \in DOMAIN audit[r] : i \in DOMAIN audit'[r] /\ audit'[r][i] = audit[r][i]
  BY <1>1
<1>3. QED  BY <1>2 DEF Tells

\* What the handler did is not undone, and only HandOver gives it a request.
LEMMA RunStep ==
  ASSUME TypeOK, NEW r \in Requests, Step(r) \/ Crash(r)
  PROVE  /\ signed' = signed /\ job' = job /\ disturbed \subseteq disturbed'
         /\ pc[r] \in Running /\ pc'[r] \in Running \cup Ended
         /\ Step(r) => pc'[r] # "dead"
         /\ \A e : Tells(r, e) => Tells(r, e)'
         /\ \A d \in Requests \ {r} : pc'[d] = pc[d] /\ audit'[d] = audit[d]
<1> USE DEF Running, Decided, Ops, Ended
<1>0. ASSUME audit'[r] = audit[r]  PROVE \A e : Tells(r, e) => Tells(r, e)'
  BY <1>0 DEF Tells
<1>1. CASE Proceed(r)
  <2>1. NextOp(r) \in Ops /\ pc[r] \in Ops
    BY <1>1 DEF Proceed, NextOp
  <2>2. QED  BY <1>0, <1>1, <2>1 DEF Proceed, Call, TypeOK, caVars
<1>2. CASE Admit(r) \/ Resend(r)
  BY <1>0, <1>2 DEF Admit, Call, Resend, TypeOK, caVars
<1>3. CASE LogRequest(r)
  <2>1. \A e : Tells(r, e) => Tells(r, e)'
    BY <1>3, LogTells DEF LogRequest, Events
  <2>2. QED  BY <1>3, <2>1 DEF LogRequest, Log, TypeOK, caVars
<1>4. CASE RejectCsr(r) \/ Deny(r) \/ Issue(r) \/ Fail(r) \/ GiveUp(r)
  <2>1. PICK event \in Events : Log(r, event)
    BY <1>4 DEF RejectCsr, Deny, Issue, Fail, FailureOf, GiveUp, Events, Failures
  <2>2. \A e : Tells(r, e) => Tells(r, e)'
    BY <2>1, LogTells
  <2>3. \A d \in Requests \ {r} : audit'[d] = audit[d]
    BY <2>1 DEF Log, TypeOK
  <2>4. /\ pc[r] \in Running /\ pc'[r] \in Decided
        /\ \A d \in Requests \ {r} : pc'[d] = pc[d]
    BY <1>4 DEF RejectCsr, Deny, Issue, Fail, GiveUp, End, TypeOK
  <2>5. signed' = signed /\ job' = job /\ disturbed \subseteq disturbed'
    BY <1>4 DEF RejectCsr, Deny, Issue, Fail, GiveUp, caVars
  <2>6. QED  BY <2>2, <2>3, <2>4, <2>5
<1>5. CASE RejectTemplate(r) \/ Return(r)
  BY <1>0, <1>5 DEF RejectTemplate, Return, End, TypeOK, caVars
<1>6. CASE Crash(r)
  <2>1. pc'[r] = "dead"
    BY <1>6 DEF Crash, End, TypeOK
  <2>2. ~Step(r)
    BY <2>1 DEF Step, RejectCsr, LogRequest, RejectTemplate, Deny, Admit, Proceed, Issue,
                Fail, Resend, GiveUp, Return, End, Call, NextOp, TypeOK
  <2>3. QED  BY <1>0, <1>6, <2>2 DEF Crash, End, TypeOK, caVars
<1>7. QED  BY <1>1, <1>2, <1>3, <1>4, <1>5, <1>6 DEF Step

\* What EJBCA does is nothing to the positions of the requests, and it signs
\* only for a request that acts.
LEMMA CaStep ==
  ASSUME Handler, NEW m \in net, Serve(m)
  PROVE  /\ m.req \in Requests /\ pc[m.req] # "idle" /\ Admissible(job[m.req])
         /\ signed \subseteq signed' /\ disturbed \subseteq disturbed'
         /\ UNCHANGED <<job, pc, audit>>
         /\ {c.csr : c \in signed'} \in
                {{c.csr : c \in signed}, {c.csr : c \in signed} \cup {m.req}}
<1>1. m.req \in Requests /\ pc[m.req] # "idle" /\ Admissible(job[m.req])
  BY DEF Handler, TypeOK, Message, CleanRun, NotYet, OnlyAdmissibleAct
<1>2. /\ disturbed \subseteq disturbed' /\ UNCHANGED <<job, pc, audit>>
      /\ \/ signed' = signed
         \/ \E c : c.csr = m.req /\ signed' = signed \cup {c}
  BY DEF Serve, ServeGet, ServeDelete, ServeReset, ServeAdd, ServeEnroll, Refuse, Decline
<1>3. QED  BY <1>1, <1>2

\* A step of the devices and the gateway that leaves enroll alone.
Passage(d) == Device(d) \/ Gate(d) \/ Disconnect(d)

\* An answer that is none of enroll's.
LEMMA GateAnswers ==
  ASSUME NEW d \in Requests, Gate(d)
  PROVE  \/ G!Authenticate(d)
         \/ \E given : /\ G!Respond(d, given) /\ given.body # "certificate"
                       /\ UNCHANGED <<configured, valid, path, kind, leg, identity, enrolled>>
                       /\ path[d] = "ces" /\ configured => given.status = 401
                       /\ given.status = 401 =>
                            leg[d] \in {0, 3} \/ (leg[d] \in {1, 2} /\ ~G!Complete(d))
                       /\ stage[d] \in {"sent", "authenticated"}
<1>1. CASE G!Challenge(d)
  BY <1>1 DEF G!Challenge, G!Reply
<1>2. CASE G!Reject(d)
  BY <1>2 DEF G!Reject, G!Reply
<1>3. CASE G!Policies(d)
  BY <1>3 DEF G!Policies, G!Conclude, G!Reply, G!Faults
<1>4. CASE G!NotConfigured(d)
  BY <1>4 DEF G!NotConfigured, G!Conclude, G!Reply
<1>5. QED  BY <1>1, <1>2, <1>3, <1>4 DEF Gate

\* What device and gateway do between them hands nothing over.
LEMMA PassageSeams ==
  ASSUME Seams, NEW d \in Requests, Passage(d)
  PROVE  Seams'
<1> USE DEF Seams, Shape, Handed, Given
<1>1. CASE GetPolicies(d) \/ RequestCertificate(d)
  BY <1>1 DEF GetPolicies, RequestCertificate, Post, G!Send, vars, CertsOf, G!Stages
<1>2. CASE AnswerChallenge(d)
  BY <1>2 DEF AnswerChallenge, G!Continue, deviceVars, vars, CertsOf, G!Stages
<1>3. ASSUME NEW from, NEW to, NEW what, Read(d, from, to, what)  PROVE Seams'
  BY <1>3 DEF Read, G!Finish, vars, CertsOf, G!Stages
<1>4. CASE ReadPolicies(d) \/ ReadResponse(d)
  BY <1>3, <1>4 DEF ReadPolicies, ReadResponse
<1>5. CASE Gate(d)
  <2>1. CASE G!Authenticate(d)
    BY <1>5, <2>1 DEF Gate, G!Authenticate, G!Complete, deviceVars, vars, CertsOf, G!Stages
  <2>2. ASSUME NEW given, G!Respond(d, given), given.body # "certificate",
               UNCHANGED <<valid, configured>>
        PROVE  Seams'
    BY <1>5, <2>2 DEF Gate, G!Respond, deviceVars, vars, CertsOf, G!Stages
  <2>3. QED  BY <1>5, <2>1, <2>2, GateAnswers
<1>6. CASE Disconnect(d)
  BY <1>6 DEF Disconnect, G!Lose, deviceVars, vars, CertsOf, G!Stages
<1>7. QED  BY <1>1, <1>2, <1>4, <1>5, <1>6 DEF Passage, Device, GoOn

\* Every step of the service keeps the seams.
LEMMA SeamsStep ==
  ASSUME Handler, Seams, [ServiceNext]_serviceVars
  PROVE  Seams'
<1>0. TypeOK /\ SignedIsReal
  BY DEF Handler
<1>1. ASSUME NEW d \in Requests, Passage(d)  PROVE Seams'
  BY <1>1, PassageSeams
<1>2. ASSUME NEW d \in Requests, HandOver(d)  PROVE Seams'
  <2>1. /\ d \in valid /\ configured /\ pc' = [pc EXCEPT ![d] = "received"]
        /\ UNCHANGED <<configured, valid, answer, progress, result, signed>>
        /\ stage' = [stage EXCEPT ![d] = "enrolling"]
    BY <1>2 DEF HandOver, G!Enroll, Receive, Seams, Handed, deviceVars, caVars
  <2>2. QED  BY <1>0, <2>1 DEF TypeOK, Seams, Shape, Handed, Given, CertsOf, G!Stages
<1>3. CASE Work
  <2>1. UNCHANGED <<configured, valid, stage, answer, progress, result>>
    BY <1>3 DEF Work, gatewayVars, deviceVars
  <2>2. /\ signed \subseteq signed'
        /\ \A d \in Requests : pc[d] = "idle" => pc'[d] = "idle"
    BY <1>0, <1>3, RunStep, CaStep DEF Work, Running, Ops, Decided
  <2>3. QED  BY <2>1, <2>2 DEF Seams, Shape, Handed, Given, CertsOf
<1>4. ASSUME NEW d \in Requests, Respond(d)  PROVE Seams'
  <2>1. UNCHANGED <<configured, valid, progress, result, pc, signed>>
    BY <1>4 DEF Respond, G!ReturnOf, vars, deviceVars
  <2>2. PICK token, body : /\ G!Respond(d, G!Reply(200, token, body))
                           /\ pc[d] = "issued" \/ (body \in {"error", "SenderFault"} /\ pc[d] = "failed")
    BY <1>4 DEF Respond, G!ReturnOf, G!Conclude, G!Bodies
  <2>3. pc[d] = "issued" => CertsOf(d) # {}
    BY <1>0 DEF SignedIsReal
  <2>4. QED
    BY <2>1, <2>2, <2>3 DEF G!Respond, G!Reply, Seams, Shape, Handed, Given, CertsOf, G!Stages
<1>5. ASSUME NEW d \in Requests, Die(d)  PROVE Seams'
  <2>1. /\ UNCHANGED <<configured, valid, answer, progress, result>>
        /\ stage' = [stage EXCEPT ![d] = "lost"]
    BY <1>5 DEF Die, G!Lose, deviceVars
  <2>2. signed' = signed /\ \A e \in Requests : pc[e] = "idle" => pc'[e] = "idle"
    BY <1>0, <1>5, RunStep DEF Die, Running, Ops, Decided
  <2>3. QED  BY <2>1, <2>2 DEF Seams, Shape, Handed, Given, CertsOf, G!Stages
<1>6. CASE UNCHANGED serviceVars
  BY <1>6 DEF serviceVars, vars, gatewayVars, deviceVars, Seams, Shape, Handed, Given, CertsOf
<1>7. QED
  BY <1>1, <1>2, <1>3, <1>4, <1>5, <1>6 DEF ServiceNext, Proxy, Passage

\* The seams hold always.
LEMMA SeamsHold == ServiceSpec => [](Handler /\ Seams)
  BY HandlerHolds, SeamsInit, SeamsStep, PTL DEF ServiceSpec

-----------------------------------------------------------------------------
(***************************************************************************)
(* The promise.                                                            *)
(***************************************************************************)
\* What a device was told is a matter of its own two variables.
LEMMA SameWord ==
  ASSUME UNCHANGED <<job, valid, configured, signed, progress, result>>
  PROVE  UNCHANGED Word!vars
  BY DEF Word!vars, Entitled

\* What a device reads in a response: a certificate that is there, or none,
\* which it takes for a success only on EJBCA's own words.
LEMMA RstrCases ==
  ASSUME NEW d \in Requests, NEW what \in RstrSays(d)
  PROVE  \/ what.certificate = TRUE /\ stage[d] = "answered" /\ answer[d].body = "certificate"
         \/ /\ what.certificate = FALSE
            /\ what.status = "issued" => Tells(d, "VALIDATION_ERROR")
<1> USE DEF Says
<1>1. CASE stage[d] = "answered" /\ answer[d].body = "certificate"
  BY <1>1 DEF RstrSays
<1>2. CASE stage[d] = "answered" /\ answer[d].body \in {"rawCertificate", "error"}
  <2>1. what \in {Says("unknown")} \cup
           (IF Tells(d, "VALIDATION_ERROR")
            THEN {Says(s) : s \in {"issued", "pending", "denied"}} ELSE {})
    BY <1>2 DEF RstrSays
  <2>2. CASE what = Says("unknown")
    BY <2>2
  <2>3. CASE Tells(d, "VALIDATION_ERROR") /\ what \in {Says(s) : s \in {"issued", "pending", "denied"}}
    BY <2>3
  <2>4. QED  BY <2>1, <2>2, <2>3
<1>3. CASE ~(stage[d] = "answered" /\ answer[d].body \in {"certificate", "rawCertificate", "error"})
  BY <1>3 DEF RstrSays
<1>4. QED  BY <1>1, <1>2, <1>3

\* Every step of the service is a step of Certification, or none.
LEMMA WordStep ==
  ASSUME Handler, Seams, [ServiceNext]_serviceVars
  PROVE  [Word!Next]_(Word!vars)
<1>0. TypeOK
  BY DEF Handler
<1>1. ASSUME NEW d \in Requests, NEW from, NEW to, NEW where, Post(d, from, where, to),
             from # "done", to # "done"
      PROVE  UNCHANGED Word!vars
  <2>1. \A e \in Requests : progress'[e] = "done" <=> progress[e] = "done"
    BY <1>1 DEF Post, Seams, Shape
  <2>2. UNCHANGED <<job, valid, configured, signed, result>>
    BY <1>1 DEF Post, G!Send, vars
  <2>3. QED  BY <2>1, <2>2 DEF Word!vars, Entitled
<1>2. ASSUME NEW d \in Requests, NEW from, NEW to, NEW what, Read(d, from, to, what),
             from # "done", what.certificate \in BOOLEAN, what.certificate => CertsOf(d) # {}
      PROVE  [Word!Next]_(Word!vars)
  <2>1. UNCHANGED <<job, valid, configured, signed>>
    BY <1>2 DEF Read, G!Finish, vars
  <2>2. /\ progress[d] # "done" /\ progress'[d] = to /\ result'[d] = what
        /\ \A e \in Requests \ {d} : progress'[e] = progress[e] /\ result'[e] = result[e]
    BY <1>2 DEF Read, Seams, Shape
  <2>3. CASE to # "done"
    BY <2>1, <2>2, <2>3 DEF Word!vars, Entitled
  <2>4. CASE to = "done"
    <3>1. what.certificate => d \in {c.csr : c \in signed}
      BY <1>2 DEF CertsOf
    <3>2. Word!Tell(d)
      BY <2>1, <2>2, <2>4, <3>1 DEF Word!Tell, Entitled
    <3>3. QED  BY <3>2 DEF Word!Next
  <2>5. QED  BY <2>3, <2>4
<1>3. ASSUME NEW d \in Requests, Device(d)  PROVE [Word!Next]_(Word!vars)
  <2>1. CASE GetPolicies(d) \/ RequestCertificate(d)
    BY <1>1, <2>1 DEF GetPolicies, RequestCertificate
  <2>2. CASE AnswerChallenge(d)
    BY <2>2, SameWord DEF AnswerChallenge, G!Continue, vars, deviceVars
  <2>3. CASE ReadPolicies(d)
    BY <1>2, <2>3 DEF ReadPolicies, NoResult, Says
  <2>4. CASE ReadResponse(d)
    <3>1. PICK what \in RstrSays(d) : Read(d, "asking", "done", what)
      BY <2>4 DEF ReadResponse
    <3>2. /\ what.certificate \in BOOLEAN
          /\ what.certificate => stage[d] = "answered" /\ answer[d].body = "certificate"
      BY <3>1, RstrCases
    <3>3. QED  BY <1>2, <3>1, <3>2 DEF Seams, Given
  <2>5. QED  BY <1>3, <2>1, <2>2, <2>3, <2>4 DEF Device, GoOn
<1>4. ASSUME NEW d \in Requests, Gate(d) \/ Disconnect(d) \/ Respond(d)
      PROVE  UNCHANGED Word!vars
  BY <1>4, SameWord DEF Gate, Disconnect, Respond, G!Challenge, G!Authenticate, G!Reject,
       G!Policies, G!NotConfigured, G!Lose, G!ReturnOf, vars, deviceVars
<1>5. ASSUME NEW d \in Requests, HandOver(d)  PROVE UNCHANGED Word!vars
  BY <1>5, SameWord DEF HandOver, G!Enroll, Receive, caVars, deviceVars
<1>6. ASSUME NEW d \in Requests, Die(d)  PROVE UNCHANGED Word!vars
  BY <1>6, SameWord DEF Die, G!Lose, Crash, End, caVars, deviceVars
<1>7. CASE Work
  <2>1. UNCHANGED <<valid, configured, progress, result>>
    BY <1>7 DEF Work, gatewayVars, deviceVars
  <2>2. CASE \E r \in Requests : Step(r)
    BY <1>0, <2>1, <2>2, RunStep, SameWord
  <2>3. ASSUME NEW m \in net, Serve(m)  PROVE [Word!Next]_(Word!vars)
    <3>1. m.req \in Requests /\ m.req \in Entitled /\ UNCHANGED Entitled
      BY <2>1, <2>3, CaStep DEF Seams, Handed, Entitled
    <3>2. CASE {c.csr : c \in signed'} = {c.csr : c \in signed}
      BY <2>1, <3>1, <3>2 DEF Word!vars
    <3>3. CASE {c.csr : c \in signed'} = {c.csr : c \in signed} \cup {m.req}
      BY <2>1, <3>1, <3>3 DEF Word!Next, Word!Sign
    <3>4. QED  BY <2>3, <3>2, <3>3, CaStep
  <2>4. QED  BY <1>7, <2>2, <2>3 DEF Work
<1>8. CASE UNCHANGED serviceVars
  BY <1>8, SameWord DEF serviceVars, vars, gatewayVars, deviceVars
<1>9. QED
  BY <1>3, <1>4, <1>5, <1>6, <1>7, <1>8 DEF ServiceNext, Proxy

\* The whole proxy keeps the promise of Certification to devices and CA,
\* whatever connections break, workers die and calls are late or repeated.
THEOREM WordKept == ServiceSpec => KeepsWord
<1>1. ServiceInit => Word!Init
  BY DEF ServiceInit, Init, Word!Init, Entitled
<1>2. QED
  BY <1>1, SeamsHold, WordStep, PTL DEF ServiceSpec, KeepsWord, Word!Spec

-----------------------------------------------------------------------------
(***************************************************************************)
(* The course of a device through gateway and handler.                     *)
(***************************************************************************)
\* Where the device, its request and the handler may be at the same time;
\* calls have outcomes.
Course(d) ==
    /\ stage[d] = "idle" <=> progress[d] \in {"new", "listed", "done"}
    /\ pc[d] # "idle" => progress[d] \in {"asking", "done"}
    /\ stage[d] # "idle" => path[d] = IF progress[d] = "asking" THEN "ces" ELSE "cep"
    /\ \A c \in enrolled[d] : "outcome" \in DOMAIN c

\* HandOverAgrees, of one device.
Agrees(d) ==
    /\ stage[d] = "enrolling" => pc[d] \notin {"idle", "dead"}
    /\ pc[d] \in Running => stage[d] \in {"enrolling", "lost", "idle"}
    /\ \A c \in enrolled[d] : \/ c.outcome = "running"
                              \/ c.outcome = "issued" /\ pc[d] = "issued"
                              \/ c.outcome = "error" /\ pc[d] = "failed"

\* An answer of the certificate endpoint is enroll's, and a device that needs
\* one token is challenged once at most.
Answers(d) ==
    /\ stage[d] = "answered" /\ path[d] = "ces" /\ configured /\ answer[d].status # 401 =>
        \/ pc[d] = "issued" /\ answer[d].body \in G!Certificates \cup {"SenderFault"}
        \/ pc[d] = "failed"
    /\ Legs[d] = 1 /\ d \in valid /\ stage[d] # "idle" =>
        /\ leg[d] \in {0, 1}
        /\ stage[d] = "answered" /\ answer[d].status = 401 => leg[d] = 0

Way(d) == Course(d) /\ Agrees(d) /\ Answers(d)

Domains ==
    /\ Shape
    /\ DOMAIN path = Requests /\ DOMAIN leg = Requests /\ DOMAIN enrolled = Requests

WayInv == Domains /\ \A d \in Requests : Way(d)

\* At the start every device has its way before it.
LEMMA WayInit == ServiceInit => WayInv
  BY DEF ServiceInit, Init, G!Init, WayInv, Domains, Shape, Way, Course, Agrees, Answers,
         G!Stages, Running, Ops, Decided

\* What does not touch a device leaves it on its way.
LEMMA WayFrame ==
  ASSUME NEW e \in Requests, Way(e), UNCHANGED <<configured, valid>>,
         stage'[e] = stage[e], path'[e] = path[e], leg'[e] = leg[e], pc'[e] = pc[e],
         enrolled'[e] = enrolled[e], answer'[e] = answer[e], progress'[e] = progress[e]
  PROVE  Way(e)'
  BY DEF Way, Course, Agrees, Answers

\* The steps of a device keep it on its way.
LEMMA DeviceWay ==
  ASSUME WayInv, NEW d \in Requests, Device(d)
  PROVE  WayInv'
<1>0. Domains /\ Way(d)
  BY DEF WayInv
<1> USE DEF Domains, Shape
<1>1. ASSUME NEW from, NEW to, NEW where, Post(d, from, where, to),
             from \in {"new", "listed"},
             \/ where = "cep" /\ to = "listing"
             \/ where = "ces" /\ to = "asking"
      PROVE  WayInv'
  <2>1. /\ UNCHANGED <<configured, valid, pc, enrolled, answer, result>>
        /\ progress[d] = from /\ progress'[d] = to /\ stage'[d] = "sent"
        /\ path'[d] = where /\ leg'[d] \in {0, 1}
    BY <1>0, <1>1 DEF Post, G!Send, FirstLeg, vars
  <2>2. \A e \in Requests \ {d} : /\ stage'[e] = stage[e] /\ path'[e] = path[e]
                                  /\ leg'[e] = leg[e] /\ progress'[e] = progress[e]
    BY <1>0, <1>1 DEF Post, G!Send
  <2>3. Domains'
    BY <1>0, <1>1 DEF Post, G!Send, G!Stages
  <2>4. pc[d] = "idle"
    BY <1>0, <1>1, <2>1 DEF Way, Course
  <2>5. Way(d)'
    BY <1>0, <1>1, <2>1, <2>4 DEF Way, Course, Agrees, Answers, Running, Ops, Decided
  <2>6. \A e \in Requests \ {d} : Way(e)'
    BY <2>1, <2>2, WayFrame DEF WayInv
  <2>7. QED  BY <2>3, <2>5, <2>6 DEF WayInv
<1>2. CASE GetPolicies(d) \/ RequestCertificate(d)
  BY <1>1, <1>2 DEF GetPolicies, RequestCertificate
<1>3. CASE AnswerChallenge(d)
  <2>1. /\ UNCHANGED <<configured, valid, path, enrolled, pc, progress, result>>
        /\ stage[d] = "answered" /\ answer[d].status = 401
        /\ stage' = [stage EXCEPT ![d] = "sent"]
        /\ (leg[d] = 0 /\ leg'[d] = 1) \/ (leg[d] = 1 /\ leg'[d] = 2)
    BY <1>0, <1>3 DEF AnswerChallenge, G!Continue, vars, deviceVars
  <2>2. Way(d)'
    BY <1>0, <2>1 DEF Way, Course, Agrees, Answers, Running, Ops, Decided
  <2>3. \A e \in Requests \ {d} : Way(e)'
    BY <1>0, <1>3, <2>1, WayFrame DEF AnswerChallenge, G!Continue, WayInv
  <2>4. Domains'
    BY <1>0, <1>3, <2>1 DEF AnswerChallenge, G!Continue, G!Stages
  <2>5. QED  BY <2>2, <2>3, <2>4 DEF WayInv
<1>4. ASSUME NEW from, NEW to, NEW what, Read(d, from, to, what),
             \/ from = "listing" /\ to \in {"listed", "done"}
             \/ from = "asking" /\ to = "done"
      PROVE  WayInv'
  <2>1. /\ UNCHANGED <<configured, valid, pc>>
        /\ progress[d] = from /\ progress'[d] = to
        /\ stage'[d] = "idle" /\ enrolled'[d] = {}
    BY <1>0, <1>4 DEF Read, G!Finish, vars
  <2>2. Way(d)'
    BY <1>0, <1>4, <2>1 DEF Way, Course, Agrees, Answers
  <2>3. \A e \in Requests \ {d} : Way(e)'
    BY <1>0, <1>4, <2>1, WayFrame DEF Read, G!Finish, WayInv
  <2>4. Domains'
    BY <1>0, <1>4 DEF Read, G!Finish, G!Stages
  <2>5. QED  BY <2>2, <2>3, <2>4 DEF WayInv
<1>5. CASE ReadPolicies(d) \/ ReadResponse(d)
  BY <1>4, <1>5 DEF ReadPolicies, ReadResponse
<1>6. QED  BY <1>2, <1>3, <1>5 DEF Device, GoOn

\* The steps of the gateway before the handler keep every device on its way.
LEMMA GateWay ==
  ASSUME WayInv, NEW d \in Requests, Gate(d)
  PROVE  WayInv'
<1>0. Domains /\ Way(d)
  BY DEF WayInv
<1>1. UNCHANGED <<pc, progress, result>>
  BY DEF Gate, vars, deviceVars
<1>2. CASE G!Authenticate(d)
  <2>1. /\ UNCHANGED <<configured, valid, path, leg, enrolled, answer>>
        /\ stage[d] = "sent" /\ stage' = [stage EXCEPT ![d] = "authenticated"]
    BY <1>2 DEF G!Authenticate
  <2>2. Way(d)'
    BY <1>0, <1>1, <2>1 DEF Domains, Shape, Way, Course, Agrees, Answers, Running, Ops, Decided
  <2>3. \A e \in Requests \ {d} : Way(e)'
    BY <1>0, <1>1, <2>1, WayFrame DEF Domains, Shape, WayInv
  <2>4. Domains'
    BY <1>0, <1>1, <2>1 DEF Domains, Shape, G!Stages
  <2>5. QED  BY <2>2, <2>3, <2>4 DEF WayInv
<1>3. ASSUME NEW given, G!Respond(d, given),
             UNCHANGED <<configured, valid, path, kind, leg, identity, enrolled>>,
             path[d] = "ces" /\ configured => given.status = 401,
             given.status = 401 => leg[d] \in {0, 3} \/ (leg[d] \in {1, 2} /\ ~G!Complete(d)),
             stage[d] \in {"sent", "authenticated"}
      PROVE  WayInv'
  <2>1. /\ stage' = [stage EXCEPT ![d] = "answered"]
        /\ answer' = [answer EXCEPT ![d] = given]
    BY <1>3 DEF G!Respond
  <2>2. Legs[d] = 1 /\ d \in valid /\ leg[d] = 1 => G!Complete(d)
    <3>1. 1 .. 1 = {1}
      OBVIOUS
    <3>2. QED  BY <3>1 DEF G!Complete, G!Seen
  <2>3. Way(d)'
    BY <1>0, <1>1, <1>3, <2>1, <2>2 DEF Domains, Shape, Way, Course, Agrees, Answers, Running, Ops, Decided
  <2>4. \A e \in Requests \ {d} : Way(e)'
    BY <1>0, <1>1, <1>3, <2>1, WayFrame DEF Domains, Shape, WayInv
  <2>5. Domains'
    BY <1>0, <1>1, <1>3, <2>1 DEF Domains, Shape, G!Stages
  <2>6. QED  BY <2>3, <2>4, <2>5 DEF WayInv
<1>4. QED  BY <1>2, <1>3, GateAnswers

\* So does the call of enroll,
LEMMA HandOverWay ==
  ASSUME WayInv, TypeOK, NEW d \in Requests, HandOver(d)
  PROVE  WayInv'
<1>0. Domains /\ Way(d)
  BY DEF WayInv
<1>1. /\ UNCHANGED <<configured, valid, path, leg, answer, progress, result>>
      /\ stage[d] = "authenticated" /\ stage' = [stage EXCEPT ![d] = "enrolling"]
      /\ path[d] = "ces"
      /\ enrolled' = [enrolled EXCEPT ![d] = @ \cup G!CallsOf(d)]
      /\ pc[d] = "idle" /\ pc' = [pc EXCEPT ![d] = "received"]
  BY DEF HandOver, G!Enroll, Receive, deviceVars
<1>2. progress[d] = "asking"
  BY <1>0, <1>1 DEF Way, Course
<1>3. \A c \in enrolled'[d] : c.outcome = "running" /\ "outcome" \in DOMAIN c
  <2>1. \A c \in G!CallsOf(d) : c.outcome = "running" /\ "outcome" \in DOMAIN c
    BY DEF G!CallsOf
  <2>2. \A c \in enrolled[d] : c.outcome = "running" /\ "outcome" \in DOMAIN c
    BY <1>0, <1>1 DEF Way, Course, Agrees
  <2>3. enrolled'[d] = enrolled[d] \cup G!CallsOf(d)
    BY <1>0, <1>1 DEF Domains
  <2>4. QED  BY <2>1, <2>2, <2>3
<1>4. pc'[d] = "received" /\ stage'[d] = "enrolling"
  BY <1>0, <1>1 DEF TypeOK, Domains, Shape
<1>5. Way(d)'
  BY <1>0, <1>1, <1>2, <1>3, <1>4 DEF Way, Course, Agrees, Answers
<1>6. \A e \in Requests \ {d} : Way(e)'
  BY <1>0, <1>1, WayFrame DEF Domains, Shape, WayInv, TypeOK
<1>7. Domains'
  BY <1>0, <1>1 DEF Domains, Shape, G!Stages
<1>8. QED  BY <1>5, <1>6, <1>7 DEF WayInv

\* and its return, which turns the outcome to an answer,
LEMMA RespondWay ==
  ASSUME WayInv, NEW d \in Requests, Respond(d)
  PROVE  WayInv'
<1>0. Domains /\ Way(d)
  BY DEF WayInv
<1>1. PICK outcome \in {"issued", "error"} :
        /\ pc[d] = (IF outcome = "issued" THEN "issued" ELSE "failed")
        /\ G!ReturnOf(d, outcome)
  BY DEF Respond
<1>2. PICK token, body : /\ body \in G!Bodies[outcome]
                         /\ G!Respond(d, G!Reply(200, token, body))
  BY <1>1 DEF G!ReturnOf, G!Conclude
<1>3. /\ UNCHANGED <<configured, valid, path, leg, progress, result, pc>>
      /\ stage[d] = "enrolling" /\ stage' = [stage EXCEPT ![d] = "answered"]
      /\ answer' = [answer EXCEPT ![d] = G!Reply(200, token, body)]
      /\ enrolled' = [enrolled EXCEPT ![d] = {[c EXCEPT !.outcome = outcome] : c \in @}]
  BY <1>1, <1>2 DEF Respond, G!ReturnOf, G!Respond, vars, deviceVars
<1>4. \A c \in enrolled'[d] : c.outcome = outcome /\ "outcome" \in DOMAIN c
  <2>1. \A c \in enrolled[d] : "outcome" \in DOMAIN c
    BY <1>0 DEF Way, Course
  <2>2. enrolled'[d] = {[c EXCEPT !.outcome = outcome] : c \in enrolled[d]}
    BY <1>0, <1>3 DEF Domains
  <2>3. QED  BY <2>1, <2>2
<1>5. /\ stage'[d] = "answered" /\ answer'[d].status = 200 /\ answer'[d].body = body
      /\ body \in G!Certificates \cup {"SenderFault"} \/ pc[d] = "failed"
  BY <1>0, <1>1, <1>2, <1>3 DEF Domains, Shape, G!Reply, G!Bodies
<1>6. Way(d)'
  BY <1>0, <1>1, <1>3, <1>4, <1>5 DEF Way, Course, Agrees, Answers, Running, Ops, Decided
<1>7. \A e \in Requests \ {d} : Way(e)'
  BY <1>0, <1>3, WayFrame DEF Domains, Shape, WayInv
<1>8. Domains'
  BY <1>0, <1>3 DEF Domains, Shape, G!Stages
<1>9. QED  BY <1>6, <1>7, <1>8 DEF WayInv

\* Connections and workers that are lost; the handler's and EJBCA's own steps.
LEMMA LossWay ==
  ASSUME WayInv, TypeOK, NEW d \in Requests, Disconnect(d) \/ Die(d)
  PROVE  WayInv'
<1>0. Domains /\ Way(d)
  BY DEF WayInv
<1>1. /\ UNCHANGED <<configured, valid, path, leg, enrolled, answer, progress, result>>
      /\ stage[d] \in {"sent", "authenticated", "enrolling"}
      /\ stage' = [stage EXCEPT ![d] = "lost"]
      /\ \A e \in Requests \ {d} : pc'[e] = pc[e]
      /\ pc'[d] = pc[d] \/ (pc[d] \in Running /\ pc'[d] \in Running \cup Ended)
  BY RunStep DEF Disconnect, Die, G!Lose, vars, deviceVars
<1>2. stage'[d] = "lost"
  BY <1>0, <1>1 DEF Domains, Shape
<1>3. Way(d)'
  BY <1>0, <1>1, <1>2 DEF Way, Course, Agrees, Answers, Running, Ops, Decided, Ended
<1>4. \A e \in Requests \ {d} : Way(e)'
  BY <1>0, <1>1, WayFrame DEF Domains, Shape, WayInv
<1>5. Domains'
  BY <1>0, <1>1 DEF Domains, Shape, G!Stages
<1>6. QED  BY <1>3, <1>4, <1>5 DEF WayInv

\* and what the handler and EJBCA do in between.
LEMMA WorkWay ==
  ASSUME WayInv, Handler, Work
  PROVE  WayInv'
<1>0. TypeOK /\ Domains /\ \A e \in Requests : Way(e)
  BY DEF WayInv, Handler
<1>1. UNCHANGED <<configured, valid, stage, path, leg, enrolled, answer, progress, result>>
  BY DEF Work, gatewayVars, deviceVars
<1>2. Domains'
  BY <1>0, <1>1 DEF Domains, Shape
<1>3. ASSUME NEW r \in Requests, Step(r)  PROVE WayInv'
  <2>1. /\ pc[r] \in Running /\ pc'[r] \in (Running \cup Ended) \ {"dead"}
        /\ \A d \in Requests \ {r} : pc'[d] = pc[d]
    BY <1>0, <1>3, RunStep
  <2>3. Way(r)'
    BY <1>0, <1>1, <2>1 DEF Way, Course, Agrees, Answers, Running, Ops, Decided, Ended
  <2>4. \A d \in Requests \ {r} : Way(d)'
    BY <1>0, <1>1, <2>1, WayFrame
  <2>5. QED  BY <1>2, <2>3, <2>4 DEF WayInv
<1>4. ASSUME NEW m \in net, Serve(m)  PROVE WayInv'
  <2>1. pc' = pc
    BY <1>4, CaStep
  <2>2. QED  BY <1>0, <1>1, <1>2, <2>1, WayFrame DEF WayInv
<1>5. QED  BY <1>3, <1>4 DEF Work

\* Together: every step of the service.
LEMMA WayStep ==
  ASSUME WayInv, Handler, [ServiceNext]_serviceVars
  PROVE  WayInv'
<1>0. TypeOK
  BY DEF Handler
<1>1. CASE UNCHANGED serviceVars
  BY <1>1, WayFrame DEF serviceVars, vars, gatewayVars, deviceVars, WayInv, Domains, Shape
<1>2. QED
  BY <1>0, <1>1, DeviceWay, GateWay, HandOverWay, RespondWay, LossWay, WorkWay
     DEF ServiceNext, Proxy

\* Each device is on its way always.
LEMMA WayHolds == ServiceSpec => [](Handler /\ Seams /\ WayInv)
  BY SeamsHold, WayInit, WayStep, PTL DEF ServiceSpec

\* Gateway and handler agree on the request between them in every
\* interleaving of devices, threads, late calls, lost connections and deaths.
THEOREM Agreement == ServiceSpec => []HandOverAgrees
<1>1. WayInv => HandOverAgrees
  BY DEF WayInv, Way, Agrees, HandOverAgrees
<1>2. QED  BY <1>1, WayHolds, PTL

\* A device that needs one token gets the certificate of its admissible
\* request, unless EJBCA's faults or a rival disturb it.
THEOREM DeviceCertified == ServiceSpec => []UndisturbedDeviceCertified
<1>1. ASSUME Handler, WayInv  PROVE UndisturbedDeviceCertified
  <2>1. SUFFICES ASSUME NEW d \in Requests, stage[d] = "answered", path[d] = "ces",
                        G!Final(d), d \in Entitled, Legs[d] = 1, d \notin disturbed
                 PROVE  pc[d] = "issued" /\ answer[d].body \in G!Certificates \cup {"SenderFault"}
    BY DEF UndisturbedDeviceCertified
  <2>2. Answers(d) /\ configured /\ d \in valid /\ Admissible(job[d])
    BY <1>1, <2>1 DEF WayInv, Way, Entitled
  <2>3. answer[d].status # 401
    BY <2>1, <2>2 DEF G!Final, Answers
  <2>4. pc[d] # "failed"
    BY <1>1, <2>1, <2>2 DEF Handler, UndisturbedSucceeds
  <2>5. QED  BY <2>1, <2>2, <2>3, <2>4 DEF Answers
<1>2. QED  BY <1>1, WayHolds, PTL

\* Certificates and the events of the audit log are there to stay.
LEMMA Remembered ==
  ASSUME Handler, [Next]_vars
  PROVE  /\ signed \subseteq signed'
         /\ \A d \in Requests, e \in Events : Tells(d, e) => Tells(d, e)'
<1>1. TypeOK
  BY DEF Handler
<1>2. CASE UNCHANGED audit /\ signed \subseteq signed'
  BY <1>2 DEF Tells
<1>3. ASSUME NEW r \in Requests, Receive(r)  PROVE UNCHANGED <<audit, signed>>
  BY <1>3 DEF Receive, caVars
<1>4. ASSUME NEW r \in Requests, Step(r) \/ Crash(r)
      PROVE  /\ signed' = signed
             /\ \A d \in Requests, e \in Events : Tells(d, e) => Tells(d, e)'
  <2>1. \A d \in Requests \ {r} : audit'[d] = audit[d]
    BY <1>1, <1>4, RunStep
  <2>2. \A d \in Requests \ {r}, e \in Events : Tells(d, e) => Tells(d, e)'
    BY <2>1 DEF Tells
  <2>3. QED  BY <1>1, <1>4, <2>2, RunStep
<1>5. CASE UNCHANGED vars
  BY <1>2, <1>5 DEF vars
<1>6. QED  BY <1>2, <1>3, <1>4, <1>5, CaStep DEF Next

\* A device that tells its user of success has a certificate the CA signed,
\* or repeats what EJBCA said.
THEOREM Success == ServiceSpec => []SuccessHasCertificate
<1>1. ServiceInit => SuccessHasCertificate
  BY DEF ServiceInit, SuccessHasCertificate, NoResult, Says
<1>2. ASSUME Handler, Seams, SuccessHasCertificate, [ServiceNext]_serviceVars
      PROVE  SuccessHasCertificate'
  <2>1. /\ signed \subseteq signed'
        /\ \A d \in Requests :
              Tells(d, "VALIDATION_ERROR") => Tells(d, "VALIDATION_ERROR")'
    BY <1>2, InnerStep, Remembered DEF Events, Failures
  <2>2. valid' = valid
    BY <1>2 DEF ServiceNext, Device, GoOn, GetPolicies, RequestCertificate, Post, G!Send,
         AnswerChallenge, G!Continue, ReadPolicies, ReadResponse, Read, G!Finish, Proxy, Gate,
         G!Challenge, G!Authenticate, G!Reject, G!Policies, G!NotConfigured, HandOver, G!Enroll,
         Respond, G!ReturnOf, Disconnect, Die, G!Lose, Work, gatewayVars, serviceVars
  <2>3. CASE result' = result
    BY <1>2, <2>1, <2>2, <2>3 DEF SuccessHasCertificate, CertsOf
  <2>4. ASSUME NEW d \in Requests, ReadPolicies(d) \/ ReadResponse(d)
        PROVE  SuccessHasCertificate'
    <3>1. PICK what : /\ result' = [result EXCEPT ![d] = what]
                      /\ what.status # "issued" \/ what \in RstrSays(d)
      <4>1. ASSUME ReadPolicies(d)
            PROVE  \E what : result' = [result EXCEPT ![d] = what] /\ what.status # "issued"
        <5>1. \/ result' = [result EXCEPT ![d] = Says("unknown")]
              \/ result' = [result EXCEPT ![d] = Says("error")]
          BY <4>1 DEF ReadPolicies, Read, NoResult
        <5>2. Says("unknown").status # "issued" /\ Says("error").status # "issued"
          BY DEF Says
        <5>3. QED  BY <5>1, <5>2
      <4>2. ASSUME ReadResponse(d)
            PROVE  \E what \in RstrSays(d) : result' = [result EXCEPT ![d] = what]
        BY <4>2 DEF ReadResponse, Read
      <4>3. QED  BY <2>4, <4>1, <4>2
    <3>2. what.status = "issued" =>
            \/ what.certificate /\ CertsOf(d) # {} /\ d \in valid
            \/ ~what.certificate /\ Tells(d, "VALIDATION_ERROR")
      BY <1>2, <3>1, RstrCases DEF Seams, Given
    <3>3. \A e \in Requests : result'[e] = IF e = d THEN what ELSE result[e]
      BY <1>2, <3>1 DEF Seams, Shape
    <3>4. QED
      BY <1>2, <2>1, <2>2, <3>2, <3>3 DEF SuccessHasCertificate, CertsOf
  <2>5. (\E d \in Requests : ReadPolicies(d) \/ ReadResponse(d)) \/ result' = result
    BY <1>2 DEF ServiceNext, Device, GoOn, GetPolicies, RequestCertificate, Post, AnswerChallenge,
         Proxy, Gate, HandOver, Respond, Disconnect, Die, Work, deviceVars, serviceVars
  <2>6. QED  BY <2>3, <2>4, <2>5
<1>3. QED  BY <1>1, <1>2, SeamsHold, PTL DEF ServiceSpec
=============================================================================
