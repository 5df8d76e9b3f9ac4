----------------------------- MODULE GatewayProofs -----------------------------
(***************************************************************************)
(* EnrolledAsCaller and AnswerTellsOutcome hold for every set of devices,  *)
(* whatever tokens they send.  Neither is inductive: what enroll was       *)
(* called with follows from where the request was before, which Before     *)
(* says for each stage.                                                    *)
(***************************************************************************)
EXTENDS Gateway, TLAPS

OutcomesOf(calls) == {c.outcome : c \in calls}

\* Until its exchange is complete a request has no identity, until it gets to
\* enroll no call, and until it is answered no answer.
Before(d) ==
    /\ stage[d] \in {"idle", "sent"} => identity[d] = {}
    /\ identity[d] # {} => identity[d] = {d} /\ d \in valid
    /\ stage[d] = "authenticated" => identity[d] = {d}
    /\ stage[d] \in {"idle", "sent", "authenticated"} => enrolled[d] = {}
    /\ stage[d] = "enrolling" =>
        /\ kind[d] = "complete" /\ d \in valid
        /\ enrolled[d] = {[principal |-> d, outcome |-> "running"]}
    /\ stage[d] # "answered" => answer[d] = NoAnswer
    /\ answer[d].status = 401 => identity[d] = {}

\* EnrolledAsCaller and AnswerTellsOutcome, of one device.
Caller(d) ==
    /\ \A c \in enrolled[d] : d \in valid /\ c.principal = d
    /\ answer[d].status = 401 => enrolled[d] = {}

Told(d) == stage[d] = "answered" =>
    /\ answer[d].body \in Certificates => OutcomesOf(enrolled[d]) = {"issued"}
    /\ answer[d].body = "error" => OutcomesOf(enrolled[d]) = {"error"}
    /\ answer[d].body = "SenderFault" => OutcomesOf(enrolled[d]) = {} \/ kind[d] = "complete"
    /\ answer[d].body \in {"ReceiverFault", "none", "ok", "policies"}
        => OutcomesOf(enrolled[d]) = {}

Parts(d) == Before(d) /\ Caller(d) /\ Told(d)

IInv == TypeOK /\ \A d \in Devices : Parts(d)

\* At the start no device has begun.
LEMMA InitIInv == Init => IInv
<1> SUFFICES ASSUME Init PROVE IInv
  OBVIOUS
<1>1. TypeOK
  BY DEF Init, TypeOK, Stages, Paths, Kinds, Answers, NoAnswer, Reply
<1>2. ASSUME NEW d \in Devices PROVE Parts(d)
  BY DEF Init, Parts, Before, Caller, Told, NoAnswer, Reply
<1>3. QED  BY <1>1, <1>2 DEF IInv

\* Steps of a device: its requests, its patience, a connection that breaks.
LEMMA DeviceTypes ==
  ASSUME TypeOK, NEW d \in Devices,
         Begin(d) \/ Continue(d) \/ Finish(d) \/ Lose(d)
  PROVE  TypeOK'
<1> USE DEF TypeOK, Stages, Paths, Kinds, Answers, NoAnswer, Reply
<1>1. CASE Begin(d)
  BY <1>1 DEF Begin, Send
<1>2. CASE Continue(d)
  BY <1>2 DEF Continue
<1>3. CASE Finish(d)
  BY <1>3 DEF Finish
<1>4. CASE Lose(d)
  BY <1>4 DEF Lose
<1>5. QED  BY <1>1, <1>2, <1>3, <1>4

\* A step of one device disturbs no device.
LEMMA DeviceParts ==
  ASSUME IInv, NEW d \in Devices, NEW e \in Devices,
         Begin(d) \/ Continue(d) \/ Finish(d) \/ Lose(d)
  PROVE  Parts(e)'
<1>0. Parts(d) /\ Parts(e) /\ TypeOK
  BY DEF IInv
<1> USE <1>0 DEF TypeOK, Parts, Before, Caller, Told, NoAnswer, Reply
<1>1. CASE Begin(d)
  BY <1>1 DEF Begin, Send
<1>2. CASE Continue(d)
  BY <1>2 DEF Continue
<1>3. CASE Finish(d)
  BY <1>3 DEF Finish
<1>4. CASE Lose(d)
  BY <1>4 DEF Lose
<1>5. QED  BY <1>1, <1>2, <1>3, <1>4

\* An answer that is one of Answers.
LEMMA RespondTypes ==
  ASSUME TypeOK, NEW d \in Devices, NEW reply \in Answers, Respond(d, reply)
  PROVE  stage' \in [Devices -> Stages] /\ answer' \in [Devices -> Answers]
  BY DEF TypeOK, Respond, Stages

\* The last answer of an exchange is well typed.
LEMMA ConcludeTypes ==
  ASSUME TypeOK, NEW d \in Devices, NEW status \in {200, 500},
         NEW body \in {"none", "policies", "error"} \cup Certificates \cup Faults,
         Conclude(d, status, body)
  PROVE  stage' \in [Devices -> Stages] /\ answer' \in [Devices -> Answers]
<1>1. PICK token \in {"none", "mutual"} : Respond(d, Reply(status, token, body))
  BY DEF Conclude
<1>2. Reply(status, token, body) \in Answers
  BY DEF Reply, Answers
<1>3. QED  BY <1>1, <1>2, RespondTypes

\* What the proxy does keeps the types.
LEMMA ServeTypes ==
  ASSUME TypeOK, NEW d \in Devices, Serve(d)
  PROVE  TypeOK'
<1>1. CASE Health(d)
  <2>1. PICK status \in {200, 503} : Respond(d, Reply(status, "none", "ok"))
    BY <1>1 DEF Health
  <2>2. Reply(status, "none", "ok") \in Answers
    BY DEF Reply, Answers
  <2>3. QED  BY <1>1, <2>1, <2>2, RespondTypes DEF Health, TypeOK
<1>2. CASE Challenge(d)
  <2>1. Reply(401, "none", "none") \in Answers
    BY DEF Reply, Answers
  <2>2. QED  BY <1>2, <2>1, RespondTypes DEF Challenge, TypeOK
<1>3. CASE Authenticate(d)
  BY <1>3 DEF Authenticate, TypeOK, Stages
<1>4. CASE Reject(d)
  <2>1. \A token \in {"none", "continue"} : Reply(401, token, "none") \in Answers
    BY DEF Reply, Answers
  <2>2. QED  BY <1>4, <2>1, RespondTypes DEF Reject, TypeOK
<1>5. CASE Policies(d)
  BY <1>5, ConcludeTypes DEF Policies, TypeOK
<1>6. CASE NotConfigured(d)
  BY <1>6, ConcludeTypes DEF NotConfigured, TypeOK, Faults
<1>7. CASE Fault(d)
  BY <1>7, ConcludeTypes DEF Fault, FaultOf, TypeOK, Faults
<1>8. CASE Enroll(d)
  BY <1>8 DEF Enroll, CallsOf, Call, TypeOK, Stages
<1>9. CASE Return(d)
  <2>1. PICK outcome \in {"issued", "error"} : ReturnOf(d, outcome)
    BY <1>9 DEF Return
  <2>2. PICK body \in Bodies[outcome] : Conclude(d, 200, body)
    BY <2>1 DEF ReturnOf
  <2>3. body \in {"error"} \cup Certificates \cup Faults
    BY <2>2 DEF Bodies, Faults
  <2>4. stage' \in [Devices -> Stages] /\ answer' \in [Devices -> Answers]
    BY <2>2, <2>3, ConcludeTypes
  <2>5. enrolled' \in [Devices -> SUBSET Call]
    BY <2>1 DEF ReturnOf, TypeOK, Call
  <2>6. QED  BY <2>1, <2>4, <2>5 DEF ReturnOf, TypeOK
<1>10. QED
  BY <1>1, <1>2, <1>3, <1>4, <1>5, <1>6, <1>7, <1>8, <1>9 DEF Serve

\* What the proxy does for one device is nothing to the others.
LEMMA OthersKeep ==
  ASSUME IInv, NEW d \in Devices, NEW e \in Devices, e # d, Serve(d)
  PROVE  Parts(e)'
<1>1. Parts(e) /\ TypeOK
  BY DEF IInv
<1>2. /\ stage'[e] = stage[e] /\ kind'[e] = kind[e] /\ identity'[e] = identity[e]
      /\ enrolled'[e] = enrolled[e] /\ answer'[e] = answer[e] /\ valid' = valid
  BY <1>1 DEF TypeOK, Serve, Health, Challenge, Authenticate, Reject, Policies,
              NotConfigured, Fault, Enroll, Return, ReturnOf, Conclude, Respond
<1>3. QED  BY <1>1, <1>2 DEF Parts, Before, Caller, Told

\* An answer without a call behind it, which is no challenge after a token.
LEMMA AnswerWithoutCall ==
  ASSUME IInv, NEW d \in Devices, stage[d] \in {"sent", "authenticated"},
         NEW reply \in Answers, Respond(d, reply),
         UNCHANGED <<valid, kind, identity, enrolled>>,
         reply.status = 401 => stage[d] = "sent",
         reply.body \in {"none", "ok", "policies"} \cup Faults
  PROVE  Parts(d)'
<1>1. Parts(d) /\ TypeOK
  BY DEF IInv
<1>2. stage'[d] = "answered" /\ answer'[d] = reply /\ enrolled'[d] = {}
  BY <1>1 DEF TypeOK, Respond, Parts, Before
<1>3. OutcomesOf({}) = {}
  BY DEF OutcomesOf
<1>4. Told(d)'
  BY <1>2, <1>3 DEF Told, Certificates, Faults
<1>5. Before(d)' /\ Caller(d)'
  BY <1>1, <1>2 DEF Parts, Before, Caller
<1>6. QED  BY <1>4, <1>5 DEF Parts

\* Serving a device keeps its own part, case by case of the hook and the endpoint.
LEMMA ServeParts ==
  ASSUME IInv, NEW d \in Devices, Serve(d)
  PROVE  Parts(d)'
<1>0. Parts(d) /\ TypeOK
  BY DEF IInv
<1>1. CASE Health(d)
  <2>1. PICK status \in {200, 503} : Respond(d, Reply(status, "none", "ok"))
    BY <1>1 DEF Health
  <2>2. Reply(status, "none", "ok") \in Answers
    BY DEF Reply, Answers
  <2>3. QED  BY <1>1, <2>1, <2>2, AnswerWithoutCall DEF Health, Reply
<1>2. CASE Challenge(d)
  <2>1. Reply(401, "none", "none") \in Answers
    BY DEF Reply, Answers
  <2>2. QED  BY <1>2, <2>1, AnswerWithoutCall DEF Challenge, Reply
<1>3. CASE Authenticate(d)
  BY <1>0, <1>3 DEF Authenticate, Complete, TypeOK, Parts, Before, Caller, Told, NoAnswer, Reply
<1>4. CASE Reject(d)
  <2>1. PICK token \in {"none", "continue"} : Respond(d, Reply(401, token, "none"))
    BY <1>4 DEF Reject
  <2>2. Reply(401, token, "none") \in Answers
    BY DEF Reply, Answers
  <2>3. QED  BY <1>4, <2>1, <2>2, AnswerWithoutCall DEF Reject, Reply
<1>5. ASSUME stage[d] = "authenticated", UNCHANGED <<valid, kind, identity, enrolled>>,
             NEW status \in {200, 500}, NEW body \in {"none", "policies"} \cup Faults,
             Conclude(d, status, body)
      PROVE  Parts(d)'
  <2>1. PICK token \in {"none", "mutual"} : Respond(d, Reply(status, token, body))
    BY <1>5 DEF Conclude
  <2>2. Reply(status, token, body) \in Answers
    BY DEF Reply, Answers
  <2>3. QED  BY <1>5, <2>1, <2>2, AnswerWithoutCall DEF Reply
<1>6. CASE Policies(d)
  BY <1>5, <1>6 DEF Policies
<1>7. CASE NotConfigured(d)
  BY <1>5, <1>7 DEF NotConfigured, Faults
<1>8. CASE Fault(d)
  BY <1>5, <1>8 DEF Fault, FaultOf, Faults
<1>9. CASE Enroll(d)
  <2>1. CallsOf(d) = {[principal |-> d, outcome |-> "running"]}
    BY <1>0, <1>9 DEF Enroll, CallsOf, Parts, Before
  <2>2. enrolled'[d] = {[principal |-> d, outcome |-> "running"]}
    BY <1>0, <1>9, <2>1 DEF Enroll, TypeOK, Parts, Before
  <2>3. QED
    BY <1>0, <1>9, <2>2 DEF Enroll, TypeOK, Parts, Before, Caller, Told, NoAnswer, Reply
<1>10. CASE Return(d)
  <2>1. PICK outcome \in {"issued", "error"} : ReturnOf(d, outcome)
    BY <1>10 DEF Return
  <2>2. PICK body \in Bodies[outcome], token \in {"none", "mutual"} :
            Respond(d, Reply(200, token, body))
    BY <2>1 DEF ReturnOf, Conclude
  <2>3. /\ stage'[d] = "answered" /\ answer'[d] = Reply(200, token, body)
        /\ kind'[d] = "complete" /\ valid' = valid /\ d \in valid
        /\ identity'[d] = identity[d]
    BY <1>0, <2>1, <2>2 DEF ReturnOf, Respond, TypeOK, Parts, Before
  <2>4. enrolled'[d] = {[principal |-> d, outcome |-> outcome]}
    <3>1. enrolled[d] = {[principal |-> d, outcome |-> "running"]}
      BY <1>0, <2>1 DEF ReturnOf, Parts, Before
    <3>2. enrolled'[d] = {[c EXCEPT !.outcome = outcome] : c \in enrolled[d]}
      BY <1>0, <2>1 DEF ReturnOf, TypeOK
    <3>3. [[principal |-> d, outcome |-> "running"] EXCEPT !.outcome = outcome]
            = [principal |-> d, outcome |-> outcome]
      OBVIOUS
    <3>4. QED  BY <3>1, <3>2, <3>3
  <2>5. OutcomesOf(enrolled'[d]) = {outcome}
    BY <2>4 DEF OutcomesOf
  <2>6. Told(d)'
    BY <2>2, <2>3, <2>5 DEF Told, Bodies, Certificates, Reply
  <2>7. Before(d)' /\ Caller(d)'
    BY <1>0, <2>3, <2>4 DEF Parts, Before, Caller, Reply
  <2>8. QED  BY <2>6, <2>7 DEF Parts
<1>11. QED
  BY <1>1, <1>2, <1>3, <1>4, <1>6, <1>7, <1>8, <1>9, <1>10 DEF Serve

\* Every step of devices and gateway keeps the invariant.
LEMMA NextIInv == IInv /\ [Next]_vars => IInv'
<1> SUFFICES ASSUME IInv, [Next]_vars PROVE TypeOK' /\ \A e \in Devices : Parts(e)'
  BY DEF IInv
<1>0. TypeOK /\ \A e \in Devices : Parts(e)
  BY DEF IInv
<1>1. ASSUME NEW d \in Devices, Begin(d) \/ Continue(d) \/ Finish(d) \/ Lose(d)
      PROVE  TypeOK' /\ \A e \in Devices : Parts(e)'
  BY <1>0, <1>1, DeviceTypes, DeviceParts
<1>2. ASSUME NEW d \in Devices, Serve(d)
      PROVE  TypeOK' /\ \A e \in Devices : Parts(e)'
  BY <1>0, <1>2, ServeTypes, ServeParts, OthersKeep
<1>3. CASE UNCHANGED vars
  BY <1>0, <1>3 DEF vars, TypeOK, Parts, Before, Caller, Told
<1>4. QED  BY <1>1, <1>2, <1>3 DEF Next

\* The invariant holds always.
LEMMA SpecIInv == Spec => []IInv
  BY InitIInv, NextIInv, PTL DEF Spec

\* Types, for any devices and tokens.
THEOREM Typing == Spec => []TypeOK
<1>1. IInv => TypeOK
  BY DEF IInv
<1>2. QED  BY <1>1, SpecIInv, PTL

\* enroll runs for a device only after its whole exchange with valid
\* credentials, and as that device, whatever is sent, lost or left half way.
THEOREM Callers == Spec => []EnrolledAsCaller
<1>1. IInv => EnrolledAsCaller
  BY DEF IInv, Parts, Caller, EnrolledAsCaller
<1>2. QED  BY <1>1, SpecIInv, PTL

\* The body of an answer tells what became of the request, wherever among
\* hooks, endpoints, service and handler it was made.
THEOREM Answered == Spec => []AnswerTellsOutcome
<1>1. IInv => AnswerTellsOutcome
  BY Zenon DEF IInv, Parts, Told, OutcomesOf, AnswerTellsOutcome
<1>2. QED  BY <1>1, SpecIInv, PTL
=============================================================================
