----------------------------- MODULE RepeatProofs -----------------------------
(***************************************************************************)
(* SecondNeedsDelete holds for every set of requests and every number of   *)
(* attempts, so for any number of late and repeated calls.                 *)
(*                                                                         *)
(* Of the calls of one request, only the delete makes room for another     *)
(* add, and it is over when the first add goes out: it is not repeated     *)
(* after a timeout, and the add waits for its answer (InTurn).  Without    *)
(* deletes of others, therefore, an end entity of the request stays in     *)
(* its place once it is added, and its password is used once (OneUse).     *)
(***************************************************************************)
EXTENDS EnrollmentProofs, FiniteSetTheorems

CallsOf(r, op) == {m \in net : m.req = r /\ m.op = op}

Begun(r) == pc[r] \notin {"idle", "received", "requested"}
Over     == Decided \cup Ended
Adding   == {"add", "enroll"} \cup Over

\* Deletes are of first enrollments, resets of renewals, and the calls of a
\* request follow each other: no delete is left when an add is sent.
InTurn(r) ==
    /\ ~Begun(r) => \A m \in net : m.req # r
    /\ pc[r] = "delete" \/ CallsOf(r, "delete") # {} => ~job[r].renew
    /\ pc[r] = "reset" \/ CallsOf(r, "reset") # {} => job[r].renew
    /\ CallsOf(r, "add") # {} => pc[r] \in Adding /\ CallsOf(r, "delete") = {}
    /\ CallsOf(r, "delete") # {} =>
        \/ pc[r] \in Over
        \/ pc[r] = "delete" /\ reply[r] = "none" /\ CallsOf(r, "delete") = {Current(r)}

\* A first enrollment without another for the same EJBCA user.
Alone(r) ==
    /\ ~job[r].renew
    /\ \A q \in Requests \ {r} : User(q) = User(r) /\ ~job[q].renew => ~Begun(q)

\* Its password is put in place once, and then used once.
OneUse(r) ==
    LET own == store[User(r)]
    IN /\ CertsOf(r) # {} \/ own.password = r =>
            pc[r] \in Adding /\ CallsOf(r, "delete") = {}
       /\ CertsOf(r) # {} => own # Absent /\ (own.password = r => ~own.new)
       /\ \A c, d \in CertsOf(r) : c = d

Turns == \A r \in Requests : InTurn(r)
Uses  == \A r \in Requests : Alone(r) => OneUse(r)

\* The calls of a request that a step leaves alone keep their turn.
LEMMA TurnFrame ==
  ASSUME NEW s \in Requests, InTurn(s), UNCHANGED job,
         pc'[s] = pc[s], attempt'[s] = attempt[s], reply'[s] = reply[s],
         \A m \in net' : m.req = s => m \in net
  PROVE  InTurn(s)'
<1>1. \A op : CallsOf(s, op)' \subseteq CallsOf(s, op)
  BY DEF CallsOf
<1>2. Current(s)' = Current(s) /\ Begun(s)' = Begun(s)
  BY DEF Current, Begun
<1>3. CallsOf(s, "delete")' # {} => CallsOf(s, "delete") # {}
  BY <1>1
<1>4. CallsOf(s, "delete") = {Current(s)} /\ CallsOf(s, "delete")' # {} =>
        CallsOf(s, "delete")' = {Current(s)'}
  BY <1>1, <1>2
<1>5. QED  BY <1>1, <1>2, <1>3, <1>4 DEF InTurn

\* What a request does when its thread makes a call, resends or ends.
LEMMA ThreadTurns ==
  ASSUME TypeOK, Turns, NEW r \in Requests, Receive(r) \/ Step(r) \/ Crash(r)
  PROVE  InTurn(r)' /\ (pc[r] \in Adding =>
            pc'[r] \in Adding /\ CallsOf(r, "delete")' \subseteq CallsOf(r, "delete"))
<1>0. InTurn(r)
  BY DEF Turns
<1>1. CASE Receive(r) \/ LogRequest(r)
  <2>1. ~Begun(r) /\ pc'[r] \in {"received", "requested"} /\ net' = net /\ job' = job
    BY <1>1 DEF Receive, LogRequest, Begun, TypeOK
  <2>2. \A m \in net' : m.req # r
    BY <1>0, <2>1 DEF InTurn
  <2>3. QED  BY <2>1, <2>2 DEF InTurn, Begun, CallsOf, Adding, Over, Decided, Ended
<1>2. ASSUME NEW result \in Over, End(r, result), UNCHANGED job
      PROVE  InTurn(r)' /\ pc'[r] \in Adding
                /\ CallsOf(r, "delete")' \subseteq CallsOf(r, "delete")
  <2>1. pc'[r] \in Over /\ net' = net /\ job' = job
    BY <1>2 DEF End, TypeOK
  <2>2. \A op : CallsOf(r, op)' = CallsOf(r, op)
    BY <2>1 DEF CallsOf
  <2>3. QED  BY <1>0, <2>1, <2>2 DEF InTurn, Begun, Adding, Over, Decided, Ended
<1>3. CASE Admit(r)
  <2>1. /\ pc[r] = "requested" /\ pc'[r] = "get" /\ job' = job
        /\ net' = net \cup {[op |-> "get", req |-> r, try |-> 1]}
    BY <1>3 DEF Admit, Call, TypeOK
  <2>2. \A op \in {"add", "delete", "reset"} : CallsOf(r, op)' = {}
    BY <1>0, <2>1 DEF InTurn, Begun, CallsOf
  <2>3. QED  BY <2>1, <2>2 DEF InTurn, Begun, Adding, Over, Decided, Ended
<1>4. CASE Proceed(r)
  <2>0. NextOp(r) \in Ops /\ pc[r] \in Ops /\ reply[r] # "none"
    BY <1>4 DEF Proceed, NextOp, Ops
  <2> DEFINE sent == [op |-> NextOp(r), req |-> r, try |-> 1]
  <2>1. /\ pc'[r] = NextOp(r) /\ attempt'[r] = 1 /\ reply'[r] = "none"
        /\ net' = net \cup {sent} /\ job' = job
    BY <1>4 DEF Proceed, Call, TypeOK
  <2>2. CallsOf(r, "delete") = {}
    BY <1>0, <2>0 DEF InTurn, Ops, Over, Decided, Ended
  <2>3. \A op : CallsOf(r, op)' \subseteq CallsOf(r, op) \cup (IF op = NextOp(r) THEN {sent} ELSE {})
    BY <2>1 DEF CallsOf
  <2>4. CASE NextOp(r) = "delete"
    <3>1. pc[r] = "get" /\ ~job[r].renew
      BY <2>4 DEF NextOp
    <3>2. CallsOf(r, "add")' = {} /\ CallsOf(r, "reset")' = {}
      BY <1>0, <2>3, <2>4, <3>1 DEF InTurn, Adding, Over, Decided, Ended
    <3>3. Current(r)' = sent
      BY <2>1, <2>4 DEF Current
    <3>4. CallsOf(r, "delete")' = {sent}
      BY <2>1, <2>2, <2>3, <2>4 DEF CallsOf
    <3>5. QED  BY <2>1, <2>4, <3>1, <3>2, <3>3, <3>4 DEF InTurn, Begun, Adding, Over, Decided, Ended
  <2>5. CASE NextOp(r) = "reset"
    <3>1. pc[r] = "get" /\ job[r].renew
      BY <2>5 DEF NextOp
    <3>2. CallsOf(r, "add")' = {} /\ CallsOf(r, "delete")' = {}
      BY <1>0, <2>2, <2>3, <2>5, <3>1 DEF InTurn, Adding, Over, Decided, Ended
    <3>3. QED  BY <2>1, <2>5, <3>1, <3>2 DEF InTurn, Begun, Adding, Over, Decided, Ended
  <2>6. CASE NextOp(r) \in {"add", "enroll"}
    <3>1. CallsOf(r, "delete")' = {} /\ CallsOf(r, "reset")' \subseteq CallsOf(r, "reset")
      BY <2>2, <2>3, <2>6
    <3>2. QED  BY <1>0, <2>1, <2>6, <3>1 DEF InTurn, Begun, Adding, Over, Decided, Ended
  <2>7. NextOp(r) \in {"delete", "reset", "add", "enroll"}
    BY <1>4 DEF Proceed, NextOp
  <2>8. pc[r] \in Adding => NextOp(r) = "enroll"
    BY <1>4, <2>0 DEF Proceed, NextOp, Adding, Over, Decided, Ended, Ops
  <2>9. pc[r] \in Adding => pc'[r] \in Adding /\ CallsOf(r, "delete")' = {}
    BY <2>1, <2>2, <2>3, <2>8 DEF Adding
  <2>10. QED  BY <2>4, <2>5, <2>6, <2>7, <2>9
<1>5. CASE Resend(r)
  <2>1. /\ pc' = pc /\ job' = job /\ pc[r] \in Ops
        /\ reply'[r] = "none" /\ attempt'[r] = attempt[r] + 1
    BY <1>5 DEF Resend, TypeOK
  <2>2. Again(r) = Current(r)' /\ Again(r).op = pc[r] /\ Again(r).req = r
    BY <2>1 DEF Again, Current
  <2>3. /\ net' \subseteq net \cup {Again(r)}
        /\ pc[r] = "delete" => net' = (net \ {Current(r)}) \cup {Again(r)}
    BY <1>5 DEF Resend, Retried
  <2>4. \A op : CallsOf(r, op)' \subseteq CallsOf(r, op) \cup (IF op = pc[r] THEN {Again(r)} ELSE {})
    BY <2>2, <2>3 DEF CallsOf
  <2>5. CASE pc[r] = "delete"
    <3>1. CallsOf(r, "delete") \subseteq {Current(r)}
      BY <1>0, <2>5 DEF InTurn, Over, Decided, Ended
    <3>2. CallsOf(r, "delete")' = {Current(r)'}
      BY <2>2, <2>3, <2>5, <3>1 DEF CallsOf
    <3>3. CallsOf(r, "add")' = {} /\ CallsOf(r, "reset")' \subseteq CallsOf(r, "reset")
      BY <1>0, <2>4, <2>5 DEF InTurn, Adding, Over, Decided, Ended
    <3>4. QED  BY <1>0, <2>1, <2>5, <3>2, <3>3 DEF InTurn, Begun, Adding, Over, Decided, Ended
  <2>6. CASE pc[r] # "delete"
    <3>1. CallsOf(r, "delete") = {} /\ CallsOf(r, "delete")' = {}
      BY <1>0, <2>1, <2>4, <2>6 DEF InTurn, Over, Decided, Ended, Ops
    <3>2. \A op : op # pc[r] => CallsOf(r, op)' \subseteq CallsOf(r, op)
      BY <2>4
    <3>3. pc[r] = "add" => pc[r] \in Adding
      BY DEF Adding
    <3>4. QED  BY <1>0, <2>1, <3>1, <3>2, <3>3 DEF InTurn, Begun, Ops
  <2>7. QED  BY <2>5, <2>6
<1>6. QED
  BY <1>1, <1>2, <1>3, <1>4, <1>5
     DEF Step, RejectCsr, RejectTemplate, Deny, Issue, Fail, GiveUp, Return, Crash, Adding, Over, Decided, Ended

\* What EJBCA does of a call, whatever it is.
LEMMA ServeFrame ==
  ASSUME TypeOK, NEW m \in net, Serve(m)
  PROVE  /\ m.req \in Requests /\ net' = net \ {m} /\ UNCHANGED <<job, pc, attempt>>
         /\ \A s \in Requests : ~(m.req = s /\ Awaited(m)) => reply'[s] = reply[s]
<1>1. m.req \in Requests
  BY DEF TypeOK, Message
<1>2. QED
  BY <1>1 DEF Serve, ServeGet, ServeDelete, ServeReset, ServeAdd, ServeEnroll, Refuse,
     Decline, Answer, TypeOK

\* EJBCA takes calls off, and answers a delete by taking off the only one.
LEMMA ServeTurns ==
  ASSUME TypeOK, Turns, NEW m \in net, Serve(m)
  PROVE  Turns'
<1>1. ASSUME NEW s \in Requests  PROVE InTurn(s)'
  <2>1. InTurn(s)
    BY DEF Turns
  <2>2. CASE reply'[s] = reply[s]
    BY <2>1, <2>2, ServeFrame, TurnFrame
  <2>3. CASE m.req = s /\ Awaited(m)
    <3>1. \A op : CallsOf(s, op)' \subseteq CallsOf(s, op)
      BY ServeFrame DEF CallsOf
    <3>2. m \in CallsOf(s, m.op) /\ m \notin CallsOf(s, m.op)' /\ m.op = pc[s]
      BY <2>3, ServeFrame DEF CallsOf, Awaited
    <3>3. CallsOf(s, "delete") # {} => pc[s] \in Over \/ CallsOf(s, "delete")' = {}
      BY <2>1, <3>1, <3>2 DEF InTurn
    <3>4. QED
      BY <2>1, <3>1, <3>3, ServeFrame DEF InTurn, Begun, CallsOf
  <2>4. QED  BY <2>2, <2>3, ServeFrame
<1>2. QED  BY <1>1 DEF Turns

\* Calls of every request keep their turn.
LEMMA TurnsStep == TypeOK /\ Turns /\ [Next]_vars => Turns'
<1> SUFFICES ASSUME TypeOK, Turns, [Next]_vars PROVE Turns'
  OBVIOUS
<1>1. ASSUME NEW r \in Requests, Receive(r) \/ Step(r) \/ Crash(r)  PROVE Turns'
  <2>1. ASSUME NEW s \in Requests, s # r  PROVE InTurn(s)'
    <3>1. /\ pc'[s] = pc[s] /\ attempt'[s] = attempt[s] /\ reply'[s] = reply[s]
          /\ UNCHANGED job
          /\ \A m \in net' : m.req = s => m \in net
      BY <1>1, <2>1 DEF Receive, Step, Crash, RejectCsr, LogRequest, RejectTemplate, Deny,
         Admit, Proceed, Issue, Fail, Resend, GiveUp, Return, End, Call, Again, Current, TypeOK
    <3>2. QED  BY <3>1, TurnFrame DEF Turns
  <2>2. QED  BY <1>1, <2>1, ThreadTurns DEF Turns
<1>2. CASE UNCHANGED vars
  BY <1>2, TurnFrame DEF vars, Turns
<1>3. QED  BY <1>1, <1>2, ServeTurns DEF Next

-----------------------------------------------------------------------------
\* A thread changes neither end entities nor certificates, and once it adds
\* it only goes on.
LEMMA ThreadUses ==
  ASSUME TypeOK, Turns, Uses, NEW r \in Requests, Receive(r) \/ Step(r) \/ Crash(r)
  PROVE  Uses'
<1>1. UNCHANGED <<job, store, signed>>
  BY DEF Receive, Step, Crash, RejectCsr, LogRequest, RejectTemplate, Deny, Admit,
     Proceed, Issue, Fail, Resend, GiveUp, Return, caVars
<1>2. ASSUME NEW s \in Requests, s # r
      PROVE  pc'[s] = pc[s] /\ CallsOf(s, "delete")' \subseteq CallsOf(s, "delete")
  BY <1>2 DEF Receive, Step, Crash, RejectCsr, LogRequest, RejectTemplate, Deny, Admit,
     Proceed, Issue, Fail, Resend, GiveUp, Return, End, Call, Again, Current, CallsOf, TypeOK
<1>3. ASSUME NEW s \in Requests
      PROVE  pc[s] \in Adding =>
                pc'[s] \in Adding /\ CallsOf(s, "delete")' \subseteq CallsOf(s, "delete")
  BY <1>2, ThreadTurns
<1>4. Begun(r) => Begun(r)'
  BY DEF Begun, Receive, Step, Crash, RejectCsr, LogRequest, RejectTemplate, Deny, Admit,
     Proceed, Issue, Fail, Resend, GiveUp, Return, End, Call, NextOp, TypeOK, Ops
<1>5. ASSUME NEW s \in Requests, Alone(s)'  PROVE Alone(s)
  BY <1>1, <1>2, <1>4, <1>5 DEF Alone, Begun, User
<1>6. ASSUME NEW s \in Requests, OneUse(s)  PROVE OneUse(s)'
  <2>1. CertsOf(s)' = CertsOf(s) /\ store'[User(s)'] = store[User(s)]
    BY <1>1 DEF CertsOf, User
  <2>2. QED  BY <1>3, <1>6, <2>1 DEF OneUse
<1>7. QED  BY <1>5, <1>6 DEF Uses

\* EJBCA deletes, for a request that is alone, only before its add.
LEMMA ServeUses ==
  ASSUME TypeOK, Turns, Uses, NEW m \in net, Serve(m)
  PROVE  Uses'
<1>0. /\ m.req \in Requests /\ User(m.req) \in Users
      /\ net' = net \ {m} /\ UNCHANGED <<job, pc, attempt>>
  BY ServeFrame, UserIsUser
<1>1. ASSUME NEW s \in Requests, Alone(s)'  PROVE OneUse(s)'
  <2> DEFINE u == User(s)
  <2>1. Alone(s) /\ User(s)' = User(s) /\ User(s) \in Users
    BY <1>0, <1>1, UserIsUser DEF Alone, Begun, User
  <2>2. OneUse(s)
    BY <2>1 DEF Uses
  <2>3. CallsOf(s, "delete")' \subseteq CallsOf(s, "delete")
    BY <1>0 DEF CallsOf
  <2>4. CASE store'[u] = store[u] /\ CertsOf(s)' = CertsOf(s)
    BY <1>0, <2>1, <2>2, <2>3, <2>4 DEF OneUse
  <2>5. CASE ServeDelete(m) /\ User(m.req) = u
    <3>1. m \in CallsOf(m.req, "delete")
      BY <2>5 DEF ServeDelete, CallsOf
    <3>2. m.req = s
      BY <1>0, <2>1, <2>5, <3>1 DEF Turns, InTurn, Alone
    <3>3. CertsOf(s) = {}
      BY <2>2, <3>1, <3>2 DEF OneUse
    <3>4. CertsOf(s)' = {} /\ store'[u] = Absent
      BY <1>0, <2>1, <2>5, <3>3 DEF ServeDelete, CertsOf, TypeOK
    <3>5. store'[u].password # s
      BY <3>4, RequestAssumption DEF Absent
    <3>6. QED  BY <2>1, <3>4, <3>5 DEF OneUse
  <2>6. CASE ServeReset(m) /\ User(m.req) = u
    <3>1. m \in CallsOf(m.req, "reset")
      BY <2>6 DEF ServeReset, CallsOf
    <3>2. m.req # s
      BY <1>0, <2>1, <3>1 DEF Turns, InTurn, Alone
    <3>3. store[u] \in EndEntity
      BY <2>1, <2>6 DEF ServeReset, Registered, TypeOK
    <3>4. store'[u].password = m.req
      BY <1>0, <2>1, <2>6, <3>3 DEF ServeReset, TypeOK, EndEntity
    <3>5. store'[u] # Absent
      BY <1>0, <3>4, RequestAssumption DEF Absent
    <3>6. CertsOf(s)' = CertsOf(s)
      BY <2>6 DEF ServeReset, CertsOf
    <3>7. QED  BY <1>0, <2>1, <2>2, <2>3, <3>2, <3>4, <3>5, <3>6 DEF OneUse
  <2>7. CASE ServeAdd(m) /\ User(m.req) = u
    <3>1. CertsOf(s) = {} /\ CertsOf(s)' = {}
      BY <2>2, <2>7 DEF ServeAdd, Registered, OneUse, CertsOf
    <3>2. store'[u].password = m.req
      BY <1>0, <2>1, <2>7 DEF ServeAdd, TypeOK
    <3>3. m \in CallsOf(m.req, "add")
      BY <2>7 DEF ServeAdd, CallsOf
    <3>4. m.req = s => pc[s] \in Adding /\ CallsOf(s, "delete") = {}
      BY <1>0, <3>3 DEF Turns, InTurn
    <3>5. QED  BY <1>0, <2>1, <2>3, <3>1, <3>2, <3>4 DEF OneUse
  <2>8. CASE ServeEnroll(m) /\ User(m.req) = u
    <3> DEFINE cert == [csr |-> m.req, try |-> m.try, subject |-> store[u].subject]
    <3>1. store[u] \in EndEntity /\ store[u].new /\ store[u].password = m.req
      BY <1>0, <2>1, <2>8 DEF ServeEnroll, Usable, Registered, TypeOK
    <3>2. store'[u].password = m.req /\ store'[u].new = FALSE
      BY <1>0, <2>1, <2>8, <3>1 DEF ServeEnroll, TypeOK, EndEntity
    <3>3. store'[u] # Absent
      BY <1>0, <3>2, RequestAssumption DEF Absent
    <3>4. signed' = signed \cup {cert} /\ cert.csr = m.req
      BY <2>8 DEF ServeEnroll
    <3>5. CASE m.req = s
      <4>1. pc[s] \in Adding /\ CallsOf(s, "delete") = {} /\ CertsOf(s) = {}
        BY <2>2, <3>1, <3>5 DEF OneUse
      <4>2. CertsOf(s)' = {cert}
        BY <3>4, <3>5, <4>1 DEF CertsOf
      <4>3. QED  BY <1>0, <2>1, <2>3, <3>2, <3>3, <4>1, <4>2 DEF OneUse
    <3>6. CASE m.req # s
      <4>1. CertsOf(s)' = CertsOf(s)
        BY <3>4, <3>6 DEF CertsOf
      <4>2. QED  BY <1>0, <2>1, <2>2, <2>3, <3>2, <3>3, <3>6, <4>1 DEF OneUse
    <3>7. QED  BY <3>5, <3>6
  <2>9. CASE User(m.req) # u
    <3>1. m.req # s
      BY <2>9
    <3>2. store'[u] = store[u]
      BY <1>0, <2>1, <2>9 DEF Serve, ServeGet, ServeDelete, ServeReset, ServeAdd, ServeEnroll,
         Refuse, Decline, TypeOK
    <3>3. CertsOf(s)' = CertsOf(s)
      BY <3>1 DEF Serve, ServeGet, ServeDelete, ServeReset, ServeAdd, ServeEnroll,
         Refuse, Decline, CertsOf
    <3>4. QED  BY <2>4, <3>2, <3>3
  <2>10. CASE ServeGet(m) \/ Refuse(m) \/ Decline(m)
    BY <2>4, <2>10 DEF ServeGet, Refuse, Decline, CertsOf
  <2>11. QED  BY <2>5, <2>6, <2>7, <2>8, <2>9, <2>10 DEF Serve
<1>2. QED  BY <1>1 DEF Uses

\* Both invariants hold always.
LEMMA UsesHold == Spec => [](Turns /\ Uses)
<1>1. TypeOK /\ Init => Turns /\ Uses
  <2>1. ASSUME TypeOK, Init, NEW r \in Requests  PROVE InTurn(r) /\ OneUse(r)
    <3>1. pc[r] = "idle" /\ net = {} /\ signed = {} /\ store[User(r)] = Absent
      BY <2>1, UserIsUser DEF Init
    <3>2. store[User(r)].password # r
      BY <3>1, RequestAssumption DEF Absent
    <3>3. QED  BY <3>1, <3>2 DEF InTurn, OneUse, Begun, CallsOf, CertsOf
  <2>2. QED  BY <2>1 DEF Turns, Uses
<1>2. TypeOK /\ Turns /\ Uses /\ [Next]_vars => Uses'
  <2>1. CASE UNCHANGED vars
    BY <2>1 DEF vars, Uses, Alone, OneUse, Begun, User, CallsOf, CertsOf
  <2>2. QED  BY <2>1, ThreadUses, ServeUses DEF Next
<1>3. QED  BY <1>1, <1>2, Typing, TurnsStep, PTL DEF Spec

\* A request yields two certificates, by calls served late or repeated, only
\* if it is a renewal or if another first enrollment for the same EJBCA user
\* began: a request cannot make its own late add and enroll succeed again.
THEOREM OneCertificate == Spec => []SecondNeedsDelete
<1>1. Uses => SecondNeedsDelete
  <2> SUFFICES ASSUME Uses, NEW r \in Requests, Cardinality(CertsOf(r)) > 1, ~job[r].renew,
                      \A q \in Requests \ {r} :
                         User(q) = User(r) /\ ~job[q].renew => ~Begun(q)
               PROVE  FALSE
    BY DEF SecondNeedsDelete, Begun
  <2>1. \A c, d \in CertsOf(r) : c = d
    BY DEF Uses, Alone, OneUse
  <2>2. CASE CertsOf(r) = {}
    BY <2>2, FS_EmptySet
  <2>3. CASE CertsOf(r) # {}
    <3>1. PICK c : CertsOf(r) = {c}
      BY <2>1, <2>3
    <3>2. Cardinality({c}) = 1
      BY FS_Singleton
    <3>3. QED  BY <3>1, <3>2
  <2>4. QED  BY <2>2, <2>3
<1>2. QED  BY <1>1, UsesHold, PTL
=============================================================================
