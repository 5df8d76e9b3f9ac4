--------------------------- MODULE EnrollmentProofs ---------------------------
(***************************************************************************)
(* Proofs about Enrollment, for every set of requests, clients, templates  *)
(* and groups, every mapping, every username function and every number of  *)
(* attempts.                                                               *)
(***************************************************************************)
EXTENDS Enrollment, SequenceTheorems, TLAPS

\* The EJBCA username of a request is one of the usernames.
LEMMA UserIsUser ==
    ASSUME TypeOK, NEW r \in Requests
    PROVE  User(r) \in Users
  <1>1. job[r].client \in Clients /\ job[r].template \in Templates
    BY JobsAssumption DEF TypeOK, Job
  <1>. QED
    BY <1>1 DEF User, Users

\* The set of calls out stays a set of calls when the thread makes one.
LEMMA CallTyped ==
    ASSUME TypeOK, NEW r \in Requests, NEW op \in Ops, Call(r, op)
    PROVE  /\ pc' \in [Requests -> Pc]
           /\ attempt' \in [Requests -> 0 .. MaxAttempts]
           /\ reply' \in [Requests -> Replies]
           /\ net' \subseteq Message
  <1>1. 1 \in 1 .. MaxAttempts /\ 1 \in 0 .. MaxAttempts
    BY AttemptAssumption
  <1>2. [op |-> op, req |-> r, try |-> 1] \in Message
    BY <1>1 DEF Message
  <1>. QED
    BY <1>1, <1>2 DEF TypeOK, Call, Pc, Running, Replies

\* What End assigns is well typed.
LEMMA EndTyped ==
    ASSUME TypeOK, NEW r \in Requests, NEW result \in Decided \cup Ended,
           End(r, result)
    PROVE  /\ pc' \in [Requests -> Pc]
           /\ attempt' \in [Requests -> 0 .. MaxAttempts]
           /\ reply' \in [Requests -> Replies]
           /\ net' \subseteq Message
  <1>1. 0 \in 0 .. MaxAttempts
    BY AttemptAssumption
  <1>. QED
    BY <1>1 DEF TypeOK, End, Pc, Running, Replies

\* An audit log to which an event is added is one.
LEMMA LogTyped ==
    ASSUME TypeOK, NEW r \in Requests, NEW event \in Events, Log(r, event)
    PROVE  audit' \in [Requests -> Seq(Events)]
  <1>1. Append(audit[r], event) \in Seq(Events)
    BY DEF TypeOK
  <1>. QED
    BY <1>1 DEF TypeOK, Log

\* What Answer assigns is well typed.
LEMMA AnswerTyped ==
    ASSUME TypeOK, NEW m \in net, NEW status \in Replies, Answer(m, status)
    PROVE  /\ reply' \in [Requests -> Replies]
           /\ net' \subseteq Message
  BY DEF TypeOK, Answer

\* TypeOK is inductive: one step per action of the threads and of EJBCA.
LEMMA TypingStep ==
    ASSUME TypeOK, [Next]_vars
    PROVE  TypeOK'
  <1>1. ASSUME NEW r \in Requests, Receive(r)  PROVE TypeOK'
    BY <1>1 DEF TypeOK, Receive, Pc, Running, caVars
  <1>2. ASSUME NEW r \in Requests, NEW result \in Decided \cup Ended, NEW event \in Events,
               End(r, result), Log(r, event), job' = job, UNCHANGED caVars,
               disturbed' \subseteq Requests
        PROVE  TypeOK'
    BY <1>2, EndTyped, LogTyped DEF TypeOK, caVars
  <1>3. ASSUME NEW r \in Requests, Admit(r)  PROVE TypeOK'
    BY <1>3, CallTyped DEF TypeOK, Admit, Ops, caVars
  <1>4. ASSUME NEW r \in Requests, Proceed(r)  PROVE TypeOK'
    <2>1. NextOp(r) \in Ops
      BY <1>4 DEF Proceed, NextOp, Ops
    <2>. QED
      BY <1>4, <2>1, CallTyped DEF TypeOK, Proceed, caVars
  <1>5. ASSUME NEW r \in Requests, LogRequest(r)  PROVE TypeOK'
    <2>1. audit' \in [Requests -> Seq(Events)]
      BY <1>5, LogTyped DEF LogRequest, Events
    <2>. QED
      BY <1>5, <2>1 DEF TypeOK, LogRequest, Pc, Running, caVars
  <1>6. ASSUME NEW r \in Requests,
               \/ RejectCsr(r) \/ Deny(r) \/ Issue(r) \/ Fail(r) \/ GiveUp(r)
        PROVE  TypeOK'
    <2>1. CASE RejectCsr(r) \/ Deny(r) \/ Issue(r)
      BY <1>2, <2>1 DEF RejectCsr, Deny, Issue, Decided, Events, Failures, TypeOK
    <2>2. CASE Fail(r)
      <3>1. FailureOf(r) \in Events
        BY <2>2 DEF Fail, FailureOf, Events, Failures
      <3>. QED
        BY <1>2, <2>2, <3>1 DEF Fail, Decided, TypeOK
    <2>3. CASE GiveUp(r)
      BY <1>2, <2>3 DEF GiveUp, Decided, Events, Failures, TypeOK
    <2>. QED
      BY <1>6, <2>1, <2>2, <2>3
  <1>7. ASSUME NEW r \in Requests, Resend(r)  PROVE TypeOK'
    <2>1. attempt[r] \in Nat /\ attempt[r] + 1 \in 1 .. MaxAttempts
      BY <1>7, AttemptAssumption DEF TypeOK, Resend
    <2>2. Again(r) \in Message
      BY <1>7, <2>1 DEF Resend, Again, Current, Message
    <2>3. net' \subseteq Message
      BY <1>7, <2>2 DEF TypeOK, Resend
    <2>4. attempt' \in [Requests -> 0 .. MaxAttempts]
      BY <1>7, <2>1 DEF TypeOK, Resend
    <2>. QED
      BY <1>7, <2>3, <2>4 DEF TypeOK, Resend, Replies, caVars
  <1>8. ASSUME NEW r \in Requests, RejectTemplate(r) \/ Return(r) \/ Crash(r)
        PROVE  TypeOK'
    <2>1. \E result \in Ended : End(r, result)
      BY <1>8 DEF RejectTemplate, Return, Crash, Ended
    <2>. QED
      BY <1>8, <2>1, EndTyped DEF TypeOK, RejectTemplate, Return, Crash, caVars
  <1>9. ASSUME NEW m \in net, Serve(m)  PROVE TypeOK'
    <2>1. m \in Message /\ m.req \in Requests /\ User(m.req) \in Users
      BY UserIsUser DEF TypeOK, Message
    <2>2. \E status \in Replies : Answer(m, status)
      BY <1>9 DEF Serve, ServeGet, ServeDelete, ServeReset, ServeAdd,
                   ServeEnroll, Refuse, Decline, Replies, Refusals
    <2>3. store' \in [Users -> EndEntity \cup {Absent}]
      <3>1. CASE UNCHANGED store
        BY <3>1 DEF TypeOK
      <3>2. CASE ServeDelete(m)
        BY <3>2, <2>1 DEF ServeDelete, TypeOK
      <3>3. CASE ServeReset(m)
        <4>1. store[User(m.req)] \in EndEntity
          BY <3>3, <2>1 DEF ServeReset, Registered, TypeOK
        <4>. QED
          BY <3>3, <4>1, <2>1 DEF ServeReset, TypeOK, EndEntity
      <3>4. CASE ServeAdd(m)
        BY <3>4, <2>1 DEF ServeAdd, TypeOK, EndEntity
      <3>5. CASE ServeEnroll(m)
        <4>1. store[User(m.req)] \in EndEntity
          BY <3>5, <2>1 DEF ServeEnroll, Usable, Registered, TypeOK
        <4>. QED
          BY <3>5, <4>1, <2>1 DEF ServeEnroll, TypeOK, EndEntity
      <3>. QED
        BY <1>9, <3>1, <3>2, <3>3, <3>4, <3>5
           DEF Serve, ServeGet, Refuse, Decline
    <2>4. signed' \subseteq Certificate
      <3>1. CASE UNCHANGED signed
        BY <3>1 DEF TypeOK
      <3>2. CASE ServeEnroll(m)
        <4>1. store[User(m.req)] \in EndEntity
          BY <3>2, <2>1 DEF ServeEnroll, Usable, Registered, TypeOK
        <4>2. m.try \in 1 .. MaxAttempts
          BY <2>1 DEF Message
        <4>. QED
          BY <3>2, <4>1, <4>2, <2>1 DEF ServeEnroll, TypeOK, EndEntity, Certificate
      <3>. QED
        BY <1>9, <3>1, <3>2
           DEF Serve, ServeGet, ServeDelete, ServeReset, ServeAdd, Refuse, Decline
    <2>5. disturbed' \subseteq Requests
      BY <1>9, <2>1 DEF TypeOK, Serve, ServeGet, ServeDelete, ServeReset, ServeAdd,
                         ServeEnroll, Refuse, Decline, Rivals
    <2>. QED
      BY <1>9, <2>2, <2>3, <2>4, <2>5, AnswerTyped DEF TypeOK, Serve
  <1>10. CASE UNCHANGED vars
    BY <1>10 DEF TypeOK, vars
  <1>. QED
    BY <1>1, <1>3, <1>4, <1>5, <1>6, <1>7, <1>8, <1>9, <1>10
       DEF Next, Step

\* Types hold in every run, for every number of requests and attempts.
THEOREM Typing == Spec => []TypeOK
  <1>1. Init => TypeOK
    BY AttemptAssumption, JobsAssumption
       DEF Init, TypeOK, Pc, Replies
  <1>. QED
    BY <1>1, TypingStep, PTL DEF Spec

-----------------------------------------------------------------------------
(***************************************************************************)
(* What acts at the CA acts for an admissible request, and a certificate   *)
(* handed out was signed.                                                  *)
(***************************************************************************)
\* A call added to net is one of the request that makes it.
LEMMA CallNet ==
    ASSUME NEW r \in Requests, NEW op, Call(r, op)
    PROVE  \A m \in net' : m \in net \/ m.req = r
  BY DEF Call

\* Every step keeps: only an admissible request is in the midst of calls.
LEMMA ActStep ==
    ASSUME TypeOK, OnlyAdmissibleAct, [Next]_vars
    PROVE  OnlyAdmissibleAct'
  <1>1. ASSUME NEW r \in Requests, Receive(r)  PROVE OnlyAdmissibleAct'
    BY <1>1 DEF TypeOK, OnlyAdmissibleAct, Receive, Ops, caVars
  <1>2. ASSUME NEW r \in Requests, NEW result \in Decided \cup Ended, End(r, result),
               result \in {"granted", "issued"} => pc[r] \in Ops \cup {"granted"},
               UNCHANGED <<job, store, signed>>
        PROVE  OnlyAdmissibleAct'
    BY <1>2 DEF TypeOK, OnlyAdmissibleAct, End, Ops, Decided, Ended
  <1>3. ASSUME NEW r \in Requests, Admit(r)  PROVE OnlyAdmissibleAct'
    BY <1>3, CallNet DEF TypeOK, OnlyAdmissibleAct, Admit, Call, caVars
  <1>4. ASSUME NEW r \in Requests, Proceed(r)  PROVE OnlyAdmissibleAct'
    <2>1. Admissible(job[r]) /\ NextOp(r) \in Ops
      BY <1>4 DEF Proceed, NextOp, OnlyAdmissibleAct, Ops
    <2>. QED
      BY <1>4, <2>1, CallNet DEF TypeOK, OnlyAdmissibleAct, Proceed, Call, Ops, caVars
  <1>5. ASSUME NEW r \in Requests, LogRequest(r)  PROVE OnlyAdmissibleAct'
    BY <1>5 DEF TypeOK, OnlyAdmissibleAct, LogRequest, Ops, caVars
  <1>6. ASSUME NEW r \in Requests, Resend(r)  PROVE OnlyAdmissibleAct'
    <2>1. \A m \in net' : m \in net \/ m = Again(r)
      BY <1>6 DEF Resend
    <2>2. Again(r).req = r
      BY DEF Again, Current
    <2>. QED
      BY <1>6, <2>1, <2>2 DEF TypeOK, OnlyAdmissibleAct, Resend, Ops, caVars
  <1>7. ASSUME NEW m \in net, Serve(m)  PROVE OnlyAdmissibleAct'
    <2>1. m.req \in Requests /\ User(m.req) \in Users /\ Admissible(job[m.req])
      BY UserIsUser DEF TypeOK, Message, OnlyAdmissibleAct
    <2>2. net' \subseteq net
      BY <1>7 DEF Serve, ServeGet, ServeDelete, ServeReset, ServeAdd, ServeEnroll,
                  Refuse, Decline, Answer
    <2>3. \A u \in Users : store'[u] # Absent =>
             \/ store'[u].password = m.req
             \/ store[u] # Absent /\ store'[u].password = store[u].password
      <3>1. CASE UNCHANGED store
        BY <3>1
      <3>2. CASE ServeDelete(m)
        BY <3>2, <2>1 DEF ServeDelete, TypeOK
      <3>3. CASE ServeReset(m)
        BY <3>3, <2>1 DEF ServeReset, Registered, TypeOK, EndEntity
      <3>4. CASE ServeAdd(m)
        BY <3>4, <2>1 DEF ServeAdd, TypeOK
      <3>5. CASE ServeEnroll(m)
        BY <3>5, <2>1 DEF ServeEnroll, Usable, Registered, TypeOK, EndEntity
      <3>. QED
        BY <1>7, <3>1, <3>2, <3>3, <3>4, <3>5 DEF Serve, ServeGet, Refuse, Decline
    <2>4. \A c \in signed' : c \in signed \/ c.csr = m.req
      BY <1>7 DEF Serve, ServeGet, ServeDelete, ServeReset, ServeAdd, ServeEnroll,
                  Refuse, Decline
    <2>. QED
      BY <1>7, <2>1, <2>2, <2>3, <2>4 DEF OnlyAdmissibleAct, Serve
  <1>8. CASE UNCHANGED vars
    BY <1>8 DEF OnlyAdmissibleAct, vars
  <1>. QED
    BY <1>1, <1>2, <1>3, <1>4, <1>5, <1>6, <1>7, <1>8
       DEF Next, Step, RejectCsr, RejectTemplate, Deny, Issue, Fail, GiveUp, Return,
           Crash, caVars, Decided, Ended, Ops

\* Every step keeps: a certificate in a reply or a result was signed.
LEMMA SignedStep ==
    ASSUME TypeOK, SignedIsReal, [Next]_vars
    PROVE  SignedIsReal'
  <1>1. ASSUME NEW r \in Requests, Receive(r)  PROVE SignedIsReal'
    BY <1>1 DEF TypeOK, SignedIsReal, CertsOf, Receive, caVars
  <1>2. ASSUME NEW r \in Requests, NEW result, End(r, result), UNCHANGED signed,
               result \in {"granted", "issued"} => reply[r] = "signed" \/ pc[r] = "granted"
        PROVE  SignedIsReal'
    BY <1>2 DEF TypeOK, SignedIsReal, CertsOf, End
  <1>3. ASSUME NEW r \in Requests, NEW op \in Ops, Call(r, op), UNCHANGED signed
        PROVE  SignedIsReal'
    BY <1>3 DEF TypeOK, SignedIsReal, CertsOf, Call, Ops
  <1>4. ASSUME NEW r \in Requests, LogRequest(r)  PROVE SignedIsReal'
    BY <1>4 DEF TypeOK, SignedIsReal, CertsOf, LogRequest, caVars
  <1>5. ASSUME NEW r \in Requests, Resend(r)  PROVE SignedIsReal'
    BY <1>5 DEF TypeOK, SignedIsReal, CertsOf, Resend, caVars
  <1>6. ASSUME NEW m \in net, Serve(m)  PROVE SignedIsReal'
    <2>1. m.req \in Requests
      BY DEF TypeOK, Message
    <2>2. signed \subseteq signed'
      BY <1>6 DEF Serve, ServeGet, ServeDelete, ServeReset, ServeAdd, ServeEnroll,
                  Refuse, Decline
    <2>3. \A r \in Requests : reply'[r] = "signed" =>
             reply[r] = "signed" \/ \E c \in signed' : c.csr = r
      <3>1. CASE ServeEnroll(m)
        <4>1. [csr |-> m.req, try |-> m.try,
               subject |-> store[User(m.req)].subject] \in signed'
          BY <3>1 DEF ServeEnroll
        <4>. QED
          BY <3>1, <4>1, <2>1 DEF ServeEnroll, Answer, TypeOK
      <3>2. CASE \E status \in Replies \ {"signed"} : Answer(m, status)
        BY <3>2, <2>1 DEF Answer, TypeOK
      <3>. QED
        BY <1>6, <3>1, <3>2 DEF Serve, ServeGet, ServeDelete, ServeReset, ServeAdd,
                                Refuse, Decline, Replies, Refusals
    <2>. QED
      BY <1>6, <2>2, <2>3 DEF SignedIsReal, CertsOf, Serve
  <1>7. CASE UNCHANGED vars
    BY <1>7 DEF SignedIsReal, CertsOf, vars
  <1>8. ASSUME NEW r \in Requests, Proceed(r)  PROVE NextOp(r) \in Ops
    BY <1>8 DEF Proceed, NextOp, Ops
  <1>. QED
    BY <1>1, <1>2, <1>3, <1>4, <1>5, <1>6, <1>7, <1>8
       DEF Next, Step, RejectCsr, RejectTemplate, Deny, Admit, Proceed, Issue, Fail,
           GiveUp, Return, Crash, caVars, Ops

\* Both hold at the start, where nothing was received.
LEMMA ActInit == Init => OnlyAdmissibleAct /\ SignedIsReal
  BY DEF Init, OnlyAdmissibleAct, SignedIsReal, Ops

\* Both hold always.
LEMMA ActInvariant == Spec => [](TypeOK /\ OnlyAdmissibleAct /\ SignedIsReal)
  BY Typing, ActInit, ActStep, SignedStep, PTL DEF Spec

\* A request that is not admissible never has a call on the way to EJBCA, an
\* end entity with its password or a certificate, in any interleaving.
THEOREM NoTrace == Spec => []InadmissibleLeavesNoTrace
  <1>1. TypeOK /\ OnlyAdmissibleAct => InadmissibleLeavesNoTrace
    BY DEF TypeOK, OnlyAdmissibleAct, InadmissibleLeavesNoTrace, CertsOf
  <1>. QED
    BY <1>1, ActInvariant, PTL

\* A device that is handed a certificate is handed one the CA signed on its
\* CSR; so is the certificate of which only the success was logged.
THEOREM Issued == Spec => []IssuedIsSigned
  <1>1. SignedIsReal => IssuedIsSigned
    BY DEF SignedIsReal, IssuedIsSigned
  <1>. QED
    BY <1>1, ActInvariant, PTL

-----------------------------------------------------------------------------
(***************************************************************************)
(* A request goes forward only, and the audit log tells how it ended.      *)
(***************************************************************************)
\* Ranks are numbers, and an end ranks above what comes before it.
LEMMA RankIsNat ==
    ASSUME NEW p \in Pc
    PROVE  /\ Rank(p) \in 0 .. 8
           /\ p \in Ended => Rank(p) = 8
           /\ p \in Decided => Rank(p) = 7
           /\ p \in Running \ Decided => Rank(p) < 7
  BY DEF Pc, Running, Decided, Ops, Ended, Rank

\* A successful call is followed by one of a higher rank.
LEMMA NextIsLater ==
    ASSUME NEW r \in Requests, NextOp(r) # "none"
    PROVE  /\ NextOp(r) \in Ops /\ pc[r] \in Ops
           /\ Rank(NextOp(r)) > Rank(pc[r])
  <1>1. CASE pc[r] = "get"
    BY <1>1 DEF NextOp, Ops, Decided, Rank
  <1>2. CASE pc[r] \in {"delete", "reset", "add"}
    BY <1>2 DEF NextOp, Ops, Decided, Rank
  <1>. QED
    BY <1>1, <1>2 DEF NextOp

\* What a request does when it does not advance: nothing a device or EJBCA
\* would see.
Waits(r) ==
    /\ pc'[r] = pc[r] /\ attempt'[r] = attempt[r] /\ audit'[r] = audit[r]
    /\ InFlight(r)' \subseteq InFlight(r)

\* A step of one request does nothing for the others.
LEMMA OthersWait ==
    ASSUME NEW r \in Requests, NEW s \in Requests, s # r,
           pc'[s] = pc[s], attempt'[s] = attempt[s], audit'[s] = audit[s],
           \A m \in net' : m \in net \/ m.req = r
    PROVE  Waits(s)
  BY DEF Waits, InFlight

\* The three ways a thread moves on: to a call, to its end, to a repetition.
LEMMA CallAdvances ==
    ASSUME TypeOK, NEW r \in Requests, NEW op \in Ops, Call(r, op),
           Rank(op) > Rank(pc[r]), \A s \in Requests \ {r} : audit'[s] = audit[s]
    PROVE  \A s \in Requests : Advances(s) \/ Waits(s)
  <1>1. Advances(r)
    BY DEF Advances, Call, TypeOK
  <1>2. ASSUME NEW s \in Requests, s # r  PROVE Waits(s)
    BY <1>2, OthersWait, CallNet DEF Call, TypeOK
  <1>. QED
    BY <1>1, <1>2

LEMMA EndAdvances ==
    ASSUME TypeOK, NEW r \in Requests, NEW result \in Decided \cup Ended, End(r, result),
           pc[r] \in Running, result \in Decided => pc[r] \notin Decided,
           \A s \in Requests \ {r} : audit'[s] = audit[s]
    PROVE  \A s \in Requests : Advances(s) \/ Waits(s)
  <1>1. Advances(r)
    <2>1. pc'[r] = result /\ pc[r] \in Pc /\ result \in Pc
      BY DEF End, TypeOK, Pc, Running
    <2>2. Rank(pc[r]) \in 0 .. 8 /\ Rank(result) \in 0 .. 8 /\ Rank(result) > Rank(pc[r])
      BY <2>1, RankIsNat
    <2>. QED
      BY <2>1, <2>2 DEF Advances
  <1>2. ASSUME NEW s \in Requests, s # r  PROVE Waits(s)
    BY <1>2, OthersWait DEF End, TypeOK
  <1>. QED
    BY <1>1, <1>2

LEMMA ResendAdvances ==
    ASSUME TypeOK, NEW r \in Requests, Resend(r)
    PROVE  \A s \in Requests : Advances(s) \/ Waits(s)
  <1>1. Advances(r)
    <2>1. attempt[r] \in Nat
      BY AttemptAssumption DEF TypeOK
    <2>. QED
      BY <2>1 DEF Advances, Resend, TypeOK
  <1>2. \A m \in net' : m \in net \/ m.req = r
    BY DEF Resend, Again, Current
  <1>3. ASSUME NEW s \in Requests, s # r  PROVE Waits(s)
    BY <1>2, <1>3, OthersWait DEF Resend, TypeOK
  <1>. QED
    BY <1>1, <1>3

\* Every step of the system lets each request advance or wait.
LEMMA ForwardStep ==
    ASSUME TypeOK, [Next]_vars
    PROVE  \A s \in Requests : Advances(s) \/ Waits(s)
  <1>1. ASSUME NEW r \in Requests, Receive(r)
        PROVE  \A s \in Requests : Advances(s) \/ Waits(s)
    <2>1. Advances(r)
      BY <1>1 DEF Receive, Advances, Rank, Decided, TypeOK
    <2>2. ASSUME NEW s \in Requests, s # r  PROVE Waits(s)
      BY <1>1, <2>2, OthersWait DEF Receive, TypeOK
    <2>. QED
      BY <2>1, <2>2
  <1>2. ASSUME NEW r \in Requests, Admit(r)
        PROVE  \A s \in Requests : Advances(s) \/ Waits(s)
    <2>1. "get" \in Ops /\ Rank("get") > Rank(pc[r])
      BY <1>2 DEF Admit, Ops, Decided, Rank
    <2>. QED
      BY <1>2, <2>1, CallAdvances DEF Admit
  <1>3. ASSUME NEW r \in Requests, Proceed(r)
        PROVE  \A s \in Requests : Advances(s) \/ Waits(s)
    <2>1. NextOp(r) \in Ops /\ Rank(NextOp(r)) > Rank(pc[r]) /\ Call(r, NextOp(r))
      BY <1>3, NextIsLater DEF Proceed
    <2>2. \A s \in Requests \ {r} : audit'[s] = audit[s]
      BY <1>3 DEF Proceed
    <2>. QED
      BY <2>1, <2>2, CallAdvances
  <1>4. ASSUME NEW r \in Requests, LogRequest(r)
        PROVE  \A s \in Requests : Advances(s) \/ Waits(s)
    <2>1. Advances(r)
      BY <1>4 DEF LogRequest, Advances, Rank, Decided, TypeOK
    <2>2. ASSUME NEW s \in Requests, s # r  PROVE Waits(s)
      BY <1>4, <2>2, OthersWait DEF LogRequest, Log, TypeOK
    <2>. QED
      BY <2>1, <2>2
  <1>5. ASSUME NEW r \in Requests,
               \/ RejectCsr(r) \/ RejectTemplate(r) \/ Deny(r) \/ Issue(r)
               \/ Fail(r) \/ GiveUp(r) \/ Return(r) \/ Crash(r)
        PROVE  \A s \in Requests : Advances(s) \/ Waits(s)
    <2>1. \A s \in Requests \ {r} : audit'[s] = audit[s]
      BY <1>5 DEF RejectCsr, RejectTemplate, Deny, Issue, Fail, GiveUp, Return, Crash,
                  Log, TypeOK
    <2>2. pc[r] \in Running
      BY <1>5 DEF RejectCsr, RejectTemplate, Deny, Issue, Fail, GiveUp, Return, Crash,
                  Running, Decided, Ops
    <2>3. CASE RejectTemplate(r) \/ Return(r) \/ Crash(r)
      <3>1. \E result \in Ended : End(r, result)
        BY <2>3 DEF RejectTemplate, Return, Crash, Ended
      <3>. QED
        BY <2>1, <2>2, <3>1, EndAdvances DEF Ended, Decided
    <2>4. CASE RejectCsr(r) \/ Deny(r) \/ Issue(r) \/ Fail(r) \/ GiveUp(r)
      <3>1. \E result \in Decided : End(r, result)
        BY <2>4 DEF RejectCsr, Deny, Issue, Fail, GiveUp, Decided
      <3>2. pc[r] \notin Decided
        BY <2>4 DEF RejectCsr, Deny, Issue, Fail, GiveUp, Decided, Ops
      <3>. QED
        BY <2>1, <2>2, <3>1, <3>2, EndAdvances
    <2>. QED
      BY <1>5, <2>3, <2>4
  <1>6. ASSUME NEW m \in net, Serve(m)
        PROVE  \A s \in Requests : Advances(s) \/ Waits(s)
    <2>1. net' \subseteq net
      BY <1>6 DEF Serve, ServeGet, ServeDelete, ServeReset, ServeAdd, ServeEnroll,
                  Refuse, Decline, Answer
    <2>. QED
      BY <1>6, <2>1 DEF Serve, Waits, InFlight
  <1>7. CASE UNCHANGED vars
    BY <1>7 DEF vars, Waits, InFlight
  <1>. QED
    BY <1>1, <1>2, <1>3, <1>4, <1>5, <1>6, <1>7, ResendAdvances DEF Next, Step

\* A request never goes back and neither calls nor logs without an advance.
THEOREM Forward == Spec => NeverBack
  <1>1. ASSUME TypeOK, [Next]_vars
        PROVE  [\A r \in Requests :
                  \/ /\ pc'[r] = pc[r] /\ attempt'[r] = attempt[r]
                     /\ audit'[r] = audit[r]
                     /\ InFlight(r)' \subseteq InFlight(r)
                  \/ Advances(r)]_vars
    BY <1>1, ForwardStep DEF Waits
  <1>. QED
    BY <1>1, Typing, PTL DEF Spec, NeverBack

\* The logs a request may have where it stands.
Logs(r) ==
    CASE pc[r] \in {"idle", "received"}        -> {<<>>}
      [] pc[r] \in {"requested"} \cup Ops      -> {<<"request">>}
      [] pc[r] \in {"granted", "issued"}       -> {SuccessLog}
      [] pc[r] \in {"refused", "failed"}       -> FailureLogs(job[r])
      [] OTHER -> {<<>>, <<"request">>, SuccessLog} \cup FailureLogs(job[r])

\* The log is one of them at every place enroll may die, and tells of a
\* success only when there is one.
Logged ==
    \A r \in Requests :
        /\ audit[r] \in Logs(r)
        /\ audit[r] = SuccessLog => Admissible(job[r]) /\ CertsOf(r) # {}

\* The log of a request to which its outcome is added.
LEMMA AppendOutcome ==
    ASSUME NEW event \in Events
    PROVE  Append(<<"request">>, event) = <<"request", event>>
  <1>1. /\ <<"request">> \in Seq(Events) /\ Len(<<"request">>) = 1
        /\ <<"request", event>> \in Seq(Events) /\ Len(<<"request", event>>) = 2
    BY DEF Events
  <1>2. Append(<<"request">>, event) \in Seq(Events)
    BY <1>1
  <1>3. /\ Len(Append(<<"request">>, event)) = 2
        /\ Append(<<"request">>, event)[1] = "request"
        /\ Append(<<"request">>, event)[2] = event
    BY <1>1
  <1>4. \A i \in 1 .. Len(Append(<<"request">>, event)) :
           Append(<<"request">>, event)[i] = <<"request", event>>[i]
    <2>1. \A i \in 1 .. 2 : i = 1 \/ i = 2
      OBVIOUS
    <2>. QED
      BY <1>3, <2>1
  <1>5. Len(Append(<<"request">>, event)) = Len(<<"request", event>>)
    BY <1>1, <1>3
  <1>. QED
    BY <1>1, <1>2, <1>4, <1>5, SeqEqual, Zenon

\* No failure reads like a success.
LEMMA FailureIsNone == ASSUME NEW j PROVE SuccessLog \notin FailureLogs(j)
  <1>1. \A f \in Failures : f # "success"
    BY DEF Failures
  <1>. QED
    BY <1>1 DEF SuccessLog, FailureLogs

\* The step of one request keeps the logs of the others.
LEMMA OneLogged ==
    ASSUME Logged, NEW r \in Requests, job' = job, signed \subseteq signed',
           \A s \in Requests \ {r} : pc'[s] = pc[s] /\ audit'[s] = audit[s],
           audit'[r] \in Logs(r)',
           audit'[r] = SuccessLog =>
               audit[r] = SuccessLog \/ (Admissible(job[r]) /\ CertsOf(r) # {})
    PROVE  Logged'
  <1>1. \A s \in Requests : CertsOf(s) # {} => CertsOf(s)' # {}
    BY DEF CertsOf
  <1>2. ASSUME NEW s \in Requests, s # r
        PROVE  audit'[s] \in Logs(s)'
    BY <1>2 DEF Logged, Logs
  <1>. QED
    BY <1>1, <1>2 DEF Logged

\* What a decided request logged is told of it, if it had the request event.
LEMMA DecideLogged ==
    ASSUME TypeOK, Logged, NEW r \in Requests, NEW result \in Decided, NEW event,
           End(r, result), Log(r, event), job' = job, signed' = signed,
           Append(audit[r], event) \in
               IF result = "granted" THEN {SuccessLog} ELSE FailureLogs(job[r]),
           result = "granted" => Admissible(job[r]) /\ CertsOf(r) # {}
    PROVE  Logged'
  <1>1. pc'[r] = result /\ audit'[r] = Append(audit[r], event)
    BY DEF TypeOK, End, Log
  <1>2. \A s \in Requests \ {r} : pc'[s] = pc[s] /\ audit'[s] = audit[s]
    BY DEF TypeOK, End, Log
  <1>3. audit'[r] \in Logs(r)'
    BY <1>1 DEF Logs, Decided, Ops
  <1>4. audit'[r] = SuccessLog => result = "granted"
    BY <1>1, FailureIsNone DEF Decided
  <1>. QED
    BY <1>2, <1>3, <1>4, OneLogged

\* Every step keeps the log in order.
LEMMA LoggedStep ==
    ASSUME TypeOK, OnlyAdmissibleAct, SignedIsReal, Logged, [Next]_vars
    PROVE  Logged'
  <1>1. ASSUME UNCHANGED <<job, pc, audit>>, signed \subseteq signed'  PROVE Logged'
    <2>1. \A r \in Requests : CertsOf(r) # {} => CertsOf(r)' # {}
      BY <1>1 DEF CertsOf
    <2>. QED
      BY <1>1, <2>1 DEF Logged, Logs
  <1>2. ASSUME NEW r \in Requests, Receive(r)  PROVE Logged'
    <2>1. audit[r] = <<>> /\ audit' = audit /\ pc'[r] = "received" /\ job' = job
      BY <1>2 DEF Receive, Logged, Logs, Ops, TypeOK
    <2>2. audit'[r] \in Logs(r)'
      BY <2>1 DEF Logs, Ops
    <2>. QED
      BY <1>2, <2>1, <2>2, OneLogged DEF Receive, TypeOK, caVars
  <1>3. ASSUME NEW r \in Requests, LogRequest(r)  PROVE Logged'
    <2>1. audit[r] = <<>>
      BY <1>3 DEF LogRequest, Logged, Logs, Ops
    <2>2. audit'[r] = <<"request">> /\ pc'[r] = "requested"
      BY <1>3, <2>1 DEF LogRequest, Log, TypeOK
    <2>3. audit'[r] \in Logs(r)' /\ audit'[r] # SuccessLog
      BY <2>2 DEF Logs, SuccessLog
    <2>. QED
      BY <1>3, <2>3, OneLogged DEF LogRequest, Log, TypeOK, caVars
  <1>4. ASSUME NEW r \in Requests, Admit(r) \/ Proceed(r)  PROVE Logged'
    <2>1. PICK op \in Ops : Call(r, op)
      BY <1>4 DEF Admit, Proceed, NextOp, Ops
    <2>2. pc[r] \in {"requested"} \cup Ops
      BY <1>4 DEF Admit, Proceed, NextOp, Ops
    <2>3. audit[r] = <<"request">>
      BY <2>2 DEF Logged, Logs, Ops
    <2>4. pc'[r] = op /\ audit' = audit /\ job' = job /\ signed' = signed
      BY <1>4, <2>1 DEF Call, Admit, Proceed, TypeOK, caVars
    <2>5. audit'[r] \in Logs(r)'
      BY <2>3, <2>4 DEF Logs, Ops
    <2>. QED
      BY <2>1, <2>4, <2>5, OneLogged DEF Call, TypeOK
  <1>5. ASSUME NEW r \in Requests, RejectCsr(r) \/ Deny(r)  PROVE Logged'
    <2>1. CASE RejectCsr(r)
      <3>1. audit[r] = <<>>
        BY <2>1 DEF RejectCsr, Logged, Logs, Ops
      <3>2. Append(audit[r], "INTERNAL_ERROR") \in FailureLogs(job[r])
        BY <2>1, <3>1 DEF RejectCsr, FailureLogs
      <3>. QED
        BY <2>1, <3>2, DecideLogged DEF RejectCsr, Decided, caVars
    <2>2. CASE Deny(r)
      <3>1. audit[r] = <<"request">> /\ job[r].readable
        BY <2>2 DEF Deny, Logged, Logs, OnlyAdmissibleAct
      <3>2. Append(audit[r], "AUTHORIZATION_DENIED") \in FailureLogs(job[r])
        BY <2>2, <3>1, AppendOutcome DEF Deny, FailureLogs, Events, Failures
      <3>. QED
        BY <2>2, <3>2, DecideLogged DEF Deny, Decided, caVars
    <2>. QED
      BY <1>5, <2>1, <2>2
  <1>6. ASSUME NEW r \in Requests, Issue(r)  PROVE Logged'
    <2>1. audit[r] = <<"request">> /\ Admissible(job[r]) /\ CertsOf(r) # {}
      BY <1>6 DEF Issue, Logged, Logs, Ops, OnlyAdmissibleAct, SignedIsReal
    <2>2. Append(audit[r], "success") = SuccessLog
      BY <2>1, AppendOutcome DEF SuccessLog, Events
    <2>. QED
      BY <1>6, <2>1, <2>2, DecideLogged DEF Issue, Decided, caVars
  <1>7. ASSUME NEW r \in Requests, Fail(r) \/ GiveUp(r)  PROVE Logged'
    <2>1. audit[r] = <<"request">> /\ Admissible(job[r])
      BY <1>7 DEF Fail, GiveUp, Logged, Logs, Ops, OnlyAdmissibleAct
    <2>2. PICK f \in Failures \ {"AUTHORIZATION_DENIED"} :
             End(r, "refused") /\ Log(r, f) /\ job' = job /\ signed' = signed
      BY <1>7 DEF Fail, GiveUp, FailureOf, Failures, caVars
    <2>3. Append(audit[r], f) \in FailureLogs(job[r])
      BY <2>1, <2>2, AppendOutcome DEF FailureLogs, Admissible, Events
    <2>. QED
      BY <2>2, <2>3, DecideLogged DEF Decided
  <1>8. ASSUME NEW r \in Requests, RejectTemplate(r) \/ Return(r) \/ Crash(r)
        PROVE  Logged'
    <2>1. audit' = audit /\ job' = job /\ signed' = signed
      BY <1>8 DEF RejectTemplate, Return, Crash, caVars
    <2>2. \A s \in Requests \ {r} : pc'[s] = pc[s]
      BY <1>8 DEF RejectTemplate, Return, Crash, End, TypeOK
    <2>3. audit[r] \in Logs(r)'
      <3>1. CASE RejectTemplate(r)
        <4>1. audit[r] = <<"request">> /\ job[r].readable /\ pc'[r] = "failed"
          BY <3>1 DEF RejectTemplate, End, Logged, Logs, OnlyAdmissibleAct, TypeOK
        <4>. QED
          BY <2>1, <3>1, <4>1 DEF RejectTemplate, Logs, FailureLogs, Ops
      <3>2. CASE Return(r)
        BY <2>1, <3>2 DEF Return, End, Logged, Logs, Ops, TypeOK
      <3>3. CASE Crash(r)
        BY <2>1, <3>3 DEF Crash, End, Logged, Logs, Ops, Running, Decided, TypeOK
      <3>. QED
        BY <1>8, <3>1, <3>2, <3>3
    <2>. QED
      BY <2>1, <2>2, <2>3, OneLogged
  <1>9. ASSUME NEW m \in net, Serve(m)  PROVE signed \subseteq signed'
    BY <1>9 DEF Serve, ServeGet, ServeDelete, ServeReset, ServeAdd, ServeEnroll, Refuse,
          Decline
  <1>. QED
    BY <1>1, <1>2, <1>3, <1>4, <1>5, <1>6, <1>7, <1>8, <1>9
       DEF Next, Step, Resend, Serve, vars, caVars

\* The audit log of a request tells what enroll made of it, in every
\* interleaving and wherever its worker dies.
THEOREM Audited == Spec => []AuditTellsOutcome
  <1>1. Init => Logged
    BY DEF Init, Logged, Logs, Ops, SuccessLog
  <1>2. TypeOK /\ Logged => AuditTellsOutcome
    BY DEF TypeOK, Pc, Running, Ended, Decided, Ops, Logged, Logs, AuditTellsOutcome
  <1>. QED
    BY <1>1, <1>2, ActInvariant, LoggedStep, PTL DEF Spec

-----------------------------------------------------------------------------
(***************************************************************************)
(* An undisturbed request succeeds.                                        *)
(***************************************************************************)
\* What a step leaves alone for a request keeps the request clean.
LEMMA Frame ==
    ASSUME NEW s \in Requests,
           NotYet(s), pc[s] \in Ops /\ s \notin disturbed => Calm(s),
           pc'[s] = pc[s], attempt'[s] = attempt[s], reply'[s] = reply[s],
           job' = job, store'[User(s)] = store[User(s)],
           \A m \in net' : m.req = s => m \in net,
           disturbed \subseteq disturbed'
    PROVE  NotYet(s)' /\ (pc'[s] \in Ops /\ s \notin disturbed' => Calm(s)')
  <1>1. User(s)' = User(s)
    BY DEF User
  <1>2. NotYet(s)'
    BY DEF NotYet
  <1>3. ASSUME Calm(s)  PROVE Calm(s)'
    <2>1. Fits(s)'
      BY <1>1, <1>3 DEF Calm, Fits
    <2>. QED
      BY <1>3, <2>1 DEF Calm, Current
  <1>. QED
    BY <1>2, <1>3

\* A call follows an undisturbed request's answered call.
LEMMA CallClean ==
    ASSUME TypeOK, NEW r \in Requests, NEW op \in Ops, Call(r, op),
           UNCHANGED <<job, store, disturbed>>,
           r \notin disturbed => (\A m \in net : m.req # r) /\ Fits(r)',
           CleanRun
    PROVE  CleanRun'
  <1>1. ASSUME NEW s \in Requests, s # r
        PROVE  NotYet(s)' /\ (pc'[s] \in Ops /\ s \notin disturbed' => Calm(s)')
    BY <1>1, Frame DEF TypeOK, CleanRun, Call
  <1>2. NotYet(r)'
    BY DEF TypeOK, Call, NotYet, Ops
  <1>3. ASSUME r \notin disturbed  PROVE Calm(r)'
    BY <1>3, AttemptAssumption DEF TypeOK, Call, Calm, Current
  <1>. QED
    BY <1>1, <1>2, <1>3 DEF CleanRun

\* EJBCA's part: only the call an undisturbed request waits for can be its own,
\* and a call of another on its end entity disturbs it.
LEMMA ServeClean ==
    ASSUME TypeOK, CleanRun, NEW m \in net, Serve(m)
    PROVE  CleanRun'
  <1>1. m.req \in Requests /\ User(m.req) \in Users /\ m.op \in Ops
    BY UserIsUser DEF TypeOK, Message
  <1>2. net' = net \ {m} /\ UNCHANGED <<job, pc, attempt>> /\ disturbed \subseteq disturbed'
    BY DEF Serve, ServeGet, ServeDelete, ServeReset, ServeAdd, ServeEnroll, Refuse,
           Decline, Answer
  <1>3. \A s \in Requests : s # m.req => reply'[s] = reply[s]
    BY <1>1 DEF Serve, ServeGet, ServeDelete, ServeReset, ServeAdd, ServeEnroll, Refuse,
           Decline, Answer, TypeOK
  <1>4. ASSUME NEW s \in Requests, s # m.req
        PROVE  NotYet(s)' /\ (pc'[s] \in Ops /\ s \notin disturbed' => Calm(s)')
    <2>1. CASE store'[User(s)] = store[User(s)]
      BY <1>2, <1>3, <1>4, <2>1, Frame DEF CleanRun
    <2>2. CASE store'[User(s)] # store[User(s)]
      <3>1. User(s) = User(m.req) /\ disturbed \cup Rivals(m) \subseteq disturbed'
        BY <1>1, <2>2, UserIsUser DEF Serve, ServeGet, ServeDelete, ServeReset, ServeAdd,
              ServeEnroll, Refuse, Decline, TypeOK
      <3>2. pc[s] \in Ops => s \in disturbed'
        BY <1>4, <3>1 DEF Rivals
      <3>3. NotYet(s)'
        BY <1>2 DEF CleanRun, NotYet
      <3>. QED
        BY <1>2, <3>2, <3>3
    <2>. QED
      BY <2>1, <2>2
  <1>5. NotYet(m.req)'
    BY <1>1, <1>2 DEF CleanRun, NotYet
  <1>6. ASSUME pc[m.req] \in Ops, m.req \notin disturbed'
        PROVE  Calm(m.req)'
    <2>1. /\ Calm(m.req) /\ m = Current(m.req) /\ reply[m.req] = "none"
          /\ pc[m.req] = m.op /\ attempt[m.req] = m.try
      BY <1>1, <1>2, <1>6 DEF CleanRun, Calm, Current
    <2>2. Awaited(m) /\ Fits(m.req)
      BY <2>1 DEF Awaited, Calm
    <2>3. \A q \in net' : q.req # m.req
      BY <1>1, <1>2, <2>1 DEF Calm
    <2>4. User(m.req)' = User(m.req)
      BY <1>2 DEF User
    <2>5. /\ reply'[m.req] \in {"found", "missing", "ok", "signed"}
          /\ Fits(m.req)'
      <3>1. CASE ServeGet(m)
        BY <1>1, <1>2, <2>1, <2>2, <2>4, <3>1
           DEF ServeGet, Answer, Registered, Fits, TypeOK
      <3>2. CASE ServeDelete(m)
        BY <1>1, <1>2, <2>1, <2>2, <2>4, <3>2
           DEF ServeDelete, Answer, Registered, Fits, TypeOK
      <3>3. CASE ServeReset(m)
        <4>1. store[User(m.req)] \in EndEntity
          BY <1>1, <3>3 DEF ServeReset, Registered, TypeOK
        <4>2. /\ store'[User(m.req)] \in EndEntity
              /\ store'[User(m.req)].new = TRUE
              /\ store'[User(m.req)].password = m.req
          BY <1>1, <3>3, <4>1 DEF ServeReset, TypeOK, EndEntity
        <4>3. store'[User(m.req)] # Absent
          BY <4>2 DEF Absent
        <4>. QED
          BY <1>1, <1>2, <2>1, <2>2, <2>4, <3>3, <4>2, <4>3
             DEF ServeReset, Answer, Fits, TypeOK
      <3>4. CASE ServeAdd(m)
        <4>1. store'[User(m.req)] = [subject |-> m.req, password |-> m.req, new |-> TRUE]
          BY <1>1, <3>4 DEF ServeAdd, TypeOK
        <4>2. store'[User(m.req)] # Absent
          BY <4>1 DEF Absent
        <4>. QED
          BY <1>1, <1>2, <2>1, <2>2, <2>4, <3>4, <4>1, <4>2
             DEF ServeAdd, Answer, Fits, TypeOK
      <3>5. CASE ServeEnroll(m)
        <4>1. Answer(m, "signed")
          BY <1>6, <3>5 DEF ServeEnroll
        <4>. QED
          BY <1>1, <1>2, <2>1, <2>2, <2>4, <3>5, <4>1
             DEF ServeEnroll, Answer, Fits, TypeOK
      <3>6. CASE Refuse(m)
        BY <2>1, <2>2, <3>6 DEF Refuse, Registered, Usable, Fits
      <3>7. CASE Decline(m)
        BY <1>6, <3>7 DEF Decline
      <3>. QED
        BY <3>1, <3>2, <3>3, <3>4, <3>5, <3>6, <3>7 DEF Serve
    <2>. QED
      BY <1>2, <2>1, <2>3, <2>5 DEF Calm
  <1>. QED
    BY <1>2, <1>4, <1>5, <1>6 DEF CleanRun

\* The threads' part: a call follows an answered one, a retry disturbs.
LEMMA ThreadClean ==
    ASSUME TypeOK, CleanRun, NEW r \in Requests, Receive(r) \/ Step(r) \/ Crash(r)
    PROVE  CleanRun'
  <1>1. ASSUME NEW s \in Requests, s # r, UNCHANGED <<job, store>>,
               pc'[s] = pc[s], attempt'[s] = attempt[s], reply'[s] = reply[s],
               \A m \in net' : m \in net \/ m.req = r, disturbed \subseteq disturbed'
        PROVE  NotYet(s)' /\ (pc'[s] \in Ops /\ s \notin disturbed' => Calm(s)')
    BY <1>1, Frame DEF CleanRun
  <1>2. CASE Receive(r) \/ LogRequest(r)
    <2>1. NotYet(r)'
      BY <1>2 DEF CleanRun, NotYet, Receive, LogRequest
    <2>. QED
      BY <1>1, <1>2, <2>1 DEF TypeOK, CleanRun, Receive, LogRequest, Ops, caVars
  <1>3. ASSUME NEW result \in Decided \cup Ended, End(r, result),
               UNCHANGED <<job, store>>, disturbed \subseteq disturbed'
        PROVE  CleanRun'
    BY <1>1, <1>3 DEF TypeOK, CleanRun, NotYet, End, Ops, Decided, Ended
  <1>4. CASE Admit(r)
    <2>1. \A m \in net : m.req # r
      BY <1>4 DEF Admit, CleanRun, NotYet
    <2>2. Fits(r)'
      BY <1>4 DEF TypeOK, Admit, Call, Fits
    <2>. QED
      BY <1>4, <2>1, <2>2, CallClean DEF Admit, Ops, caVars
  <1>5. CASE Proceed(r)
    <2>1. NextOp(r) \in Ops /\ pc[r] \in Ops /\ reply[r] # "none"
      BY <1>5 DEF Proceed, NextOp, Ops
    <2>2. ASSUME r \notin disturbed  PROVE Calm(r)
      BY <2>1, <2>2 DEF CleanRun
    <2>3. r \notin disturbed => \A m \in net : m.req # r
      BY <2>1, <2>2 DEF Calm
    <2>4. ASSUME r \notin disturbed  PROVE Fits(r)'
      <3>1. User(r)' = User(r) /\ store' = store /\ job' = job
        BY <1>5 DEF Proceed, User, caVars
      <3>2. pc'[r] = NextOp(r) /\ reply'[r] = "none"
        BY <1>5 DEF Proceed, Call, TypeOK
      <3>. QED
        BY <2>1, <2>2, <2>4, <3>1, <3>2 DEF Calm, Fits, NextOp, Ops
    <2>. QED
      BY <1>5, <2>1, <2>3, <2>4, CallClean DEF Proceed, caVars
  <1>6. CASE Resend(r)
    <2>1. NotYet(r)' /\ r \in disturbed'
      BY <1>6 DEF Resend, NotYet, Ops
    <2>2. Again(r).req = r
      BY DEF Again, Current
    <2>. QED
      BY <1>1, <1>6, <2>1, <2>2 DEF TypeOK, CleanRun, Resend, caVars
  <1>. QED
    BY <1>2, <1>3, <1>4, <1>5, <1>6
       DEF Step, RejectCsr, RejectTemplate, Deny, Issue, Fail, GiveUp, Return, Crash,
           Decided, Ended, caVars

\* A request without fault or rival stays on its clean way.
LEMMA CleanStep == TypeOK /\ CleanRun /\ [Next]_vars => CleanRun'
  <1>1. TypeOK /\ CleanRun /\ UNCHANGED vars => CleanRun'
    BY DEF CleanRun, NotYet, Calm, Fits, Current, User, vars
  <1>. QED
    BY <1>1, ThreadClean, ServeClean DEF Next

\* It is on it always.
LEMMA CleanInvariant == Spec => [](TypeOK /\ CleanRun)
  <1>1. Init => CleanRun
    BY DEF Init, CleanRun, NotYet, Ops
  <1>. QED
    BY <1>1, Typing, CleanStep, PTL DEF Spec

\* An admissible request fails only if one of its calls met a fault or another
\* request's call on its end entity was served while it ran: the sequence of
\* calls heals whatever end entity earlier failures and crashes left.
THEOREM Undisturbed == Spec => []UndisturbedSucceeds
  <1>1. Init => UndisturbedSucceeds
    BY DEF Init, UndisturbedSucceeds
  <1>2. ASSUME TypeOK, CleanRun, UndisturbedSucceeds, [Next]_vars
        PROVE  UndisturbedSucceeds'
    <2>1. SUFFICES ASSUME NEW s \in Requests, pc'[s] \in {"refused", "failed"},
                          Admissible(job'[s])
                   PROVE  s \in disturbed'
      BY DEF UndisturbedSucceeds
    <2>2. job' = job /\ disturbed \subseteq disturbed'
      BY <1>2 DEF Next, Step, Receive, RejectCsr, LogRequest, RejectTemplate, Deny, Admit,
            Proceed, Issue, Fail, Resend, GiveUp, Return, Crash, Serve, ServeGet, ServeDelete, ServeReset,
            ServeAdd, ServeEnroll, Refuse, Decline, vars
    <2>3. CASE pc'[s] = pc[s]
      BY <1>2, <2>1, <2>2, <2>3 DEF UndisturbedSucceeds
    <2>4. ASSUME NEW r \in Requests, pc'[s] # pc[s], Receive(r) \/ Step(r) \/ Crash(r)
          PROVE  s \in disturbed'
      <3>1. CASE Fail(r)
        <4>1. r = s
          BY <1>2, <2>4, <3>1 DEF Fail, End, TypeOK
        <4>2. s \in disturbed
          BY <1>2, <3>1, <4>1 DEF Fail, FailureOf, CleanRun, Calm
        <4>. QED
          BY <2>2, <4>2
      <3>2. CASE GiveUp(r)
        BY <1>2, <2>4, <3>2 DEF GiveUp, End, TypeOK
      <3>3. CASE RejectCsr(r) \/ RejectTemplate(r) \/ Deny(r)
        BY <1>2, <2>1, <2>2, <2>4, <3>3
           DEF RejectCsr, RejectTemplate, Deny, End, TypeOK, Admissible
      <3>4. CASE Issue(r) \/ Crash(r) \/ Receive(r) \/ LogRequest(r) \/ Resend(r)
        BY <1>2, <2>1, <2>4, <3>4
           DEF Issue, Crash, Receive, LogRequest, Resend, End, TypeOK
      <3>5. CASE Admit(r) \/ Proceed(r)
        <4>1. PICK op \in Ops : Call(r, op)
          BY <3>5 DEF Admit, Proceed, NextOp, Ops
        <4>. QED
          BY <1>2, <2>1, <2>4, <4>1 DEF Call, Ops, TypeOK
      <3>6. CASE Return(r)
        BY <1>2, <2>1, <2>2, <2>4, <3>6 DEF Return, End, UndisturbedSucceeds, TypeOK
      <3>. QED
        BY <2>4, <3>1, <3>2, <3>3, <3>4, <3>5, <3>6 DEF Step
    <2>. QED
      BY <1>2, <2>3, <2>4 DEF Next, Serve, vars
  <1>. QED
    BY <1>1, <1>2, CleanInvariant, PTL DEF Spec

-----------------------------------------------------------------------------
(***************************************************************************)
(* Certificates keep their owner while the hash fits the username.         *)
(***************************************************************************)
LEMMA SubjectStep ==
    ASSUME TypeOK, SubjectsFit, [Next]_vars
    PROVE  SubjectsFit'
  <1>1. ASSUME UNCHANGED <<job, store, signed>>  PROVE SubjectsFit'
    BY <1>1 DEF SubjectsFit, User
  <1>2. ASSUME NEW m \in net, Serve(m)  PROVE SubjectsFit'
    <2>1. m.req \in Requests /\ User(m.req) \in Users
      BY UserIsUser DEF TypeOK, Message
    <2>2. job' = job
      BY <1>2 DEF Serve
    <2>3. \A u \in Users : store'[u] # Absent =>
             \/ store[u] # Absent /\ store'[u].subject = store[u].subject
             \/ u = User(m.req) /\ store'[u].subject = m.req
      <3>1. CASE UNCHANGED store
        BY <3>1
      <3>2. CASE ServeDelete(m)
        BY <3>2, <2>1 DEF ServeDelete, TypeOK
      <3>3. CASE ServeReset(m)
        BY <3>3, <2>1 DEF ServeReset, Registered, TypeOK, EndEntity
      <3>4. CASE ServeAdd(m)
        BY <3>4, <2>1 DEF ServeAdd, TypeOK
      <3>5. CASE ServeEnroll(m)
        BY <3>5, <2>1 DEF ServeEnroll, Usable, Registered, TypeOK, EndEntity
      <3>. QED
        BY <1>2, <3>1, <3>2, <3>3, <3>4, <3>5 DEF Serve, ServeGet, Refuse, Decline
    <2>4. \A c \in signed' :
             \/ c \in signed
             \/ /\ c.csr = m.req /\ store[User(m.req)] # Absent
                /\ c.subject = store[User(m.req)].subject
      BY <1>2 DEF Serve, ServeGet, ServeDelete, ServeReset, ServeAdd, ServeEnroll,
                  Refuse, Decline, Usable, Registered
    <2>5. \A u \in Users : store'[u] # Absent => User(store'[u].subject) = u
      BY <2>1, <2>3 DEF SubjectsFit
    <2>6. \A c \in signed' : User(c.csr) = User(c.subject)
      BY <2>1, <2>4 DEF SubjectsFit
    <2>. QED
      BY <2>2, <2>5, <2>6 DEF SubjectsFit, User
  <1>3. (\E r \in Requests : Receive(r) \/ Step(r) \/ Crash(r)) => UNCHANGED <<job, store, signed>>
    BY DEF Step, Receive, RejectCsr, LogRequest, RejectTemplate, Deny, Admit, Proceed,
           Issue, Fail, Resend, GiveUp, Return, Crash, caVars
  <1>. QED
    BY <1>1, <1>2, <1>3 DEF Next, vars

\* With room for the hash in every username, a certificate carries the subject
\* registered for the client and template it was asked for.
THEOREM Subjects ==
    ASSUME HashFits = Clients
    PROVE  Spec => []OwnSubject
  <1>1. Init => SubjectsFit
    BY DEF Init, SubjectsFit
  <1>2. ASSUME TypeOK, SubjectsFit  PROVE OwnSubject
    <2>1. SUFFICES ASSUME NEW c \in signed
                   PROVE  /\ job[c.csr].client = job[c.subject].client
                          /\ job[c.csr].template = job[c.subject].template
      BY DEF OwnSubject
    <2>2. job[c.csr].client \in Clients /\ job[c.subject].client \in Clients
      BY <1>2, JobsAssumption DEF TypeOK, Certificate, Job
    <2>3. {<<job[c.csr].client, job[c.csr].template>>}
            = {<<job[c.subject].client, job[c.subject].template>>}
      <3>1. User(c.csr).hash = User(c.subject).hash
        BY <1>2 DEF SubjectsFit
      <3>. QED
        BY <2>2, <3>1 DEF User, Username
    <2>4. <<job[c.csr].client, job[c.csr].template>>
            = <<job[c.subject].client, job[c.subject].template>>
      BY <2>3
    <2>. QED
      BY <2>4
  <1>. QED
    BY <1>1, <1>2, Typing, SubjectStep, PTL DEF Spec

-----------------------------------------------------------------------------
(***************************************************************************)
(* Refinement.                                                             *)
(***************************************************************************)
\* A step of Enrollment is a step of Issuance or changes nothing it sees.
LEMMA PromiseStep ==
    ASSUME TypeOK, OnlyAdmissibleAct, SignedIsReal, CleanRun, [Next]_vars
    PROVE  [Promise!Next]_(Promise!vars)
  <1>1. ASSUME NEW r \in Requests, Receive(r)  PROVE Promise!Submit(r)
    BY <1>1 DEF TypeOK, Receive, Promise!Submit, caVars, Running, Ops, Decided
  <1>2. ASSUME NEW r \in Requests, NEW result \in {"failed", "dead"},
               pc[r] \in Running, End(r, result), UNCHANGED <<job, signed>>
        PROVE  Promise!Deny(r)
    <2>1. result \notin Running
      BY DEF Running, Ops, Decided
    <2>. QED
      BY <1>2, <2>1 DEF TypeOK, End, Promise!Deny
  <1>3. ASSUME NEW r \in Requests, pc[r] = "granted", End(r, "issued"),
               UNCHANGED <<job, signed>>
        PROVE  Promise!Grant(r)
    <2>1. "issued" \notin Running /\ "granted" \in Running
      BY DEF Running, Ops, Decided
    <2>2. r \in {c.csr : c \in signed}
      BY <1>3 DEF SignedIsReal, CertsOf
    <2>. QED
      BY <1>3, <2>1, <2>2 DEF TypeOK, End, Promise!Grant
  <1>4. ASSUME NEW r \in Requests, pc[r] \in Running, pc'[r] \in Running,
               \A s \in Requests \ {r} : pc'[s] = pc[s], UNCHANGED <<job, signed>>
        PROVE  UNCHANGED Promise!vars
    BY <1>4 DEF TypeOK, Promise!vars
  <1>5. ASSUME UNCHANGED <<job, pc, signed>>  PROVE UNCHANGED Promise!vars
    BY <1>5 DEF Promise!vars
  <1>6. ASSUME NEW m \in net, ServeEnroll(m), UNCHANGED <<job, pc>>
        PROVE  m.req \in Requests /\ Promise!Sign(m.req)
    <2>1. m.req \in Requests /\ Admissible(job[m.req])
      BY DEF TypeOK, Message, OnlyAdmissibleAct
    <2>2. pc[m.req] # "idle"
      BY <2>1 DEF CleanRun, NotYet
    <2>3. {c.csr : c \in signed'} = {c.csr : c \in signed} \cup {m.req}
      <3> DEFINE cert == [csr |-> m.req, try |-> m.try,
                          subject |-> store[User(m.req)].subject]
      <3>1. signed' = signed \cup {cert}
        BY <1>6 DEF ServeEnroll
      <3>2. cert.csr = m.req
        OBVIOUS
      <3>. HIDE DEF cert
      <3>. QED
        BY <3>1, <3>2
    <2>. QED
      BY <1>6, <2>1, <2>2, <2>3 DEF Promise!Sign
  <1>7. ASSUME NEW m \in net, Serve(m)
        PROVE  UNCHANGED Promise!vars \/ \E r \in Requests : Promise!Sign(r)
    BY <1>5, <1>6, <1>7 DEF Serve, ServeGet, ServeDelete, ServeReset, ServeAdd, Refuse,
          Decline
  <1>8. ASSUME NEW r \in Requests,
               \/ LogRequest(r) \/ Admit(r) \/ Proceed(r)
               \/ RejectCsr(r) \/ Deny(r) \/ Issue(r) \/ Fail(r) \/ GiveUp(r)
        PROVE  UNCHANGED Promise!vars
    <2>1. pc[r] \in Running /\ UNCHANGED <<job, signed>>
      BY <1>8 DEF LogRequest, Admit, Proceed, NextOp, RejectCsr, Deny, Issue, Fail, GiveUp,
                  Running, Ops, caVars
    <2>2. \E p \in Running : pc' = [pc EXCEPT ![r] = p]
      BY <1>8 DEF LogRequest, Admit, Proceed, NextOp, Call, RejectCsr, Deny, Issue, Fail,
                  GiveUp, End, Running, Decided, Ops
    <2>. QED
      BY <1>4, <2>1, <2>2 DEF TypeOK
  <1>9. ASSUME NEW r \in Requests, RejectTemplate(r) \/ Return(r) \/ Crash(r)
        PROVE  Promise!Deny(r) \/ Promise!Grant(r)
    <2>1. pc[r] \in Running
      BY <1>9 DEF RejectTemplate, Return, Crash, Running, Decided
    <2>. QED
      BY <1>2, <1>3, <1>9, <2>1 DEF RejectTemplate, Return, Crash, caVars
  <1>10. ASSUME NEW r \in Requests, Receive(r) \/ Step(r) \/ Crash(r)
         PROVE  UNCHANGED Promise!vars \/ Promise!Next
    BY <1>1, <1>5, <1>8, <1>9, <1>10 DEF Step, Resend, caVars, Promise!Next
  <1>. QED
    BY <1>5, <1>7, <1>10 DEF Next, vars, Promise!Next

\* EnrollmentHandler.enroll, its client's retries and EJBCA implement Issuance.
THEOREM Implements == Spec => KeepsPromise
  <1>1. Init => Promise!Init
    BY DEF Init, Promise!Init, Running, Ops, Decided
  <1>. QED
    BY <1>1, PromiseStep, ActInvariant, CleanInvariant, PTL
       DEF Spec, KeepsPromise, Promise!Spec
=============================================================================
