------------------------------ MODULE Enrollment ------------------------------
(***************************************************************************)
(* EnrollmentHandler.enroll (src/enrollment_handler.py) run by the threads *)
(* of the proxy, one request each, against the end entities and the CA     *)
(* that all of them share in EJBCA.                                        *)
(*                                                                         *)
(* A request goes through the calls get, then reset or (delete and) add,   *)
(* then enroll.  A call is a message in net: the client of                 *)
(* src/ejbca/client.py may give up waiting for one that is still on its    *)
(* way, and send it again, so EJBCA may serve it late or serve it twice.   *)
(* Between two calls other requests run.                                   *)
(*                                                                         *)
(* The password of a request is fresh (secrets.choice, 32 characters), so  *)
(* it is represented by the request itself, and so is its CSR.             *)
(***************************************************************************)
EXTENDS Naturals, FiniteSets, Sequences

CONSTANTS
    Requests,       \* enrollment requests the devices send, one thread each
    Clients,        \* Kerberos principals
    Templates,      \* template names a request may ask for
    Groups,         \* AD groups
    Configured,     \* the templates that have a mapping
    AllowedGroups,  \* the groups a mapping names, {} when it names none
    Stem,           \* the "name_type_" part of a client's EJBCA username
    HashFits,       \* clients whose stem leaves room for the hash in 64 chars
    Jobs,           \* what requests may ask for, a subset of Job
    MaxAttempts     \* sends of one call: 1 + max_retries of the session

ASSUME MappingAssumption ==
    /\ Configured \subseteq Templates
    /\ AllowedGroups \in [Configured -> SUBSET Groups]

ASSUME RequestAssumption == {} \notin Requests

ASSUME AttemptAssumption == MaxAttempts \in Nat \ {0}

(***************************************************************************)
(* Requests and the names derived from them.                               *)
(***************************************************************************)
\* g.user_groups: {} is None (no directory to ask), {G} the groups G.
KnownGroups == {{}} \cup {{G} : G \in SUBSET Groups}

Job == [client   : Clients,
        template : Templates,
        renew    : BOOLEAN,                     \* request_type == RENEW
        groups   : KnownGroups,
        readable : BOOLEAN]                     \* parse_csr accepts the CSR

ASSUME JobsAssumption == Jobs \subseteq Job

\* Mutant: the hash leaves the template out.
UsernameWithoutTemplate(client, template) ==
    [stem |-> Stem[client],
     hash |-> IF client \in HashFits THEN {<<client, client>>} ELSE {}]

\* The hash of principal and template ends the name, so the cut to 64
\* characters removes it first.
Username(client, template) ==
    [stem |-> Stem[client],
     hash |-> IF client \in HashFits THEN {<<client, template>>} ELSE {}]

Users == {Username(c, t) : c \in Clients, t \in Templates}

Authorized(j) ==
    \/ AllowedGroups[j.template] = {}
    \/ \E G \in j.groups : G \cap AllowedGroups[j.template] # {}

Admissible(j) == j.readable /\ j.template \in Configured /\ Authorized(j)

(***************************************************************************)
(* State.                                                                  *)
(***************************************************************************)
Ops     == {"get", "delete", "reset", "add", "enroll"}

\* Mutant: allowed_methods of Retry has every method.
RetriedAll == {"get", "delete", "reset", "add", "enroll"}

Retried == {"get", "reset", "add", "enroll"}     \* allowed_methods of Retry

Decided == {"granted", "refused"}                \* logged, and not returned yet
Running == {"received", "requested"} \cup Ops \cup Decided    \* enroll runs
Ended   == {"issued", "failed", "dead"}
Pc      == {"idle"} \cup Running \cup Ended

Message == [op : Ops, req : Requests, try : 1 .. MaxAttempts]

Refusals == {"invalid", "error"}                 \* 400; 401, 403, 404, 409
Replies  == {"none", "found", "missing", "ok", "signed", "unreadable",
             "unavailable"} \cup Refusals

Failures == {"AUTHORIZATION_DENIED", "VALIDATION_ERROR", "EJBCA_ERROR",
             "INTERNAL_ERROR"}
Events   == {"request", "success"} \cup Failures

\* An end entity: who registered its subject, whose password it has, and
\* whether that password may still be used (status NEW) or was (GENERATED).
EndEntity == [subject : Requests, password : Requests, new : BOOLEAN]
Absent    == [subject |-> {}, password |-> {}, new |-> FALSE]

VARIABLES
    job,        \* what each request asks for and who asks
    pc,         \* where the request stands; an op when its call is out
    attempt,    \* sends of that call so far
    reply,      \* EJBCA's answer to that call, "none" before it arrives
    audit,      \* the audit events of the request, in order
    net,        \* calls on their way to EJBCA
    store,      \* EJBCA's end entities
    signed,     \* certificates the CA has signed
    disturbed   \* history: requests that met a fault or another's call

threadVars == <<pc, attempt, reply>>
caVars     == <<store, signed>>
vars == <<job, pc, attempt, reply, audit, net, store, signed, disturbed>>

User(r) == Username(job[r].client, job[r].template)

Init ==
    /\ job \in [Requests -> Jobs]
    /\ pc = [r \in Requests |-> "idle"]
    /\ attempt = [r \in Requests |-> 0]
    /\ reply = [r \in Requests |-> "none"]
    /\ audit = [r \in Requests |-> <<>>]
    /\ net = {}
    /\ store = [u \in Users |-> Absent]
    /\ signed = {}
    /\ disturbed = {}

-----------------------------------------------------------------------------
(***************************************************************************)
(* The thread of a request.                                                *)
(***************************************************************************)
Call(r, op) ==
    /\ pc' = [pc EXCEPT ![r] = op]
    /\ attempt' = [attempt EXCEPT ![r] = 1]
    /\ reply' = [reply EXCEPT ![r] = "none"]
    /\ net' = net \cup {[op |-> op, req |-> r, try |-> 1]}

Log(r, event) == audit' = [audit EXCEPT ![r] = Append(@, event)]

End(r, result) ==
    /\ pc' = [pc EXCEPT ![r] = result]
    /\ attempt' = [attempt EXCEPT ![r] = 0]
    /\ reply' = [reply EXCEPT ![r] = "none"]
    /\ net' = net

\* The WSTEP service hands the request to the handler.
Receive(r) ==
    /\ pc[r] = "idle"
    /\ pc' = [pc EXCEPT ![r] = "received"]
    /\ UNCHANGED <<job, attempt, reply, audit, net, caVars, disturbed>>

\* parse_csr raises, before the request is audited.
RejectCsr(r) ==
    /\ pc[r] = "received" /\ ~job[r].readable
    /\ End(r, "refused") /\ Log(r, "INTERNAL_ERROR")
    /\ UNCHANGED <<job, caVars, disturbed>>

LogRequest(r) ==
    /\ pc[r] = "received" /\ job[r].readable
    /\ pc' = [pc EXCEPT ![r] = "requested"]
    /\ Log(r, "request")
    /\ UNCHANGED <<job, attempt, reply, net, caVars, disturbed>>

\* get_mapping finds nothing: an error answer and no failure event.
RejectTemplate(r) ==
    /\ pc[r] = "requested" /\ job[r].template \notin Configured
    /\ End(r, "failed")
    /\ UNCHANGED <<job, audit, caVars, disturbed>>

Deny(r) ==
    /\ pc[r] = "requested"
    /\ job[r].template \in Configured /\ ~Authorized(job[r])
    /\ End(r, "refused") /\ Log(r, "AUTHORIZATION_DENIED")
    /\ UNCHANGED <<job, caVars, disturbed>>

\* Mutant: the result of the authorization check is not looked at.
AdmitUnchecked(r) ==
    /\ pc[r] = "requested" /\ job[r].template \in Configured
    /\ Call(r, "get")
    /\ UNCHANGED <<job, audit, caVars, disturbed>>

Admit(r) ==
    /\ pc[r] = "requested" /\ Admissible(job[r])
    /\ Call(r, "get")
    /\ UNCHANGED <<job, audit, caVars, disturbed>>

\* Mutant: an existing end entity is added again without deleting it.
NextOpWithoutDelete(r) ==
    CASE pc[r] = "get" /\ reply[r] = "missing"                 -> "add"
      [] pc[r] = "get" /\ reply[r] = "found" /\ ~job[r].renew  -> "add"
      [] pc[r] = "get" /\ reply[r] = "found" /\ job[r].renew   -> "reset"
      [] pc[r] \in {"add", "reset"} /\ reply[r] = "ok"         -> "enroll"
      [] OTHER                                                 -> "none"

\* What follows a successful call.
NextOp(r) ==
    CASE pc[r] = "get" /\ reply[r] = "missing"                 -> "add"
      [] pc[r] = "get" /\ reply[r] = "found" /\ job[r].renew   -> "reset"
      [] pc[r] = "get" /\ reply[r] = "found" /\ ~job[r].renew  -> "delete"
      [] pc[r] = "delete" /\ reply[r] = "ok"                   -> "add"
      [] pc[r] \in {"add", "reset"} /\ reply[r] = "ok"         -> "enroll"
      [] OTHER                                                 -> "none"

Proceed(r) ==
    /\ NextOp(r) # "none"
    /\ Call(r, NextOp(r))
    /\ UNCHANGED <<job, audit, caVars, disturbed>>

\* Mutant: any answer without an error message counts as a certificate.
IssueUnread(r) ==
    /\ pc[r] = "enroll" /\ reply[r] \in {"signed", "unavailable"}
    /\ End(r, "granted") /\ Log(r, "success")
    /\ UNCHANGED <<job, caVars, disturbed>>

Issue(r) ==
    /\ pc[r] = "enroll" /\ reply[r] = "signed"
    /\ End(r, "granted") /\ Log(r, "success")
    /\ UNCHANGED <<job, caVars, disturbed>>

\* An answer _handle_response turns into an exception, or a certificate
\* that parse_certificate cannot read.
FailureOf(r) ==
    CASE reply[r] = "invalid"                              -> "VALIDATION_ERROR"
      [] reply[r] = "error"                                -> "EJBCA_ERROR"
      [] reply[r] = "unavailable" /\ pc[r] \notin Retried  -> "EJBCA_ERROR"
      [] reply[r] = "unreadable"                           -> "INTERNAL_ERROR"
      [] OTHER                                             -> "none"

\* Mutant: the success is audited before the certificate is parsed.
FailAudited(r) ==
    /\ pc[r] \in Ops /\ FailureOf(r) # "none"
    /\ End(r, "refused")
    /\ IF reply[r] = "unreadable"
       THEN audit' = [audit EXCEPT ![r] = @ \o <<"success", FailureOf(r)>>]
       ELSE Log(r, FailureOf(r))
    /\ UNCHANGED <<job, caVars, disturbed>>

Fail(r) ==
    /\ pc[r] \in Ops /\ FailureOf(r) # "none"
    /\ End(r, "refused") /\ Log(r, FailureOf(r))
    /\ UNCHANGED <<job, caVars, disturbed>>

(***************************************************************************)
(* Retries.  The session sends a call again after an answer of its         *)
(* status_forcelist or a timeout when the method allows it, and after a    *)
(* refused connection (the call never left) for every method.  When the    *)
(* attempts are used up requests raises an exception of its own.           *)
(***************************************************************************)
Current(r) == [op |-> pc[r], req |-> r, try |-> attempt[r]]

\* A timeout leaves the call, or its answer, on the way; after a refused
\* connection the call is taken back.
Again(r) == [Current(r) EXCEPT !.try = @ + 1]

\* Mutant: one attempt too many.
ResendOnceMore(r) ==
    /\ pc[r] \in Ops /\ attempt[r] <= MaxAttempts
    /\ pc[r] \in Retried /\ net' = net \cup {Again(r)}
    /\ attempt' = [attempt EXCEPT ![r] = @ + 1]
    /\ reply' = [reply EXCEPT ![r] = "none"]
    /\ disturbed' = disturbed \cup {r}
    /\ UNCHANGED <<job, pc, audit, caVars>>

\* Mutant: the attempts are not counted.
ResendUncounted(r) ==
    /\ pc[r] \in Retried /\ attempt[r] < MaxAttempts
    /\ net' = net \cup {Again(r)}
    /\ reply' = [reply EXCEPT ![r] = "none"]
    /\ disturbed' = disturbed \cup {r}
    /\ UNCHANGED <<job, pc, attempt, audit, caVars>>

Resend(r) ==
    /\ pc[r] \in Ops /\ attempt[r] < MaxAttempts
    /\ \/ pc[r] \in Retried /\ net' = net \cup {Again(r)}
       \/ Current(r) \in net /\ net' = (net \ {Current(r)}) \cup {Again(r)}
    /\ attempt' = [attempt EXCEPT ![r] = @ + 1]
    /\ reply' = [reply EXCEPT ![r] = "none"]
    /\ disturbed' = disturbed \cup {r}
    /\ UNCHANGED <<job, pc, audit, caVars>>

GiveUp(r) ==
    /\ pc[r] \in Ops /\ (pc[r] \in Retried => attempt[r] = MaxAttempts)
    /\ End(r, "refused") /\ Log(r, "INTERNAL_ERROR")
    /\ disturbed' = disturbed \cup {r}
    /\ UNCHANGED <<job, caVars>>

\* enroll returns what it logged.
Return(r) ==
    /\ \/ pc[r] = "granted" /\ End(r, "issued")
       \/ pc[r] = "refused" /\ End(r, "failed")
    /\ UNCHANGED <<job, audit, caVars, disturbed>>

\* gunicorn kills or restarts the worker, at any place in enroll; what was
\* sent is on its way, and what was logged stays logged.
Crash(r) ==
    /\ pc[r] \in Running
    /\ End(r, "dead")
    /\ UNCHANGED <<job, audit, caVars, disturbed>>
-----------------------------------------------------------------------------
(***************************************************************************)
(* EJBCA, as the client and the handler rely on it: an end entity is       *)
(* looked up, deleted, given a new password (and with it status NEW) or    *)
(* added, and a CSR is signed for the one password of a NEW end entity,    *)
(* which is then GENERATED.                                                *)
(***************************************************************************)
Awaited(m) == pc[m.req] = m.op /\ attempt[m.req] = m.try

\* The answer to a call nobody waits for any more is dropped.
Answer(m, status) ==
    /\ net' = net \ {m}
    /\ reply' = IF Awaited(m) THEN [reply EXCEPT ![m.req] = status] ELSE reply

\* The other requests under way on an end entity that a call may change.
Rivals(m) == {r \in Requests \ {m.req} : pc[r] \in Ops /\ User(r) = User(m.req)}

Registered(m) == store[User(m.req)] # Absent

ServeGet(m) ==
    /\ m.op = "get"
    /\ Answer(m, IF Registered(m) THEN "found" ELSE "missing")
    /\ UNCHANGED <<store, signed, disturbed>>

ServeDelete(m) ==
    /\ m.op = "delete" /\ Registered(m)
    /\ Answer(m, "ok")
    /\ store' = [store EXCEPT ![User(m.req)] = Absent]
    /\ disturbed' = disturbed \cup Rivals(m)
    /\ UNCHANGED signed

ServeReset(m) ==
    /\ m.op = "reset" /\ Registered(m)
    /\ Answer(m, "ok")
    /\ store' = [store EXCEPT ![User(m.req)].password = m.req,
                              ![User(m.req)].new = TRUE]
    /\ disturbed' = disturbed \cup Rivals(m)
    /\ UNCHANGED signed

ServeAdd(m) ==
    /\ m.op = "add" /\ ~Registered(m)
    /\ Answer(m, "ok")
    /\ store' = [store EXCEPT ![User(m.req)] =
                    [subject |-> m.req, password |-> m.req, new |-> TRUE]]
    /\ disturbed' = disturbed \cup Rivals(m)
    /\ UNCHANGED signed

Usable(m) ==
    /\ Registered(m)
    /\ store[User(m.req)].new /\ store[User(m.req)].password = m.req

\* The certificate has the subject the end entity was registered with.
ServeEnroll(m) ==
    /\ m.op = "enroll" /\ Usable(m)
    /\ signed' = signed \cup {[csr |-> m.req, try |-> m.try,
                               subject |-> store[User(m.req)].subject]}
    /\ store' = [store EXCEPT ![User(m.req)].new = FALSE]
    /\ \/ Answer(m, "signed") /\ disturbed' = disturbed \cup Rivals(m)
       \/ /\ Answer(m, "unreadable")
          /\ disturbed' = disturbed \cup Rivals(m) \cup {m.req}

\* A call that does not fit the state of the end entity.
Refuse(m) ==
    /\ \/ m.op \in {"delete", "reset"} /\ ~Registered(m)
       \/ m.op = "add" /\ Registered(m)
       \/ m.op = "enroll" /\ ~Usable(m)
    /\ \E status \in Refusals : Answer(m, status)
    /\ UNCHANGED <<store, signed, disturbed>>

\* EJBCA is overloaded, restarting, or declines for reasons of its own.
Decline(m) ==
    /\ \E status \in Refusals \cup {"unavailable"} : Answer(m, status)
    /\ disturbed' = disturbed \cup {m.req}
    /\ UNCHANGED <<store, signed>>

Serve(m) ==
    /\ \/ ServeGet(m)   \/ ServeDelete(m) \/ ServeReset(m) \/ ServeAdd(m)
       \/ ServeEnroll(m) \/ Refuse(m)     \/ Decline(m)
    /\ UNCHANGED <<job, pc, attempt, audit>>

-----------------------------------------------------------------------------
\* What a thread does by itself, and what befalls it.
Step(r) ==
    \/ RejectCsr(r) \/ LogRequest(r) \/ RejectTemplate(r) \/ Deny(r) \/ Admit(r)
    \/ Proceed(r) \/ Issue(r) \/ Fail(r) \/ Resend(r) \/ GiveUp(r) \/ Return(r)

Next ==
    \/ \E r \in Requests : Receive(r) \/ Step(r) \/ Crash(r)
    \/ \E m \in net : Serve(m)

Spec == Init /\ [][Next]_vars

\* Threads run and their timeouts expire; EJBCA need not ever answer.
FairSpec == Spec /\ \A r \in Requests : WF_vars(Step(r))

-----------------------------------------------------------------------------
Certificate == [csr : Requests, try : 1 .. MaxAttempts, subject : Requests]

\* The type of each variable; the set of calls out and the store relate to
\* the requests that made them.
TypeOK ==
    /\ job \in [Requests -> Jobs]
    /\ pc \in [Requests -> Pc]
    /\ attempt \in [Requests -> 0 .. MaxAttempts]
    /\ reply \in [Requests -> Replies]
    /\ audit \in [Requests -> Seq(Events)]
    /\ net \subseteq Message
    /\ store \in [Users -> EndEntity \cup {Absent}]
    /\ signed \subseteq Certificate
    /\ disturbed \subseteq Requests

CertsOf(r) == {c \in signed : c.csr = r}

\* A request that is not admissible (an unreadable CSR, a template that is
\* not configured, groups that do not allow it) leaves no trace at the CA,
\* not even through a late or repeated call: enroll returns before the first
\* call it would make.
InadmissibleLeavesNoTrace ==
    \A r \in Requests : ~Admissible(job[r]) =>
        /\ CertsOf(r) = {}
        /\ \A m \in net : m.req # r
        /\ \A u \in Users : store[u] # Absent => store[u].password # r

\* A device that gets a certificate gets one the CA signed on its own CSR,
\* whatever other requests did to the end entity in between.
IssuedIsSigned ==
    \A r \in Requests :
        pc[r] \in {"granted", "issued"} => CertsOf(r) # {}

\* The sequence get / reset / delete / add / enroll heals every state that
\* earlier failures, crashes and half-done requests left: an admissible
\* request fails only if one of its own calls met a fault, or a call of
\* another request for the same EJBCA user was served while it ran.
UndisturbedSucceeds ==
    \A r \in Requests :
        pc[r] \in {"refused", "failed"} /\ Admissible(job[r]) => r \in disturbed

\* A request yields a second certificate when EJBCA serves its repeated calls
\* late, but a first enrollment does not do so by itself: its late add needs
\* the end entity gone, and of its calls only the delete is never repeated.
\* It takes the delete of another first enrollment for the same EJBCA user.
SecondNeedsDelete ==
    \A r \in Requests : Cardinality(CertsOf(r)) > 1 =>
        \/ job[r].renew
        \/ \E q \in Requests \ {r} :
              User(q) = User(r) /\ ~job[q].renew /\ pc[q] \notin {"idle", "received", "requested"}

\* A certificate is signed for the subject that a request of the same
\* client and template registered: holds while the hash fits the username.
OwnSubject ==
    \A c \in signed :
        /\ job[c.csr].client = job[c.subject].client
        /\ job[c.csr].template = job[c.subject].template

\* What the audit log has of a request that fails: the one failure the handler
\* met, after the request event unless the CSR was unreadable; and for a
\* template without a mapping no failure (enrollment_handler.py:91).
SuccessLog == <<"request", "success">>

FailureLogs(j) ==
    IF ~j.readable THEN {<<"INTERNAL_ERROR">>}
    ELSE IF j.template \notin Configured THEN {<<"request">>}
    ELSE IF ~Authorized(j) THEN {<<"request", "AUTHORIZATION_DENIED">>}
    ELSE {<<"request", f>> : f \in Failures \ {"AUTHORIZATION_DENIED"}}

\* The audit log tells what enroll made of each request: one that returns a
\* certificate has a success and nothing else, one that returns an error the one
\* failure that fits the request, event by event.  A request whose worker died
\* may have no outcome, or the one it was about to return, even a success
\* whose certificate no device gets; and a success, of the dead too, is only
\* logged for an admissible request the CA signed for.
AuditTellsOutcome ==
    \A r \in Requests :
        /\ pc[r] \in {"granted", "issued"} => audit[r] = SuccessLog
        /\ pc[r] \in {"refused", "failed"} => audit[r] \in FailureLogs(job[r])
        /\ pc[r] = "dead" =>
              audit[r] \in {<<>>, <<"request">>, SuccessLog} \cup FailureLogs(job[r])
        /\ audit[r] = SuccessLog => Admissible(job[r]) /\ CertsOf(r) # {}

\* How far a request has come; a call of a higher rank is a later one.
Rank(p) ==
    CASE p = "idle"                   -> 0
      [] p = "received"               -> 1
      [] p = "requested"              -> 2
      [] p = "get"                    -> 3
      [] p \in {"reset", "delete"}    -> 4
      [] p = "add"                    -> 5
      [] p = "enroll"                 -> 6
      [] p \in Decided                -> 7
      [] OTHER                        -> 8

InFlight(r) == {m \in net : m.req = r}

\* The request moves on to a later call or its end, or uses up an attempt.
Advances(r) ==
    \/ Rank(pc'[r]) > Rank(pc[r])
    \/ pc'[r] = pc[r] /\ attempt'[r] > attempt[r]

\* Whatever EJBCA, the network and other requests do, a request never goes
\* back, and neither a call nor an audit event leaves it without an advance.
\* As attempts are bounded, it makes a bounded number of sends, and as nothing
\* ranks above its end, it sends and logs nothing once its device is answered.
NeverBack ==
    [][\A r \in Requests :
          \/ /\ pc'[r] = pc[r] /\ attempt'[r] = attempt[r]
             /\ audit'[r] = audit[r]
             /\ InFlight(r)' \subseteq InFlight(r)
          \/ Advances(r)]_vars

\* Every request the service hands over is answered, or its worker dies,
\* even if EJBCA never answers: attempts and timeouts are bounded.
EveryRequestEnds ==
    \A r \in Requests : pc[r] = "received" ~> pc[r] \in Ended

-----------------------------------------------------------------------------
(***************************************************************************)
(* Why they hold: the invariants the proofs in EnrollmentProofs use.       *)
(***************************************************************************)
\* Whatever acts for a request acts for an admissible one.
OnlyAdmissibleAct ==
    /\ \A r \in Requests :
          /\ pc[r] \in Ops \cup {"granted", "issued"} => Admissible(job[r])
          /\ pc[r] = "requested" => job[r].readable
    /\ \A m \in net : Admissible(job[m.req])
    /\ \A u \in Users : store[u] # Absent => Admissible(job[store[u].password])
    /\ \A c \in signed : Admissible(job[c.csr])

SignedIsReal ==
    \A r \in Requests :
        reply[r] = "signed" \/ pc[r] \in {"granted", "issued"} => CertsOf(r) # {}

\* The subject of an end entity, and of a certificate signed for it, was
\* registered by a request with the same EJBCA username.
SubjectsFit ==
    /\ \A u \in Users : store[u] # Absent => User(store[u].subject) = u
    /\ \A c \in signed : User(c.csr) = User(c.subject)

\* The end entity is as the outstanding call, or the next one, needs it.
Fits(r) ==
    LET e == store[User(r)]
        usable == e # Absent /\ e.new /\ e.password = r
    IN CASE pc[r] = "get"    -> (reply[r] = "found" => e # Absent) /\ (reply[r] = "missing" => e = Absent)
         [] pc[r] = "delete" -> (reply[r] = "none" <=> e # Absent)
         [] pc[r] = "reset"  -> (IF reply[r] = "none" THEN e # Absent ELSE usable)
         [] pc[r] = "add"    -> (IF reply[r] = "none" THEN e = Absent ELSE usable)
         [] OTHER            -> (reply[r] = "none" => usable)

\* A request that has not made a call has none on the way; an undisturbed one
\* has at most its first, and EJBCA's answers so far were the ones it needs.
NotYet(r) == pc[r] \in {"idle", "received", "requested"} => \A m \in net : m.req # r

Calm(r) ==
    /\ attempt[r] = 1
    /\ reply[r] \in {"none", "found", "missing", "ok", "signed"}
    /\ \A m \in net : m.req = r => m = Current(r) /\ reply[r] = "none"
    /\ Fits(r)

CleanRun ==
    \A r \in Requests :
        NotYet(r) /\ (pc[r] \in Ops /\ r \notin disturbed => Calm(r))

\* The handler, EJBCA and the retries together implement the promise of
\* Issuance: no interleaving, late call or crash makes the CA sign for an
\* inadmissible request or a device get a certificate the CA did not sign.
Promise == INSTANCE Issuance WITH
    phase <- [r \in Requests |->
                IF pc[r] \in Running THEN "open" ELSE pc[r]],
    certified <- {c.csr : c \in signed}

KeepsPromise == Promise!Spec
=============================================================================
