# Verification of the MS-XCEP / MS-WSTEP proxy

The proxy lets Windows devices enroll for certificates that an EJBCA instance
issues: it speaks MS-XCEP (which certificate templates may I have?) and
MS-WSTEP (here is my CSR) to the devices, Kerberos for who they are, LDAP for
their groups, and EJBCA's REST API to the CA. This directory holds TLA+ models
of it, the TLC configurations that check them and TLAPS proofs about them.
Paths below are those of the repository.

## 1. Inventory

The server runs as 4 gunicorn workers with 2 threads each (`Dockerfile:66-77`).
Threads of a worker share its services; workers share nothing but Redis, EJBCA
and the directory.

| Component | State | Operations | Talks to | Correct when |
|---|---|---|---|---|
| enrollment handler, `src/enrollment_handler.py` | none of its own: its state is the position in `enroll` and EJBCA's end entities | `enroll`: parse the CSR, audit, find the mapping, authorize, get / reset / delete / add the end entity, enroll | EJBCA client, template manager, `g.user_groups`, audit log | only admissible requests reach the CA; what a device gets the CA signed for its CSR, under a subject of its own; leftovers of earlier failures do not stop later requests; each request ends, with its outcome audited |
| EJBCA client, `src/ejbca/client.py` | the session and its retries | the REST calls, errors to exceptions | EJBCA | a retry does no harm the handler does not expect |
| template manager and policy provider, `src/ad/templates.py` | the mappings loaded at start | load, find, `is_user_allowed`, `get_policies_for_client` | mapping file, LDAP client | the listing names what may be enrolled for, and its references resolve |
| XCEP endpoint and service, `src/api/xcep.py`, `src/soap/xcep_service.py` | none | look the response up in the cache, build, cache, answer | cache, policy provider | the answer is the one the client's present groups give |
| cache, `src/cache/redis_cache.py` | responses by client and groups hash, with a TTL; Redis or, if that is away at start, a dict | get and set of policy responses | Redis | it changes no answer |
| LDAP client, `src/ad/ldap_client.py` | one connection, and the entries of its last search, shared by the threads of a worker | connect, search a user, a computer, test and read the entries | directory | the groups a thread gets are those of the account it asked for |
| WSTEP endpoint and service, `src/api/wstep.py`, `src/soap/wstep_service.py` | none | parse, call `enroll`, build the response or a fault | enrollment handler | its answer tells what became of the request |
| Kerberos, `src/auth/kerberos.py`, and the hooks of `src/app.py` | a context for each request | challenge, authenticate, continue, fetch groups | GSSAPI, LDAP client | a device with valid credentials gets in, as itself |
| services, `src/services/__init__.py` | what exists in a worker, the CA certificate it got | create at start | all of the above | what a worker learned at its start is what it says |
| health, `src/api/health.py` | none | probes, on the threads requests use | EJBCA, LDAP, cache | they need no authentication, and are answered |
| audit logger, `src/utils/logging.py` | the log | request, success, failure | - | a request has its outcome in it |
| client simulator, `tools/windows_client_simulator.py` | none | the run of a device: `get_policies`, `request_certificate`, reading the answers | the two endpoints | it says "issued" when it has a certificate |
| SOAP types, crypto helpers, configuration, interfaces, errors | none | - | - | - |

What is hard here:

* Two requests for one EJBCA user interleave between the REST calls of `enroll`;
  nothing locks an end entity.
* POST and PUT are retried, so EJBCA may do a call twice, or after the client
  gave it up.
* A worker may die between any two calls.
* A cached response outlives the groups and the mapping file it was built from,
  and the key it is looked up under and the key it is stored under are computed
  at different times by different code.
* LDAP, Redis and EJBCA fail independently, and each failure is turned into a
  value (`None`, `[]`, `"ldap_error"`, another cache class) that later code
  reads.
* A SPNEGO exchange is spread over several HTTP requests.
* Two threads search on one LDAP connection, and each reads the entries of the
  last search, be it its own or not.
* Probes wait for the threads that wait for EJBCA.
* What a device is told comes from hooks, endpoints, services and the handler, and the connection
  may be gone by then.

`PROJECT.json` lists the hazards at their lines and the properties that catch
them.

## 2. The modules

| Module | Models | State | Actions |
|---|---|---|---|
| `Issuance` | the promise of enrollment, abstractly | phase of each request, the certified ones | `Submit`, `Sign`, `Grant`, `Deny` |
| `Enrollment` | handler, EJBCA client and EJBCA | position, attempt, reply and audit events of each request; calls on their way; EJBCA's end entities and certificates | see below |
| `Templates` | template manager and provider | file, mappings, last asker and answer | `Start`, `GetPolicies` |
| `Listing` | the promise of the policy endpoint, abstractly: no cache, no workers | directory; who asks, what was learnt, what was answered | `Change`, `Ask`, `Learn`, `Tell`, `Forget` |
| `PolicyCache` | XCEP endpoint, cache, group lookup, in several workers | directory, Redis, workers, threads | `Authenticate`, `Hit`, `Miss`, `Build`, `Store`, `LookupRaises`, `Return`, and the surroundings |
| `Gateway` | hooks, Kerberos, CEP and CES endpoints | each device's exchange, request and answer | `Begin`, `Continue`, `Finish`, `Lose`; `Health`, `Challenge`, `Authenticate`, `Reject`, `Policies`, `NotConfigured`, `Fault`, `Enroll`, `Return` |
| `Certification` | the promise of the whole, abstractly | who is entitled, who is certified, what each was told | `Sign`, `Tell` |
| `Service` | composes `Gateway`, `Enrollment` and the device | theirs, and the device's progress and result | `GetPolicies`, `AnswerChallenge`, `ReadPolicies`, `RequestCertificate`, `ReadResponse`; `HandOver`, `Respond`; `Disconnect`, `Die` |
| `LdapClient` | the shared LDAP connection | link, entries, each thread's lookup | `Start`, `Search`, `SearchFails`, `NotConnected`, `Test`, `TakeFirst`, `Finish`; `Drop`, `Renew` |
| `Worker` | the life of one worker; composes its services, its thread pool and `LdapClient` | services, queue, threads | see below |
| `EnrollmentProofs`, `RepeatProofs`, `TemplatesProofs`, `GatewayProofs`, `ServiceProofs`, `PolicyCacheProofs`, `LdapProofs`, `WorkerProofs` | theorems, see 4 | | |
| `MC*` | instances for TLC | | |

Each module names its state after the code's. Operators whose comment begins
with "Mutant:" are variants of the operator after them with a plausible bug;
no specification uses them. They are put in the place of that operator to see
that a property notices.

### Enrollment

A request is a thread in `enroll`. `requested` is after the request event of the
audit log; then `pc` is the call it waits for: `get`, then
`reset` (a renewal of an existing end entity) or `delete` and `add` (a first
enrollment over an existing one) or `add`, then `enroll`. A call is a message in
`net`; EJBCA serves it when it likes. `Resend` is the retry of the session:
after a timeout or a 5xx the call goes out again with the next number, and the
earlier one may still be served; after a refused connection the earlier one is
taken back. DELETE is not in `allowed_methods`, so it is sent again only after a
refused connection. `GiveUp` is the exception after the last attempt.
`Fail` maps a reply to the exception `_handle_response`
raises and to the audit event of the `except` branch that catches it.

The outcome is logged before it is returned (`enrollment_handler.py:170` and
`:183`, and the like for failures), so a request that has logged it is `granted`
or `refused`, and `Return` is a step of its own. `Crash`, the death of the
worker, may fall between any two of these steps, and so between the log and the
return. `audit` is the sequence of events a request has logged, so that an event
logged twice shows.

EJBCA is not in the repository; `ServeGet` to `Decline` say what the client and
handler rely on: an end entity exists or not, has one password, and is NEW
(usable once) or GENERATED.

A password is 32 random characters and never repeats, so the request stands for
it. The username is a record of the name part and the hash, which is lost when
the name part is too long (`HashFits`).

`disturbed` is a history variable: the requests of which a call met a fault
(retry, given up, refused by EJBCA for its own reasons, unreadable certificate)
or whose end entity another request's call changed while they ran. It is read by
the properties only.

### Templates

`LoadMappings` is `_load_mappings` with its dict: position of the first entry of
a name, value of the last (`Put`). A malformed entry raises, so `Readable` is
what was read before it, and the defaults are put over that (`PutAll`).
`PoliciesForClient` builds the oIDs and policies with their references, one
mapping after the other. Both loops are recursive functions, of the number of
entries done, so that they can be reasoned about. A request for policies has the
groups of the hook, or none known and what the provider's own lookup then finds
(`templates.py:387-401`): `again` keeps that. A validity is a number with a
unit, a text that is no number, an integer (which has no `endswith`) or missing.

### PolicyCache

A thread authenticates and fetches groups (`Authenticate`), looks the response
up (`Hit`, `Miss`, `LookupRaises`), builds it (`Build`), stores it (`Store`) and
answers (`Return`); anything may happen between two of these. A hash of groups
stands for the groups, and the three words the code uses instead (`no_ldap`,
`ldap_error`, `no_groups`) are apart from all hashes. `seen` is the history of
what the directory said during this request, in lookups that were really made:
the provider looks up only where the hook found no groups.

`Listing` is the endpoint as a client may understand it: it asks, the directory
is asked for its groups as the request comes in and perhaps again, and it is
told the policies of groups the directory gave during this request, or of none,
or of a failure. Nothing is remembered from one request to the next. How old the
mapping file is whose rules are applied is not promised: a cached response
outlives a rollout by up to its TTL. `Promise`
maps a thread to it: it asks while it is not idle, has learnt `seen`, and its
answer is the response it has answered.

`Connected` tells whether `ADLDAPClient.connect` was called. Nothing in the
server calls it (`services/__init__.py:90` is the only place the client is
made), so the shipped wiring is `FALSE`, and then the cache never sees a
group. The safety runs use `TRUE`: the endpoint and the cache are written for
that wiring, it is where their hazards are, and whatever a thread may do with
`FALSE` it may do with `TRUE` while the directory is down.

### Gateway

Each device has one exchange at a time: a request without a token, the challenge,
then one request for each token GSSAPI wants. `Seen` is the heart of it: the
security context of a request has seen that request's token only. After `enroll`
a certificate that cannot be packed, or an error message of EJBCA's that does not
fit into XML, becomes a Sender fault (`Bodies`). `Enroll` and
`Return` are the call of `enroll` and its return; what happens in between is
`Enrollment`'s subject, and what `Policies` answers is `PolicyCache`'s. `Lose`
is a connection that ends before the answer.

### Service

A device runs as the client simulator does: `GetPolicies`, and if it was
answered with policies `RequestCertificate`; each answer is read, and a fault,
an unreadable answer or none ends the run with an error. `Service` extends
`Enrollment` and takes `Gateway` as an instance; every step is one of either,
except two that are one of both: `HandOver` is `Enroll` of the gateway and
`Receive` of the handler, and `Respond` gives the handler's result to the
gateway. `Disconnect` ends the connection while the handler goes on, with or without the
device noticing; `Die` ends both. `RstrSays` is what the simulator makes of an answer: it trusts a
certificate it can unpack, and otherwise looks for words in the disposition
message, which for a validation error is EJBCA's own text
(`enrollment_handler.py:200`).

`Certification` is what devices and the CA see of all this: the CA signs for
entitled devices only (authenticated, with an admissible request), a device
told of a certificate has one the CA signed for it, and what a device was told
stays. A device may be told of a failure although the CA signed or will sign
for it: the connection, the worker and EJBCA fail at any time.

### LdapClient and Worker

A lookup is `search`, then the test whether there are entries, then taking the
first (`ldap_client.py:372-382`), three steps on a connection the threads
share. `link` is what the client and the directory know of it: never connected,
bound, bound but dead, closed. `crossed` is the history of lookups during whose
reading another thread searched.

`Worker` starts with or without EJBCA's and the directory's addresses
(`Configurations`), with the CA certificate or without it, connected or not
(`connected`, see `Connected` above). Requests wait in one queue for the thread
pool, and a thread runs the hook (`LookUpUser`, `LookUpComputer`, `LookUpOn`,
`Resolve`), the endpoint and, if the hook could not tell the groups, the lookup
of the policy provider (`AskProvider`). A call to EJBCA times out and is sent
again a bounded number of times (`TimeOut`), or EJBCA answers (`EjbcaAnswers`).
`Restart` loses everything but Redis. The handler's sequence of calls is reduced
to one call here, and a cached response to whether it has the CA certificate.

## 3. What is checked

Passing runs:

| Run | Question | Bounds |
|---|---|---|
| `Enrollment_safety` | do two requests of any kind stay within the rules? | 2 requests, 2 clients, 3 templates (restricted, open, not configured), 1 group, 1 send per call |
| `Enrollment_retries` | what do late and repeated calls add, and is `Issuance` implemented? | 2 requests for one EJBCA user, or one and a denied one, 2 sends per call |
| `Enrollment_live` | does every request end if EJBCA never answers? | 2 first enrollments, 2 sends |
| `Templates_load` | are listing, references and mappings right for every file? | files of 0 to 3 of 6 entries, or 0 to 2 and a malformed one, or none; 2 groups |
| `PolicyCache_safety` | does the cache answer with present groups, also while the mapping file is replaced? | 2 threads of a worker, 1 client, 1 group, 2 templates, 2 files |
| `Gateway_exchange` | is nothing enrolled without authentication; do answers tell the outcome; does a device with valid credentials get in? | 2 devices, one with 2 tokens |
| `Service_issue` | do gateway and handler fit together, is `Certification` implemented, does every device that keeps its connection come to a verdict? | 2 devices of one principal, one of which sends its token unasked; 1 token each, 1 send per call; a first certificate, a renewal, or a template it may not have |
| `Worker_life` | whose groups, whose CA certificate, are probes answered? | 2 threads; a user that asks for policies, a computer that asks for a certificate or for its health, a probe; 2 sends per call; with EJBCA and directory, without a directory, without both |

The properties, beyond one type invariant for each module:

* `InadmissibleLeavesNoTrace`: an inadmissible request has no certificate, no
  call and no end entity at EJBCA, ever.
* `IssuedIsSigned`: a certificate that is handed out was signed for that CSR.
* `UndisturbedSucceeds`: the handler repairs every state of an end entity that
  earlier requests left, in any order of failures and crashes: an admissible
  request only fails if it is disturbed itself.
* `SecondNeedsDelete`: late calls can give one request two certificates (an
  enroll is given up and sent again, the late add puts a fresh end entity under
  it), but a first enrollment gets there only if another request deletes the
  end entity in between, since DELETE is the one method the session never
  repeats (`client.py:110`). With DELETE in `allowed_methods` one request would
  do it alone; TLC finds that in some twenty steps.
* `OwnSubject`: the subject in a certificate was registered for the same client
  and template.
* `AuditTellsOutcome`: the log of a request, event by event. When `enroll` returns
  a certificate it is the request and a success; when it returns an error it is
  the request and the one failure that fits it, whichever way out of `enroll` it
  took (an unreadable CSR has no request event, a template without a mapping no
  failure event). A request whose worker died has no outcome, or the one it was
  about to return. A success is logged for an admissible request the CA signed
  for only, also by the dead. What the log does not tell is whether the device got
  its certificate: after a success the worker may die before it answers, the
  connection may be gone, and packing may fail (`wstep_service.py:394`).
* `KeepsPromise`: refinement of `Issuance`.
* `NeverBack` (of steps): each request only moves on, to a later call, to its
  end or to its next attempt, and neither a call nor an audit event leaves it
  without that. With `TypeOK`, which bounds the attempts, a request makes at most
  4 times `MaxAttempts` sends, and none once it has ended, although EJBCA may
  still serve what it sent. It is the safety half of `EveryRequestEnds`.
* `EveryRequestEnds`: liveness.
* `LastMappingWins`: a template has one mapping; it is the default where the
  defaults were needed, also because the file breaks off half way, and else the
  last entry of that name that was read, wherever the first one was; none that
  was read is missing.
* `ReferencesResolve`: the reference of each policy is that of exactly one entry
  of the oIDs collection, and that entry names its template.
* `ListedIffEnrollable`: what is listed to a client is what `enroll` lets it have
  for the same groups. Where the hook could not find the groups out, the provider
  asks the directory again (`templates.py:387`) and `enroll` does not
  (`enrollment_handler.py:245`): the list is then what the second answer would
  allow, which is never less than `enroll` allows, but may be more.
* `CachedMatchesKey`: an entry under a groups hash holds what those groups give.
* `AnswerFromCurrentGroups`: an answer is built from the groups the directory
  gave during this request, or from none; so a membership that ended before the
  request shows nothing any more, in spite of the cache.
* `CacheForgetsOutages` (of steps): policies found in the cache are those of the
  very groups the client has now, and it has some. What was built without groups,
  be it that the client has none or that the directory failed, is stored under
  `no_groups`, which no lookup uses: so an outage does not outlive itself in the
  cache. Lookup and store name the missing groups differently
  (`app.py:141`, `templates.py:428`), and this rests on it.
* `KeepsListing`: refinement of `Listing`, the endpoint without a cache.
* `EnrolledAsCaller`: `enroll` runs after a whole exchange only, under the
  device's own principal. `AnswerTellsOutcome`: from its answer a device knows
  whether a certificate was issued, except for a Sender fault on a complete
  message: it follows an issued certificate that could not be packed
  (`wstep_service.py:394` raises a `ValueError` for a PEM certificate, which
  `crypto.py:59` accepts, and `wstep_service.py:137` takes for a bad request), or
  an error whose message, EJBCA's own, does not fit into XML.
  `DirectDeviceServed` (liveness): a device that needs one token gets past the
  challenges.
* `KeepsWord`: refinement of `Certification`.
* `HandOverAgrees`: while the gateway waits for `enroll`, the handler has that
  request or its outcome, and only a lost connection parts them; a result never
  reaches another request.
* `UndisturbedDeviceCertified`: `UndisturbedSucceeds`, end to end, from a valid
  token to the certificate in the answer.
* `SuccessHasCertificate`: a device that says "issued" has a certificate the CA
  signed for its CSR, or was misled by EJBCA's own wording.
* `EveryDeviceEnds`: liveness, of the whole: the proxy leaves no device that keeps
  its connection without a verdict. One whose connection breaks is let go, since
  nothing makes it notice (see Fairness).
* `OwnGroups`: a thread handles a request with the groups of that client, or of
  nobody, never of the client of another thread, and with exactly its own while
  the connection is up; unless another search crossed one of its lookups. So
  failed searches, entries left from earlier requests, restarts and threads that
  are reused mix no groups. The exception is a real one: after a crossed lookup
  a thread may have the other account's groups, or an `IndexError`
  (`ldap_client.py:372`), and the code has no lock that would exclude it. So this
  property says nothing about that race, and no other does: there is nothing to
  say of it that the code keeps.
* `CaOfThisLife`: a worker that starts without EJBCA says so in its policies as
  long as it lives, and its entries outlive it until they expire; responses it
  builds never disagree with what it learned.
* `ProbesAnswered`: liveness. A probe that waits for a thread is answered (or
  lost with the worker) although every thread may be in a call that EJBCA never
  answers.

Why the bounds are enough: requests interact through one end entity at a time,
and every hazard listed is between two of them or between a request and its own
late call; two sends show each way a retry can differ from a single call (the
default is four). Two threads meet only in the
cache, whether they are of one worker or of two; with one worker, entries of
two mapping files still meet in Redis, since it keeps them over a restart, and
the run stays small enough for both files. The cache hazards need
one group that comes and goes, and a template that depends on it next to one
that does not. Three entries of a file are enough for a repeated name with
another one between. Requests are symmetric in the enrollment safety runs and
so are the threads of the worker in `PolicyCache_safety`; `Symmetry` permutes
them, and no run with a temporal property under fairness uses it. Two devices of
one principal are rivals for one end entity, and one that is asked for its token
next to one that is not shows both ways in. Two threads are what the server has,
and three clients are more than the threads, so that one waits. `Enrollment`
and `Service` runs do not check deadlock, since the models end when all requests
have.

Fairness. In `Enrollment` a thread goes on by itself (`WF` of `Step`): it is
scheduled, its timeouts expire (`timeout=self.config.timeout` on every call) and
its attempts are counted; EJBCA and the network are given no fairness. (The
timeout of `requests` is one for each read: an EJBCA that sends its answer byte
by byte, each in time, is outside of the model.) In
`Gateway` a worker serves what it has (`WF` of `Serve`; `enroll` returns by
`EveryRequestEnds`), and a device that was asked for a token sends it (`WF` of
`Continue`); starting and ending exchanges is not fair. In `Service` the proxy
and the threads of the handler go on, as above, and a device that began and is
answered reads the answer and goes to the next step (`GoOn`). A device whose
connection is lost may read that or not: `session.post` of the simulator has no
timeout (`windows_client_simulator.py:59`), so one whose connection broke
without a word waits for ever. In `Worker` a thread goes on by
itself (`WF` of `Run`), timeouts included; answers of EJBCA, the directory,
clients and restarts are not fair.

`ProbesAnswered` speaks of probes, for which it matters, but nothing in the pool
prefers them: they wait in the same queue as everything else.

### Where code and documentation disagree

Each of these runs checks one statement of the repository and TLC refutes it:

| Run | Statement | What happens |
|---|---|---|
| `Enrollment_username` | usernames are unique for principal, realm and template (`enrollment_handler.py:334`) | the cut to 64 characters takes the hash away; a renewal for one template is signed with the subject of another |
| `PolicyCache_fallback` | falls back to the memory cache (`redis_cache.py:413`) | which lacks the methods the endpoint calls: error 500 |
| `PolicyCache_ldap` | fetch user groups from LDAP (`app.py:129`) | the client is never connected, so no groups are ever fetched |
| `Gateway_multistep` | handle SPNEGO multi-step (`app.py:109`) | the second token meets a fresh context; such a device never gets in |

Some more was noticed that no run states, since the repository says too little
about what should be:

* A request for a template without a mapping leaves no failure event in the
  audit log (`enrollment_handler.py:91`), unlike every other failure after the
  request event.
* For a client without known groups the policy response is stored under
  `no_groups` while it is looked up under `no_ldap`, `ldap_error` or the hash of
  no groups (`xcep.py:98-105`), so the cache is never hit.
* A fault is cached like a response and answered to well-formed requests of the
  same client (`xcep.py:105`).
* The default mappings are put over the part of a file that was read before an
  error (`templates.py:93`), not only where there is no file.
* The simulator reads success or pending from words in EJBCA's error message
  (`windows_client_simulator.py:361`).
* `readyz` does not tell that a worker has no CA certificate, which only a
  restart mends (`services/__init__.py:73`).

## 4. What is proved

For every value of the constants: every set of requests, devices, clients,
threads, workers, templates, groups and mapping files, every name function and
every number of attempts. The named `ASSUME`s of the modules are all that is
assumed (mappings have sets of groups, jobs are jobs, a request is not the empty
set, which stands for "nobody", there is at least one attempt); TLC evaluates
them on every run. None restricts `Stem` or `HashFits`, so two clients may share
a username in all theorems but `Subjects`.

| Module | Theorem | Says |
|---|---|---|
| `EnrollmentProofs` | `Typing` | `Spec => []TypeOK` |
| | `NoTrace` | `Spec => []InadmissibleLeavesNoTrace` |
| | `Issued` | `Spec => []IssuedIsSigned` |
| | `Undisturbed` | `Spec => []UndisturbedSucceeds` |
| | `Audited` | `Spec => []AuditTellsOutcome` |
| | `Forward` | `Spec => NeverBack` |
| | `Subjects` | if the hash fits every username, `Spec => []OwnSubject` |
| | `Implements` | `Spec => KeepsPromise`, the refinement of `Issuance` |
| `RepeatProofs` | `OneCertificate` | `Spec => []SecondNeedsDelete` |
| `TemplatesProofs` | `Typing`, `Loading`, `References`, `Listed` | `Spec => []` of `TypeOK`, `LastMappingWins`, `ReferencesResolve`, `ListedIffEnrollable` |
| `GatewayProofs` | `Typing`, `Callers`, `Answered` | `Spec => []` of `TypeOK`, `EnrolledAsCaller`, `AnswerTellsOutcome` |
| `ServiceProofs` | `Inner` | `ServiceSpec => Spec`: inside the service the handler is `Enrollment` |
| | `Outer` | `ServiceSpec => G!Spec`: inside it the hooks and endpoints are `Gateway` |
| | `GatewayKeeps` | `ServiceSpec => []` of `EnrolledAsCaller` and `AnswerTellsOutcome` of that gateway |
| | `ServiceTyping` | `ServiceSpec => []ServiceTypeOK` |
| | `WordKept` | `ServiceSpec => KeepsWord`, the refinement of `Certification` |
| | `Agreement`, `DeviceCertified`, `Success` | `ServiceSpec => []` of `HandOverAgrees`, `UndisturbedDeviceCertified`, `SuccessHasCertificate` |
| `PolicyCacheProofs` | `Typing`, `Matching`, `Current` | `Spec => []` of `TypeOK`, `CachedMatchesKey`, `AnswerFromCurrentGroups` |
| | `Outages` | `Spec => CacheForgetsOutages` |
| | `Implements` | `Spec => KeepsListing`, the refinement of `Listing` |
| `LdapProofs` | `OwnLookups` | `LdapSpec => []LookupIsOwn`: a lookup that was not crossed ends with what the directory has |
| `WorkerProofs` | `Typing`, `GroupsOwned`, `CaOfStart` | `Spec => []` of `TypeOK`, `OwnGroups`, `CaOfThisLife` |

Hardly any of the properties is inductive. The strengthenings:

Enrollment. Each part is an invariant of its own.

* `OnlyAdmissibleAct`: whatever acts for a request (its thread from the first
  call on, a call on its way, the password in an end entity, a certificate) acts
  for an admissible one. It is needed since a late call acts after its thread
  ended. It gives `NoTrace`, and with
* `SignedIsReal` (a reply "signed" means there is a certificate) it gives
  `Issued` and the steps of `Implements`.
* `SubjectsFit`: the end entity of a user, and a certificate, have a subject
  that a request with that username registered. With distinct usernames this is
  `OwnSubject`; hence the hypothesis of `Subjects`, and the run
  `Enrollment_username` shows it is needed.
* `CleanRun`: of an undisturbed request only its one current call is on the way,
  and the end entity is as that call needs it (`Fits`: there for a delete or
  reset, absent for an add, usable for an enroll). Its preservation has two
  halves: EJBCA serving the request's own call advances `Fits`; EJBCA serving
  another's either is about another user, or changes nothing, or disturbs.
* `InTurn`: the calls of a request follow each other, so that no delete of it is
  on the way once it adds: a delete is sent again only when it was taken back,
  and the add waits for its answer. It would fail with DELETE among the repeated
  methods. `OneUse`: for a request that is alone with its end entity, once its
  password is in place nothing of it deletes any more, and once it has a
  certificate its password is used up and no add can put it back. Both give
  `OneCertificate`.
* `Logged`: the log of a request at each place of `enroll` (`Logs`): empty up to
  `received`, the request event and nothing else from `requested` until the
  outcome, then the outcome that fits. A step that logs appends one event to a log
  that is known (`DecideLogged`), and `Crash` leaves one of the logs that some
  place has. With `OnlyAdmissibleAct` and `SignedIsReal` it gives `Audited`.

`Forward` follows step by step: each action of a thread raises the rank of its
call or the attempt, and each other step leaves the request alone.

`Implements` maps a request with a call out to "open" and `certified` to the
requests with a certificate. `Admit`, `Proceed`, `Resend` and EJBCA's answers
stutter, as does whatever logs an outcome; `ServeEnroll` is `Sign`, the `Return`
of a granted request is `Grant`, `RejectTemplate`, the `Return` of a refused one
and `Crash` are `Deny`.

Templates. What a loop computes is proved by induction on the entries done, for
files and mappings of any length. The library's induction theorem takes an
operator as a parameter, so induction is proved here over a set of numbers, from
the fact that a set of numbers that is not empty has a least element
(`Induction`, from `WFMin` and `NatLessThanWellFounded`). `PutAllMerges` says
what merging a list of entries over mappings gives: names once each, the last
entry of each name, else the mapping from before. Applied to what was read and
again to the defaults it is `LastMappingWins`. `PoliciesBuilt` says the same of
the answer: reference and position of an entry of the oIDs differ by one, and
each policy was made with the entry appended next to it, which with
`ListedIsEnrollable` (the two checks agree on the same groups) and
`UnknownGrantsLeast` (a check without groups allows the least) is `Listed`. `ASSUME` says that
files are sequences of mappings and malformed entries.

Gateway. `Before` says for each stage of a request what was before it: no
identity until the exchange is complete, the device's own from then on, no call
of `enroll` before it is handed over and exactly one, of the device, while it
runs.

Service. By `Inner` all theorems of `EnrollmentProofs` hold of the handler inside
the service, and by `Outer` those of `GatewayProofs` of its hooks and endpoints. The
rest is about the seams: what the handler has comes from an authenticated device
(`Handed`), and a certificate in an answer is one the CA signed for that device
(`Given`). With them every step of the service is a
`Sign`, a `Tell` or neither (`WordKept`). For the other theorems each device is
on its way (`Course`: its progress, the gateway's stage and the path of its
request fit each other; `Answers`: an answer of the certificate endpoint is
enroll's).

PolicyCache. The hash of a thread ties key and response together: `Honest` says
it stands for groups the directory gave during this request, or for none, and
`Made` that what was built is what those groups give, although the key, the
response and the lookups are made at different times.

`Placed` says that policies lie under hashes of groups or under `no_groups`
only, and `Keyed` that a thread looks up under the hash of what it found, which
is never that word: together they are `Outages`. For `Implements` each step of
the endpoint is one of `Listing` or none: `Hit`, `Store` and `LookupRaises` are
`Tell`, a `Build` that asks the directory again is `Learn`, `Miss` and what
happens to Redis, files and caches is nothing, and a `Restart` is the `Forget` of
all requests of its worker.

LdapClient and Worker. `EntriesAreOwn`: a thread that reads the entries and was
not crossed reads those of its own search. A step of `Worker` is for its LDAP
client a step of `LdapClient` or none, so `LookupIsOwn` holds there too. `Asks`
ties a lookup to the client the thread serves (the second lookup follows a first
that found nothing), `Knows` ties both to the groups the endpoint reads.

Every invariant and action property of the passing runs is a theorem, and so are
the four refinements (`Issuance`, `Certification`, `Listing` and, of Worker's
steps on the connection, `LdapClient`).

Only model-checked: `EveryRequestEnds`, `DirectDeviceServed`, `EveryDeviceEnds`
and `ProbesAnswered`. Liveness under fairness needs `ENABLED`, which is out of
reach of the prover; `NeverBack` is the part of `EveryRequestEnds` that is not.
The violation runs are about single counterexamples and have nothing to prove.

## 5. Not modelled

XML (building, parsing, namespaces) beyond the kinds of message the handlers
tell apart; what GSSAPI, LDAP, Redis and EJBCA do inside; X.509, PKCS#10 and
PKCS#7 beyond accepted or not; reading the configuration; log format and
statistics; operations nothing in the server calls (revocation, profile lists,
template, CA and group entries of the cache, the memory cache's own get and set,
directory searches for templates); the error classes and fault mapper, which no
module imports; the interfaces, which are signatures; the key and CSR the
simulator makes, and what it prints.

`require_kerberos` decorates no endpoint, and `Gateway` does not model it. Nor does
it model `MockKerberosAuth`, which lets everybody in as one configured principal:
a worker uses it when `mock_kerberos` is set, when no principal is configured, and
after any error of `KerberosAuth` at its start, a keytab that cannot be read
included (`services/__init__.py:142-159`). What is said of authentication
(`EnrolledAsCaller`, `KeepsWord`) is said of workers with real Kerberos.

## 6. Plan

Done: `Issuance`, `Enrollment`, `Templates`, `Listing`, `PolicyCache`, `Gateway`,
`Certification`, `Service`, `LdapClient`, `Worker`, and the proofs of all their
safety properties and refinements.

Left:

1. The generic operations of `RedisCache` and `MemoryCache` against one abstract
   expiring map: of use once the server calls them.
2. Larger instances of `Service`: two sends per call, so that late calls of one
   device meet another device's whole run. The theorems cover any number; a run
   would cover `EveryDeviceEnds`.
3. A fault that a well-formed request is answered with because of a mapping's
   validity (`templates.py:320`), in `PolicyCache`: it is cached like that of a
   malformed one, and stays after the file was mended.
