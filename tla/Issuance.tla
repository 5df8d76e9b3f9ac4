------------------------------- MODULE Issuance -------------------------------
(***************************************************************************)
(* What enrollment promises to the devices and to the CA's operator,       *)
(* without end entities, calls or retries: the CA signs the CSR of an      *)
(* admissible request only, and a device is handed a certificate only for  *)
(* a CSR the CA signed.  A request may fail, or die with its worker, even  *)
(* though its CSR was signed; and the CA may sign it after that.           *)
(***************************************************************************)
CONSTANTS Requests, Jobs, Admissible(_)

VARIABLES
    job,        \* what each request asks for
    phase,      \* "idle", "open", then "issued", "failed" or "dead"
    certified   \* the requests whose CSR the CA has signed

vars == <<job, phase, certified>>

Init ==
    /\ job \in [Requests -> Jobs]
    /\ phase = [r \in Requests |-> "idle"]
    /\ certified = {}

Submit(r) ==
    /\ phase[r] = "idle"
    /\ phase' = [phase EXCEPT ![r] = "open"]
    /\ UNCHANGED <<job, certified>>

Sign(r) ==
    /\ phase[r] # "idle" /\ Admissible(job[r])
    /\ certified' = certified \cup {r}
    /\ UNCHANGED <<job, phase>>

Grant(r) ==
    /\ phase[r] = "open" /\ r \in certified
    /\ phase' = [phase EXCEPT ![r] = "issued"]
    /\ UNCHANGED <<job, certified>>

Deny(r) ==
    /\ phase[r] = "open"
    /\ \E end \in {"failed", "dead"} : phase' = [phase EXCEPT ![r] = end]
    /\ UNCHANGED <<job, certified>>

Next == \E r \in Requests : Submit(r) \/ Sign(r) \/ Grant(r) \/ Deny(r)

Spec == Init /\ [][Next]_vars
=============================================================================
