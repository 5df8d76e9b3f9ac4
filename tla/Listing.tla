-------------------------------- MODULE Listing --------------------------------
(***************************************************************************)
(* What the policy endpoint promises a client, without caches, hashes,     *)
(* workers or failures of the directory: it is answered with the policies  *)
(* that a mapping file gives for groups the directory gave the client      *)
(* while it was asking, or for none; or it is told of a failure.  Nothing  *)
(* an earlier request learnt counts.  Whether the mapping file is the      *)
(* present one or an earlier one is not promised.                          *)
(***************************************************************************)
CONSTANTS Threads, Clients, Groups, Rules, Visible(_, _), Failures

VARIABLES
    directory,  \* the groups of each client
    asking,     \* per thread: {} or {the client that asks}
    learnt,     \* per thread: the groups the directory gave that client
    answer      \* per thread: {} or {what the client is told}

vars == <<directory, asking, learnt, answer>>

Init ==
    /\ directory \in [Clients -> SUBSET Groups]
    /\ asking = [t \in Threads |-> {}]
    /\ learnt = [t \in Threads |-> {}]
    /\ answer = [t \in Threads |-> {}]

Change ==
    /\ \E c \in Clients, G \in SUBSET Groups : directory' = [directory EXCEPT ![c] = G]
    /\ UNCHANGED <<asking, learnt, answer>>

\* The directory is asked as the request comes in, and may fail, or say that
\* it does not know the client.
Ask(t) ==
    /\ asking[t] = {}
    /\ \E c \in Clients :
        /\ asking' = [asking EXCEPT ![t] = {c}]
        /\ \E found \in {{}, {{}}, {directory[c]}} : learnt' = [learnt EXCEPT ![t] = found]
    /\ UNCHANGED <<directory, answer>>

Learn(t) ==
    /\ answer[t] = {}
    /\ \E c \in asking[t] : learnt' = [learnt EXCEPT ![t] = @ \cup {directory[c]}]
    /\ UNCHANGED <<directory, asking, answer>>

Policies(rules, groups) ==
    [kind |-> "policies", rules |-> rules, templates |-> Visible(rules, groups)]

Tell(t) ==
    /\ asking[t] # {} /\ answer[t] = {}
    /\ \/ \E rules \in Rules, G \in learnt[t] \cup {{}} :
             answer' = [answer EXCEPT ![t] = {Policies(rules, G)}]
       \/ \E failure \in Failures : answer' = [answer EXCEPT ![t] = {failure}]
    /\ UNCHANGED <<directory, asking, learnt>>

\* Requests end, answered or not.
Forget(done) ==
    /\ UNCHANGED directory
    /\ asking' = [t \in Threads |-> IF t \in done THEN {} ELSE asking[t]]
    /\ learnt' = [t \in Threads |-> IF t \in done THEN {} ELSE learnt[t]]
    /\ answer' = [t \in Threads |-> IF t \in done THEN {} ELSE answer[t]]

Next ==
    \/ Change
    \/ \E t \in Threads : Ask(t) \/ Learn(t) \/ Tell(t)
    \/ \E done \in SUBSET {t \in Threads : asking[t] # {}} : Forget(done)

Spec == Init /\ [][Next]_vars
=============================================================================
