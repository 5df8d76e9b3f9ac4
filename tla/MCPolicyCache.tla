----------------------------- MODULE MCPolicyCache -----------------------------
(* Two threads, of one worker or of a worker each, one client, one group, and *)
(* a mapping file that is replaced by one that restricts another template.   *)
EXTENDS PolicyCache, TLC

CONSTANTS t1, t2, w1, w2, alice, staff, TUser, TServer, before, after

MCWorkerOf == t1 :> w1 @@ t2 :> w2
OneWorker == t1 :> w1 @@ t2 :> w1

\* The two threads of one worker are alike.
Symmetry == Permutations(Threads)

RolloutGroups ==
    before :> (TUser :> {staff} @@ TServer :> {}) @@
    after  :> (TUser :> {} @@ TServer :> {staff})
OneRule == before :> (TUser :> {staff} @@ TServer :> {})
=============================================================================
