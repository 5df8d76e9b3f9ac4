---------------------------- MODULE Certification ----------------------------
(***************************************************************************)
(* What the proxy as a whole promises, seen from the devices and the CA:   *)
(* the CA signs for devices that are entitled to it (authenticated, asking *)
(* for a template that is configured and allowed to them), a device that   *)
(* ends up with a certificate has one the CA signed for it, and once told, *)
(* it is not told otherwise.  A device may be told of a failure, or learn  *)
(* nothing, although the CA signed for it, before or after.                *)
(***************************************************************************)
CONSTANT Devices

VARIABLES
    entitled,   \* the devices that may have a certificate
    certified,  \* the devices the CA has signed for
    told        \* what each device was told: "nothing", "certificate", "failure"

vars == <<entitled, certified, told>>

Init ==
    /\ entitled \in SUBSET Devices
    /\ certified = {}
    /\ told = [d \in Devices |-> "nothing"]

Sign(d) ==
    /\ d \in entitled
    /\ certified' = certified \cup {d}
    /\ UNCHANGED <<entitled, told>>

Tell(d) ==
    /\ told[d] = "nothing"
    /\ \/ told' = [told EXCEPT ![d] = "certificate"] /\ d \in certified
       \/ told' = [told EXCEPT ![d] = "failure"]
    /\ UNCHANGED <<entitled, certified>>

Next == \E d \in Devices : Sign(d) \/ Tell(d)

Spec == Init /\ [][Next]_vars
=============================================================================
