------------------------------ MODULE Accounts ------------------------------
(***************************************************************************)
(* What Folium promises about an account, seen from outside: it comes into *)
(* existence, it may then get one profile, of a kind that never changes,   *)
(* and it may be listed among the workers.  Nothing is ever taken back.    *)
(***************************************************************************)
CONSTANT Owners

VARIABLES stage, listed

vars == <<stage, listed>>

Stages == {"none", "account", "Client", "Worker"}

TypeOK == stage \in [Owners -> Stages] /\ listed \in SUBSET Owners

Init == stage = [u \in Owners |-> "none"] /\ listed = {}

SignUp(u) ==
    /\ stage[u] = "none"
    /\ stage' = [stage EXCEPT ![u] = "account"]
    /\ UNCHANGED listed

(* The profile is stored; storing it again does not change its kind.  An   *)
(* account that is listed already can only be a worker's.                  *)
StoreProfile(u, kind) ==
    /\ stage[u] = "account" /\ (u \in listed => kind = "Worker")
    /\ stage' = [stage EXCEPT ![u] = kind]
    /\ UNCHANGED listed

(* Only an account that is not a client's can be listed as a worker.       *)
List(u) ==
    /\ stage[u] \in {"account", "Worker"}
    /\ listed' = listed \cup {u}
    /\ UNCHANGED stage

Next ==
    \E u \in Owners :
       \/ SignUp(u)
       \/ \E kind \in {"Client", "Worker"} : StoreProfile(u, kind)
       \/ List(u)

Spec == Init /\ [][Next]_vars
=============================================================================
