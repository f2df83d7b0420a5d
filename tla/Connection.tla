----------------------------- MODULE Connection -----------------------------
(***************************************************************************)
(* The outstanding calls of a part of the app in which the order of the    *)
(* Realtime Database matters.  Its client has one connection: requests are *)
(* served, and their answers handed out, in the order in which they were   *)
(* sent.  Calls to other services are served and resumed in any order.     *)
(***************************************************************************)
EXTENDS Naturals, Sequences

CONSTANTS
    CallIds,    \* bound: calls that are outstanding at the same time
    NULL        \* Dart's null

VARIABLES
    calls,      \* the outstanding calls, records with an op and an answer
    queue       \* those of the database, in the order they were sent

IsFree(c) == calls[c] = NULL
Outstanding == {c \in CallIds : calls[c] # NULL}

-----------------------------------------------------------------------------
(* The service *)

Pending(c, ops) ==
    calls[c] # NULL /\ calls[c].op \in ops /\ calls[c].answer = "pending"

Reply(c, answer) == calls' = [calls EXCEPT ![c].answer = answer]

(* Every request that was sent before has its answer.                      *)
ItsTurn(c) ==
    \E n \in DOMAIN queue :
       queue[n] = c /\ \A m \in 1 .. n - 1 : calls[queue[m]].answer # "pending"

-----------------------------------------------------------------------------
(* The app *)

(* The continuation of c is next: it has its answer, and if that is one of *)
(* the database, it is the oldest.                                         *)
Answered(c, op) ==
    /\ calls[c] # NULL /\ calls[c].op = op /\ calls[c].answer # "pending"
    /\ \A n \in DOMAIN queue : queue[n] = c => n = 1

Succeeded(c) == calls[c].answer = "ok"
Finished(c) == [calls EXCEPT ![c] = NULL]
Awaiting(c, op) == [calls EXCEPT ![c].op = op, ![c].answer = "pending"]

Sent(c) == queue' = Append(queue, c)
Received == queue' = Tail(queue)
=============================================================================
