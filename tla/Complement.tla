----------------------------- MODULE Complement -----------------------------
(***************************************************************************)
(* The Worker object of one account while its complement is sent:          *)
(* registerCompleteWorker() writes the area into the object that           *)
(* LoginController shares, sends its JSON, and reads the area from the     *)
(* object again, for the path of the listing, after an await.  The form    *)
(* can be left and opened again while a complement is under way, so that   *)
(* several of them use one object.  Of the pages only this matters here:   *)
(* whether the form is there to be submitted.                              *)
(***************************************************************************)
EXTENDS Connection

CONSTANTS
    Areas,      \* the categories of workers
    Objects     \* bound: Worker objects that are in use at the same time

ASSUME NullIsNoArea == NULL \notin Areas \cup Objects

VARIABLES
    area,       \* occupation.area of each Worker object
    current,    \* LoginController.currentUser, if a Worker of this account
    registered, \* the account exists
    profile,    \* Realtime Database: the area in users/<uid>/data
    listed,     \* Realtime Database: areas whose listing names the worker
    open,       \* WorkerComplement is on top and not loading
    failed      \* observed only: a complement returned false or was cut off

vars == <<area, current, registered, profile, listed, open, failed, calls,
          queue>>

(* worker: _worker of the controller; area: what is sent; data: _data;     *)
(* read: the profile that once() gave.                                     *)
Call == [op : {"choice", "sendWorker", "sendReference"},
         worker : Objects \cup {NULL}, area : Areas \cup {NULL},
         data : BOOLEAN, read : Areas \cup {NULL},
         answer : {"pending", "ok", "error"}]

ASSUME NullIsNoCall == NULL \notin Call

NewCall(op, worker, a) ==
    [op |-> op, worker |-> worker, area |-> a, data |-> FALSE,
     read |-> NULL, answer |-> "pending"]

IsComplement(call) == call.op \in {"sendWorker", "sendReference"}
Complementing == {c \in Outstanding : IsComplement(calls[c])}

(* An object that nothing refers to any more is as good as a new one.      *)
Fresh(o) == o # current /\ \A c \in Outstanding : calls[c].worker # o

-----------------------------------------------------------------------------
(* Firebase, the external service *)

ServeOnce(c) ==
    /\ Pending(c, {"choice"}) /\ ItsTurn(c)
    /\ \/ calls' = [calls EXCEPT ![c].answer = "ok", ![c].read = profile]
       \/ Reply(c, "error")
    /\ UNCHANGED <<profile, listed>>

ServeSendWorker(c) ==
    /\ Pending(c, {"sendWorker"}) /\ ItsTurn(c)
    /\ \/ profile' = calls[c].area /\ Reply(c, "ok")
       \/ UNCHANGED profile /\ Reply(c, "error")
    /\ UNCHANGED listed

ServeSendReference(c) ==
    /\ Pending(c, {"sendReference"}) /\ ItsTurn(c)
    /\ \/ listed' = listed \cup {calls[c].area} /\ Reply(c, "ok")
       \/ UNCHANGED listed /\ Reply(c, "error")
    /\ UNCHANGED profile

Serve(c) ==
    /\ ServeOnce(c) \/ ServeSendWorker(c) \/ ServeSendReference(c)
    /\ UNCHANGED <<area, current, registered, open, failed, queue>>

-----------------------------------------------------------------------------
(* How a Worker object becomes the current one, and the form opens *)

(* registerWorker(); the page is pushed if the form before it is there.    *)
Registered ==
    /\ ~registered /\ registered' = TRUE
    /\ \E o \in Objects :
          Fresh(o) /\ current' = o /\ area' = [area EXCEPT ![o] = NULL]
    /\ open' \in {open, TRUE}
    /\ UNCHANGED <<profile, listed, failed, calls, queue>>

(* TRABALHADOR in UserChoice, when currentUser() has returned: a late      *)
(* registration may have opened the form meanwhile.                        *)
ChoiceClicked ==
    /\ \E c \in CallIds :
          /\ IsFree(c) /\ Sent(c)
          /\ calls' = [calls EXCEPT ![c] = NewCall("choice", NULL, NULL)]
    /\ UNCHANGED <<area, current, registered, profile, listed, open, failed>>

(* workerChoice(): without a profile the form opens, for the worker that   *)
(* is current; otherwise an object is made from the profile, and the main  *)
(* page opens.  Both only if UserChoice is still there.                    *)
ChoiceReturns(c) ==
    /\ Answered(c, "choice") /\ Received
    /\ calls' = Finished(c)
    /\ \/ ~Succeeded(c) /\ UNCHANGED <<area, current, open>>
       \/ /\ Succeeded(c) /\ calls[c].read = NULL
          /\ open' \in {open, TRUE}
          /\ UNCHANGED <<area, current>>
       \/ /\ Succeeded(c) /\ calls[c].read # NULL
          /\ \E o \in Objects :
                /\ Fresh(o) /\ current' = o
                /\ area' = [area EXCEPT ![o] = calls[c].read]
          /\ open' \in {open, FALSE}
    /\ UNCHANGED <<registered, profile, listed, failed>>

(* TRABALHADOR for another account, which has no profile: the form opens,  *)
(* and this account's worker is still the current one.                     *)
OtherChoice ==
    /\ ~open /\ open' = TRUE
    /\ UNCHANGED <<area, current, registered, profile, listed, failed, calls,
                   queue>>

(* A client, or another account, becomes the current user.                 *)
OtherUser ==
    /\ current # NULL /\ current' = NULL
    /\ UNCHANGED <<area, registered, profile, listed, open, failed, calls,
                   queue>>

-----------------------------------------------------------------------------
(* WorkerComplement.dart and WorkerComplementController.dart *)

(* CONCLUIR with area a: toJson() is evaluated before the await.  Without  *)
(* a current worker the controller throws, and the page keeps loading.     *)
ConcluirClicked(a) ==
    /\ open /\ open' = FALSE
    /\ \/ current = NULL /\ UNCHANGED <<area, calls, queue>>
       \/ /\ current # NULL
          /\ area' = [area EXCEPT ![current] = a]
          /\ \E c \in CallIds :
                /\ IsFree(c) /\ Sent(c)
                /\ calls' = [calls EXCEPT
                                ![c] = NewCall("sendWorker", current, a)]
    /\ UNCHANGED <<current, registered, profile, listed, failed>>

(* The path of the reference has the area the object has by now.           *)
SendWorkerReturns(c) ==
    /\ Answered(c, "sendWorker")
    /\ queue' = Append(Tail(queue), c)
    /\ calls' = [Awaiting(c, "sendReference") EXCEPT
                    ![c].data = Succeeded(c),
                    ![c].area = area[calls[c].worker]]
    /\ UNCHANGED <<area, current, registered, profile, listed, open, failed>>

(* A mutant of the next definition: the listing is not waited for.         *)
DataIsEnough(c) == calls[c].data

(* return _data && _reference; *)
Completed(c) == calls[c].data /\ Succeeded(c)

(* The main page opens, if the form is still there.                        *)
SendReferenceReturns(c) ==
    /\ Answered(c, "sendReference") /\ Received
    /\ calls' = Finished(c)
    /\ failed' = (failed \/ ~Completed(c))
    /\ open' \in IF Completed(c) THEN {open, FALSE} ELSE {open}
    /\ UNCHANGED <<area, current, registered, profile, listed>>

-----------------------------------------------------------------------------
(* The platform *)

(* The form is left, with the back button or by another page's doing.      *)
FormLeft ==
    /\ open /\ open' = FALSE
    /\ UNCHANGED <<area, current, registered, profile, listed, failed, calls,
                   queue>>

(* The process dies and is started again.                                  *)
Relaunch ==
    /\ current' = NULL /\ open' = FALSE
    /\ failed' = (failed \/ Complementing # {})
    /\ calls' = [c \in CallIds |-> NULL] /\ queue' = <<>>
    /\ UNCHANGED <<area, registered, profile, listed>>

-----------------------------------------------------------------------------
Init ==
    /\ area = [o \in Objects |-> NULL] /\ current = NULL
    /\ registered = FALSE /\ profile = NULL /\ listed = {}
    /\ open = FALSE /\ failed = FALSE
    /\ calls = [c \in CallIds |-> NULL] /\ queue = <<>>

Resume(c) == ChoiceReturns(c) \/ SendWorkerReturns(c) \/ SendReferenceReturns(c)

Next ==
    \/ Registered
    \/ ChoiceClicked
    \/ OtherChoice
    \/ OtherUser
    \/ \E a \in Areas : ConcluirClicked(a)
    \/ FormLeft
    \/ Relaunch
    \/ \E c \in CallIds : Serve(c) \/ Resume(c)

Spec == Init /\ [][Next]_vars

-----------------------------------------------------------------------------
(* Properties *)

(* Clients find workers by the listings below workers/<place>/<area>       *)
(* (WorkerComplementController.dart:23).  When every complement reported   *)
(* success and none is under way, the listing of the area in the profile   *)
(* names the worker, although complements overlap on one object and each   *)
(* may list the worker under an area that a later one has written.         *)
ListedWhereStored ==
    ~failed /\ Complementing = {} /\ profile # NULL => profile \in listed

-----------------------------------------------------------------------------
(* Why the listings agree with the profile *)

(* What call c means for the listing of the profile: it will write another *)
(* profile first, it will list the worker where the profile says, or it    *)
(* will report a failure.                                                  *)
Writes(c) == Pending(c, {"sendWorker"})
Lists(c) ==
    \/ Pending(c, {"sendReference"}) /\ calls[c].area = profile
    \/ /\ calls[c] # NULL /\ calls[c].op = "sendWorker" /\ Succeeded(c)
       /\ area[calls[c].worker] = profile
Fails(c) ==
    /\ calls[c] # NULL /\ IsComplement(calls[c])
    /\ \/ calls[c].answer = "error"
       \/ calls[c].op = "sendReference" /\ ~calls[c].data

(* A profile that is not listed yet has a complement that takes care of it;*)
(* and an object whose area is not the one that was sent for it was given  *)
(* another by a complement whose write comes later.                        *)
ListingDue ==
    profile = NULL \/ profile \in listed \/ failed
       \/ \E c \in CallIds : Writes(c) \/ Lists(c) \/ Fails(c)

LastWriteCounts ==
    \A n \in DOMAIN queue :
       Writes(queue[n]) =>
          \/ area[calls[queue[n]].worker] = calls[queue[n]].area
          \/ \E m \in DOMAIN queue : m > n /\ Writes(queue[m])

(* The queue holds the outstanding calls, each once.                       *)
QueueOK ==
    /\ queue \in Seq(CallIds)
    /\ \A m, n \in DOMAIN queue : queue[m] = queue[n] => m = n
    /\ \A c \in CallIds :
          calls[c] # NULL <=> \E n \in DOMAIN queue : queue[n] = c

TypeOK ==
    /\ area \in [Objects -> Areas \cup {NULL}]
    /\ current \in Objects \cup {NULL}
    /\ profile \in Areas \cup {NULL}
    /\ listed \in SUBSET (Areas \cup {NULL})
    /\ failed \in BOOLEAN
    /\ calls \in [CallIds -> Call \cup {NULL}]
    /\ \A c \in Complementing : calls[c].worker \in Objects

(* Overlapping complements leave the worker listed where the profile says: *)
(* the inductive invariant behind ListedWhereStored.                       *)
ListingKept == TypeOK /\ QueueOK /\ ListingDue /\ LastWriteCounts
=============================================================================
