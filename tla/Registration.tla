---------------------------- MODULE Registration ----------------------------
(***************************************************************************)
(* Creating a profile: the pages UserChoiceRegister, SimpleRegister with   *)
(* its terms dialog, and WorkerComplement, and the controllers they call.  *)
(* A form is submitted when it is valid; one that is not valid only shows  *)
(* a message.                                                              *)
(***************************************************************************)
EXTENDS FoliumState

-----------------------------------------------------------------------------
(* UserChoiceRegister.dart *)

TypeChosen(kind) ==
    /\ TopIs("UserChoiceRegister", "form")
    /\ push(NewRoute("SimpleRegister", kind), calls)
    /\ UNCHANGED <<backend, currentUser>>

-----------------------------------------------------------------------------
(* SimpleRegister.dart: the button and the dialog *)

RegisterClicked ==
    /\ TopIs("SimpleRegister", "form")
    /\ push(NewRoute("Terms", NULL), calls)
    /\ UNCHANGED <<backend, currentUser>>

TermsCancelled ==
    /\ TopIs("Terms", "form")
    /\ pop
    /\ UNCHANGED <<backend, currentUser>>

(* A mutant of the next definition: the picture comes first.               *)
UploadFirst(n, u, pic) ==
    [NewCall("putFile", n) EXCEPT
        !.rec = [kind |-> stack[n].kind, uid |-> u, image |-> pic]]

(* registerUser() up to its first await, for the e-mail and the picture of *)
(* a form at position n.                                                   *)
RegisterCall(n, u, pic) ==
    [NewCall("createUser", n) EXCEPT
        !.rec = [kind |-> stack[n].kind, uid |-> u, image |-> pic]]

(* CONCORDO pops the dialog and runs agree(): the form below it shows its  *)
(* progress.                                                               *)
TermsAgreed(u, pic) ==
    LET n == Len(stack) - 1 IN
    /\ TopIs("Terms", "form")
    /\ stack' = [Below EXCEPT ![n].status = "loading"]
    /\ \E c \in CallIds :
          /\ IsFree(c)
          /\ calls' = [calls EXCEPT ![c] = RegisterCall(n, u, pic)]
    /\ UNCHANGED <<backend, currentUser>>

-----------------------------------------------------------------------------
(* SimpleRegisterController.dart and the rest of agree().  Nothing here    *)
(* resets the form's progress: after an error the page keeps loading.      *)

(* registerUser() gave its result: registerClient() sends the profile;     *)
(* registerWorker() only makes it current, and the page goes on.           *)
UserRegistered(c) ==
    \/ /\ calls[c].rec.kind = "Client"
       /\ stay(Awaiting(c, "sendClient"))
       /\ UNCHANGED currentUser
    \/ /\ calls[c].rec.kind = "Worker"
       /\ currentUser' = calls[c].rec
       /\ IF calls[c].mounted
          THEN push(NewRoute("WorkerComplement", NULL), Finished(c))
          ELSE stay(Finished(c))

(* registerUser() caught an error: the page shows a message.               *)
RegistrationFailed(c) == stay(Finished(c)) /\ UNCHANGED currentUser

(* _createUid() returned: the picture, if any, is uploaded next.           *)
CreateUserReturns(c) ==
    /\ Answered(c, "createUser")
    /\ \/ ~Succeeded(c) /\ RegistrationFailed(c)
       \/ /\ Succeeded(c) /\ calls[c].rec.image
          /\ stay(Awaiting(c, "putFile"))
          /\ UNCHANGED currentUser
       \/ Succeeded(c) /\ ~calls[c].rec.image /\ UserRegistered(c)
    /\ UNCHANGED backend

PutFileReturns(c) ==
    /\ Answered(c, "putFile")
    /\ stay(Awaiting(c, "getDownloadURL"))
    /\ UNCHANGED <<backend, currentUser>>

(* A mutant of the next action: an error goes on with the empty URL.       *)
FailureIgnored(c) ==
    Answered(c, "getDownloadURL") /\ UserRegistered(c) /\ UNCHANGED backend

GetDownloadURLReturns(c) ==
    /\ Answered(c, "getDownloadURL")
    /\ \/ ~Succeeded(c) /\ RegistrationFailed(c)
       \/ Succeeded(c) /\ UserRegistered(c)
    /\ UNCHANGED backend

(* registerClient() does not look at what _sendData() returned.            *)
SendClientReturns(c) ==
    /\ Answered(c, "sendClient")
    /\ currentUser' = calls[c].rec
    /\ IF calls[c].mounted
       THEN pushAndRemoveUntil(MainRoute("Client", calls[c].rec), Finished(c))
       ELSE stay(Finished(c))
    /\ UNCHANGED backend

-----------------------------------------------------------------------------
(* WorkerComplement.dart and WorkerComplementController.dart *)

(* A mutant of the next action: the current user may be a client.          *)
CompletesAnyUser ==
    /\ TopIs("WorkerComplement", "form")
    /\ currentUser # NULL
    /\ AwaitLoading(Len(stack),
          [NewCall("sendWorker", Len(stack)) EXCEPT !.rec = currentUser])
    /\ UNCHANGED <<backend, currentUser>>

(* CONCLUIR: the controller takes getCurrentWorker(); when there is no     *)
(* current worker this throws, and the page keeps loading.                 *)
ConcluirClicked ==
    /\ TopIs("WorkerComplement", "form")
    /\ IF GetsCurrent(currentUser, "Worker")
       THEN AwaitLoading(Len(stack),
              [NewCall("sendWorker", Len(stack)) EXCEPT !.rec = currentUser])
       ELSE stack' = WithStatus(Len(stack), "loading") /\ UNCHANGED calls
    /\ UNCHANGED <<backend, currentUser>>

(* The reference is sent whether or not the data was.                      *)
SendWorkerReturns(c) ==
    /\ Answered(c, "sendWorker")
    /\ stay([Awaiting(c, "sendReference") EXCEPT ![c].sent = Succeeded(c)])
    /\ UNCHANGED <<backend, currentUser>>

(* A mutant of the next definition: the first result is ignored.           *)
ReferenceIsEnough(c) == Succeeded(c)

(* return _data && _reference; *)
Completed(c) == calls[c].sent /\ Succeeded(c)

SendReferenceReturns(c) ==
    /\ Answered(c, "sendReference")
    /\ IF Completed(c) /\ calls[c].mounted
       THEN pushAndRemoveUntil(MainRoute("Worker", currentUser), Finished(c))
       ELSE stay(Finished(c))
    /\ UNCHANGED <<backend, currentUser>>
=============================================================================
