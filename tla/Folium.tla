------------------------------- MODULE Folium -------------------------------
(***************************************************************************)
(* The app as a whole: Session and Registration over one Navigator, one    *)
(* LoginController and one Firebase project, and what has to hold of them. *)
(***************************************************************************)
EXTENDS Session, Registration

Init ==
    /\ accounts = {} /\ signedIn = NULL
    /\ data = [u \in Users |-> NULL] /\ index = {} /\ images = {}
    /\ currentUser = NULL
    /\ stack = <<HomeRoute>>
    /\ \E c \in CallIds : calls = StartCalls(c)

(* The continuation of call c is taken from the event queue.               *)
Resume(c) ==
    \/ CheckReturns(c)
    \/ LoginReturns(c)
    \/ ChoiceUserReturns(c)
    \/ ChoiceDataReturns(c)
    \/ SignOutReturns(c)
    \/ CreateUserReturns(c)
    \/ PutFileReturns(c)
    \/ GetDownloadURLReturns(c)
    \/ SendClientReturns(c)
    \/ SendWorkerReturns(c)
    \/ SendReferenceReturns(c)

(* What the person holding the phone does on the page on top.              *)
Tap ==
    \/ Participe
    \/ \E u \in Users : LoginClicked(u)
    \/ Cadastre
    \/ \E kind \in Kinds : ChoiceClicked(kind)
    \/ SecondTab
    \/ FirstTab
    \/ Configuracoes
    \/ MudarVisao
    \/ SairClicked
    \/ \E kind \in Kinds : TypeChosen(kind)
    \/ RegisterClicked
    \/ TermsCancelled
    \/ \E u \in Users, pic \in Pictures : TermsAgreed(u, pic)
    \/ ConcluirClicked

(* What the platform does by itself.                                       *)
Platform ==
    \/ Back
    \/ Relaunch
    \/ HomeImageLoaded
    \/ \E page \in Pages : Dispose(page)

Next ==
    \/ Tap
    \/ Platform
    \/ \E c \in CallIds : ServeAuth(c) \/ ServeStores(c) \/ Resume(c)

Spec == Init /\ [][Next]_vars

(* Firebase Auth answers every request, with an error after its time-out   *)
(* if need be, and the event loop of Dart runs every continuation in its   *)
(* queue.  The database and the storage give no such promise: offline they *)
(* wait for ever.  Nobody has to tap anything.                             *)
Fairness ==
    \A c \in CallIds : WF_vars(ServeAuth(c)) /\ WF_vars(Resume(c))

FairSpec == Spec /\ Fairness

-----------------------------------------------------------------------------
(* Typing *)

(* A call carries what its await needs.                                    *)
HasArgument(call) ==
    /\ call.await = "signIn" => call.user \in Users
    /\ call.await \in {"choiceUser", "choiceData"} => call.kind \in Kinds
    /\ call.await = "choiceData" => call.user \in Users
    /\ call.await \in {"createUser", "putFile", "getDownloadURL",
                       "sendClient", "sendWorker", "sendReference"}
          => call.rec \in Record

HasProfile(route) ==
    route.page \in {"Main", "SimpleRegister"} => route.kind \in Kinds

CallsOK(cs) ==
    /\ cs \in [CallIds -> Call \cup {NULL}]
    /\ \A c \in CallIds : cs[c] # NULL => HasArgument(cs[c])

StackOK(stk) ==
    /\ stk \in Seq(Route) /\ stk # <<>>
    /\ \A n \in DOMAIN stk : HasProfile(stk[n])

(* Every variable has its type, and no call waits without its argument:    *)
(* in particular users/<uid>/data is only read for a user that was there   *)
(* when UserChoiceController asked (UserChoiceController.dart:15-16).      *)
TypeOK ==
    /\ accounts \in SUBSET Users
    /\ signedIn \in Users \cup {NULL}
    /\ data \in [Users -> Record \cup {NULL}]
    /\ index \in SUBSET Users
    /\ images \in SUBSET Users
    /\ currentUser \in Record \cup {NULL}
    /\ StackOK(stack)
    /\ CallsOK(calls)

-----------------------------------------------------------------------------
(* Safety *)

(* A profile that is stored keeps its kind, its owner and its picture.     *)
(* Snapshot.sendData() replaces all of it, and WorkerComplement sends what *)
(* LoginController holds: an object that was registered or read any number *)
(* of sessions ago, also when another account asked for the complement.    *)
ProfileKept ==
    [][\A u \in Users : data[u] # NULL => data'[u] = data[u]]_vars

(* Profiles, references and pictures exist only for accounts that exist:   *)
(* registerUser() creates the account before anything is uploaded.         *)
AccountFirst ==
    /\ \A u \in Users : data[u] # NULL => u \in accounts
    /\ index \subseteq accounts
    /\ images \subseteq accounts

(* A profile that names a picture has it in Storage: an upload that failed *)
(* ends the registration (SimpleRegisterController.dart:24).               *)
PictureStored ==
    /\ \A u \in Users : data[u] # NULL /\ data[u].image => u \in images
    /\ currentUser # NULL /\ currentUser.image => currentUser.uid \in images

OverMain == {"MenuConfig", "UserChoice", "WorkerComplement"}

ShapeOK(stk) ==
    \A n \in DOMAIN stk :
       /\ stk[n].page \in {"Main", "Home"} => n = 1
       /\ n > 1 /\ stk[1].page = "Main" => stk[n].page \in OverMain
       /\ stk[n].page = "Terms"
             => n > 1 /\ stk[n - 1].page = "SimpleRegister"

(* The shapes of the Navigator's stack: Home and a main page are never     *)
(* above another page; above a main page there is, but for the pages of    *)
(* the photos (module Photos), only the menu, a change of profile, or the  *)
(* complement of a registration that returned late; the terms dialog is    *)
(* directly above the form it belongs to.                                  *)
StackShape == ShapeOK(stack)

(* A continuation comes back to the page it started from, which shows its  *)
(* progress all the time: the load flag lets no page submit twice, once    *)
(* the frame that setState asks for is drawn.  Home and MenuConfig have no *)
(* such flag.                                                              *)
Waits(c, n) == calls[c] # NULL /\ calls[c].at = n

OneSubmission ==
    \A c \in CallIds, n \in DOMAIN stack :
       Waits(c, n) =>
          /\ stack[n].page = PageOf[calls[c].await]
          /\ stack[n].page \notin {"Home", "MenuConfig"} =>
                /\ stack[n].status = "loading"
                /\ \A d \in CallIds : Waits(d, n) => d = c

(* registerCompleteWorker() reports success only when both writes were     *)
(* made: then the profile is a worker's and it is listed.                  *)
CompletedIsStored ==
    \A c \in Outstanding :
        calls[c].await = "sendReference" /\ calls[c].answer # "pending"
              /\ Completed(c)
           => LET u == calls[c].rec.uid
              IN  data[u] # NULL /\ data[u].kind = "Worker" /\ u \in index

(* The progress indicator of Login is only shown while an answer is due:   *)
(* both outcomes of login() take it away again (Login.dart:41-48).         *)
Busy(n) == \E c \in CallIds : Waits(c, n)
Progress(page) ==
    \A n \in DOMAIN stack :
       stack[n].page = page /\ stack[n].status = "loading" => Busy(n)

LoginProgress == Progress("Login")

(* A call waits for a page on the stack, or for one that was removed; only *)
(* a page that was removed is disposed.                                    *)
Attached ==
    \A c \in CallIds : calls[c] # NULL =>
       /\ calls[c].at \in 0 .. Len(stack)
       /\ ~calls[c].mounted => calls[c].at = 0

(* The form below the dialog was not submitted.                            *)
TermsOverForm ==
    \A n \in DOMAIN stack \ {1} :
       stack[n].page = "Terms" => stack[n - 1].status = "form"

(* Pages and their calls belong together: the inductive invariant behind   *)
(* OneSubmission and LoginProgress.                                        *)
Submissions == Attached /\ OneSubmission /\ TermsOverForm /\ LoginProgress

-----------------------------------------------------------------------------
(* Liveness *)

LoginLoading ==
    \E n \in DOMAIN stack : stack[n].page = "Login" /\ stack[n].status = "loading"

(* Nobody is kept waiting by the login page, whatever Firebase answers.    *)
LoginAnswered == LoginLoading ~> ~LoginLoading

-----------------------------------------------------------------------------
(* What the texts and names of the app say, and the code does not keep.    *)

(* "Looking up information..." (UserChoice.dart:29): UserChoice is reading *)
(* the profile.  clientChoice() throws for an account without one.         *)
ChoiceProgress == Progress("UserChoice")

(* "carregando perfil" (HomeClient.dart:29, HomeWorker.dart:30): the home  *)
(* tab is waiting for the picture, so there is one to wait for.            *)
HomeProgress ==
    \A n \in DOMAIN stack :
       stack[n].page = "Main" /\ stack[n].status = "loading" => stack[n].pic

(* The casts of getCurrentWorker() and getCurrentClient() succeed whenever *)
(* a home tab is created or built (LoginController.dart:46-52).            *)
CastsSucceed == \A n \in DOMAIN stack : stack[n].status # "error"

(* registerClient() says "success" (SimpleRegisterController.dart:37): the *)
(* profile shown on the main page is stored.                               *)
SuccessMeansStored ==
    stack[1].page = "Main" /\ GetsCurrent(currentUser, stack[1].kind)
       => data[currentUser.uid] # NULL

(* "You can change your profile at any time inside the app"                *)
(* (UserChoice.dart:67): when somebody who has a profile is asked for the  *)
(* complement of a worker's, there is a worker to complete.  For a client  *)
(* there is none: WorkerComplementController needs a current Worker.       *)
ComplementHasWorker ==
    TopIs("WorkerComplement", "form") /\ signedIn # NULL /\ data[signedIn] # NULL
       => GetsCurrent(currentUser, "Worker")

(* The complement is sent for the user who is logged in: that is what      *)
(* LoginController calls the current worker.                               *)
CompletesOwnProfile ==
    [][\A c \in CallIds :
          calls[c] = NULL /\ calls'[c] # NULL /\ calls'[c].await = "sendWorker"
             => calls'[c].rec.uid = signedIn]_vars

-----------------------------------------------------------------------------
(* Why profiles keep their owner and their kind *)

(* What a call is doing for the account calls[c].rec.uid: registering it,  *)
(* from the creation of the account on; registering it with nothing stored *)
(* yet; completing a worker; having the URL of its picture; having sent    *)
(* its data; or having read its profile.                                   *)
Registering(call) ==
    \/ call.await \in {"putFile", "getDownloadURL", "sendClient"}
    \/ call.await = "createUser" /\ call.answer = "ok"
IsNew(call) ==
    Registering(call) /\ (call.await = "sendClient" => call.answer = "pending")
Completing(call) == call.await \in {"sendWorker", "sendReference"}
HasUrl(call) ==
    \/ call.await = "sendClient"
    \/ call.await = "getDownloadURL" /\ call.answer = "ok"
HasSent(call) ==
    \/ call.await = "sendWorker" /\ call.answer = "ok"
    \/ call.await = "sendReference" /\ call.sent
HasRead(call) ==
    call.await = "choiceData" /\ call.answer = "ok" /\ call.rec # NULL

NotClient(u) == data[u] = NULL \/ data[u].kind = "Worker"

(* A User object the app holds on to agrees with what Firebase stores.     *)
Held(rec) ==
    /\ rec.uid \in accounts
    /\ rec.image => rec.uid \in images
    /\ rec.kind = "Worker" => NotClient(rec.uid)

Stored ==
    /\ \A u \in Users : data[u] # NULL =>
          /\ data[u].uid = u /\ u \in accounts
          /\ data[u].image => u \in images
    /\ index \subseteq accounts /\ \A u \in index : NotClient(u)
    /\ images \subseteq accounts

Owned(call) ==
    /\ Registering(call) => call.rec.uid \in accounts
    /\ call.await = "sendClient" => call.rec.kind = "Client"
    /\ HasUrl(call) /\ call.rec.image => call.rec.uid \in images
    /\ Completing(call) => call.rec.kind = "Worker" /\ Held(call.rec)
    /\ HasRead(call) => Held(call.rec) /\ data[call.rec.uid] # NULL
    /\ HasSent(call) => data[call.rec.uid] # NULL
    /\ call.await = "sendReference" /\ call.answer = "ok"
          => call.rec.uid \in index

(* Until a new account's profile is sent, nothing else acts for it.        *)
Alone(c) ==
    LET u == calls[c].rec.uid IN
    /\ data[u] = NULL /\ u \notin index
    /\ ~(GetsCurrent(currentUser, "Worker") /\ currentUser.uid = u)
    /\ \A d \in CallIds \ {c} :
          calls[d] # NULL /\ (IsNew(calls[d]) \/ Completing(calls[d]))
             => calls[d].rec.uid # u

(* The workers' objects: the current user, the stored profiles, and what a *)
(* call is sending or has read.  All those of one account are alike, so it *)
(* does not matter how old the one is that WorkerComplement sends.         *)
WorkerObjects ==
    {r \in Record :
        /\ r.kind = "Worker"
        /\ \/ r = currentUser
           \/ \E u \in Users : r = data[u]
           \/ \E c \in Outstanding :
                 /\ Completing(calls[c]) \/ HasRead(calls[c])
                 /\ r = calls[c].rec}

WorkersAgree == \A r, s \in WorkerObjects : r.uid = s.uid => r = s

(* The whole argument: what Firebase stores, what LoginController holds    *)
(* and what every outstanding call carries belong together, so that no     *)
(* late continuation and no stale object can give an account the profile   *)
(* of another, of another kind, or with another picture.                   *)
Ownership ==
    /\ Stored
    /\ currentUser # NULL => Held(currentUser)
    /\ \A c \in CallIds : calls[c] # NULL =>
          Owned(calls[c]) /\ (IsNew(calls[c]) => Alone(c))
    /\ WorkersAgree

-----------------------------------------------------------------------------
(* Refinement *)

Stage(u) ==
    IF data[u] # NULL THEN data[u].kind
    ELSE IF u \in accounts THEN "account" ELSE "none"

Abstract == INSTANCE Accounts
               WITH Owners <- Users, stage <- [u \in Users |-> Stage(u)],
                    listed <- index

(* The app implements the life of an account: an account gets at most one  *)
(* kind of profile, which is never lost and never changes, and no client   *)
(* is listed among the workers, nor does a listed account become a client, *)
(* whatever pages, profiles and registrations are mixed.                   *)
AccountLife == Abstract!Spec
=============================================================================
