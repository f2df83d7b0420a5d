---------------------------- MODULE FoliumState ----------------------------
(***************************************************************************)
(* State shared by the pages and controllers of Folium: what Firebase      *)
(* keeps, the LoginController singleton, the Navigator's stack of routes   *)
(* and the asynchronous calls whose continuations are outstanding.         *)
(*                                                                         *)
(* Every `await` of the Dart code is a call that is first served by        *)
(* Firebase (its effect and its outcome, Serve below) and later resumed by *)
(* the event loop of the app (the continuation, in Session and             *)
(* Registration).  Between the two anything else may happen: taps, the     *)
(* back button, other continuations, the death of the process.            *)
(***************************************************************************)
EXTENDS Naturals, Sequences

CONSTANTS
    Users,      \* the e-mail addresses typed; an account's uid is its e-mail
    Pictures,   \* whether a picture was chosen for a new profile
    CallIds,    \* bound: calls that are outstanding at the same time
    NULL        \* Dart's null

ASSUME PicturesAreChoices == Pictures \subseteq BOOLEAN
ASSUME NullIsNoUser == NULL \notin Users

VARIABLES
    accounts,     \* Firebase Auth: the accounts that exist
    signedIn,     \* Firebase Auth: the persisted session of this device
    data,         \* Realtime Database: users/<uid>/data
    index,        \* Realtime Database: uids below workers/<place>/<area>
    images,       \* Storage: uids that have a profile picture
    currentUser,  \* LoginController.currentUser
    stack,        \* the Navigator's routes, bottom first
    calls         \* the outstanding asynchronous calls

backend == <<accounts, signedIn, data, index, images>>
vars == <<accounts, signedIn, data, index, images, currentUser, stack, calls>>

-----------------------------------------------------------------------------
(* Data *)

Kinds == {"Client", "Worker"}

(* A User object, or its JSON under users/<uid>/data.  "image" tells       *)
(* whether imageUrl is a URL or the empty string.                          *)
Record == [kind : Kinds, uid : Users, image : BOOLEAN]

ASSUME NullIsNoRecord == NULL \notin Record

(* For each await of the pages below, the page that it belongs to.         *)
PageOf ==
    [checkUserLogged |-> "Home", signIn |-> "Login",
     choiceUser |-> "UserChoice", choiceData |-> "UserChoice",
     signOut |-> "MenuConfig",
     createUser |-> "SimpleRegister", putFile |-> "SimpleRegister",
     getDownloadURL |-> "SimpleRegister", sendClient |-> "SimpleRegister",
     sendWorker |-> "WorkerComplement", sendReference |-> "WorkerComplement"]

Awaits == DOMAIN PageOf

Pages == {"Home", "Login", "UserChoice", "UserChoiceRegister",
          "SimpleRegister", "Terms", "WorkerComplement", "Main",
          "MenuConfig"}

(* status: "form" accepts taps, "loading" shows the progress indicator;    *)
(* a main page is "shown", on its other "tab", or in "error".  kind: the   *)
(* profile it is for; pic: the picture it waits for has a URL.             *)
Route == [page : Pages, kind : Kinds \cup {NULL},
          status : {"form", "loading", "shown", "tab", "error"},
          pic : BOOLEAN]

(* at: the position on the stack of the page whose continuation waits, 0   *)
(* once that page was removed; mounted: its State is not disposed; kind:   *)
(* the profile asked for in UserChoice; user: the e-mail or the uid; rec:  *)
(* the object being registered, sent or read; sent: the local variable     *)
(* _data of registerCompleteWorker.                                        *)
Call == [await : Awaits, at : Nat, mounted : BOOLEAN,
         kind : Kinds \cup {NULL}, user : Users \cup {NULL},
         rec : Record \cup {NULL}, sent : BOOLEAN,
         answer : {"pending", "ok", "error"}]

ASSUME NullIsNoCall == NULL \notin Call

Outstanding == {c \in CallIds : calls[c] # NULL}

-----------------------------------------------------------------------------
(* Calls *)

NewCall(await, n) ==
    [await |-> await, at |-> n, mounted |-> TRUE, kind |-> NULL,
     user |-> NULL, rec |-> NULL, sent |-> FALSE, answer |-> "pending"]

IsFree(c) == calls[c] = NULL

(* The call has its answer: its continuation is in the event queue.        *)
Answered(c, await) ==
    calls[c] # NULL /\ calls[c].await = await /\ calls[c].answer # "pending"
Succeeded(c) == calls[c].answer = "ok"

(* The calls after the continuation of c ran to its end, or up to its next *)
(* await.                                                                  *)
Finished(c) == [calls EXCEPT ![c] = NULL]
Awaiting(c, await) ==
    [calls EXCEPT ![c].await = await, ![c].answer = "pending"]

-----------------------------------------------------------------------------
(* Navigator *)

Top == stack[Len(stack)]
TopIs(page, status) == Top.page = page /\ Top.status = status

NewRoute(page, kind) ==
    [page |-> page, kind |-> kind, status |-> "form", pic |-> FALSE]

(* setState on the page at position n, if it is still on the stack.        *)
WithStatus(n, status) ==
    IF n = 0 THEN stack ELSE [stack EXCEPT ![n].status = status]

(* The routes above position n leave the stack.  Their State lives on      *)
(* until their transition ends, and their continuations are not cancelled. *)
Detached(cs, n) ==
    [c \in CallIds |->
        IF cs[c] # NULL /\ cs[c].at > n THEN [cs[c] EXCEPT !.at = 0]
                                        ELSE cs[c]]

Below == SubSeq(stack, 1, Len(stack) - 1)

(* Each navigation changes the stack, and the calls cs of a continuation.  *)
stay(cs) == UNCHANGED stack /\ calls' = cs
push(route, cs) == stack' = Append(stack, route) /\ calls' = cs
pop == stack' = Below /\ calls' = Detached(calls, Len(stack) - 1)
pushReplacement(route, cs) ==
    stack' = Append(Below, route) /\ calls' = Detached(cs, Len(stack) - 1)
pushAndRemoveUntil(route, cs) ==
    stack' = <<route>> /\ calls' = Detached(cs, 0)

(* A mutant of the next definition: the page does not show its progress.   *)
ShowsNoProgress(n, call) ==
    /\ UNCHANGED stack
    /\ \E c \in CallIds : IsFree(c) /\ calls' = [calls EXCEPT ![c] = call]

(* A handler reaches its first await with the page at position n loading.  *)
AwaitLoading(n, call) ==
    /\ stack' = WithStatus(n, "loading")
    /\ \E c \in CallIds : IsFree(c) /\ calls' = [calls EXCEPT ![c] = call]

-----------------------------------------------------------------------------
(* The signed-in user, LoginController.dart *)

(* getCurrentWorker() and getCurrentClient() give an object of the kind    *)
(* asked for; otherwise the cast, or the use of its null result, throws.   *)
GetsCurrent(user, kind) == user # NULL /\ user.kind = kind

(* The main page of a profile.  The State of its first tab, HomeClient or  *)
(* HomeWorker, reads the picture of the current user when it is created.   *)
MainRoute(kind, user) ==
    [page |-> "Main", kind |-> kind,
     status |-> IF GetsCurrent(user, kind) THEN "loading" ELSE "error",
     pic |-> GetsCurrent(user, kind) /\ user.image]

-----------------------------------------------------------------------------
(* Firebase, the external service.  Serve(c) is the moment at which call c *)
(* takes effect there and its outcome is settled.                          *)

Reply(c, answer) == calls' = [calls EXCEPT ![c].answer = answer]

(* FirebaseAuth.currentUser(): the persisted session, or null.             *)
ServeCurrentUser(c) ==
    /\ calls[c].await \in {"checkUserLogged", "choiceUser"}
    /\ calls' = [calls EXCEPT ![c].answer = "ok", ![c].user = signedIn]
    /\ UNCHANGED backend

ServeSignIn(c) ==
    /\ calls[c].await = "signIn"
    /\ \/ /\ calls[c].user \in accounts
          /\ signedIn' = calls[c].user
          /\ Reply(c, "ok")
       \/ UNCHANGED signedIn /\ Reply(c, "error")
    /\ UNCHANGED <<accounts, data, index, images>>

ServeSignOut(c) ==
    /\ calls[c].await = "signOut"
    /\ signedIn' = NULL
    /\ Reply(c, "ok")
    /\ UNCHANGED <<accounts, data, index, images>>

(* The new account is signed in.  An error may hide an account that was    *)
(* created all the same (the answer was lost).                             *)
ServeCreateUser(c) ==
    /\ calls[c].await = "createUser"
    /\ \/ /\ calls[c].rec.uid \notin accounts
          /\ accounts' = accounts \cup {calls[c].rec.uid}
          /\ signedIn' = calls[c].rec.uid
          /\ Reply(c, "ok")
       \/ /\ accounts' \in {accounts, accounts \cup {calls[c].rec.uid}}
          /\ UNCHANGED signedIn
          /\ Reply(c, "error")
    /\ UNCHANGED <<data, index, images>>

(* once() of users/<uid>/data *)
ServeOnce(c) ==
    /\ calls[c].await = "choiceData"
    /\ \/ calls' = [calls EXCEPT ![c].answer = "ok",
                                 ![c].rec = data[calls[c].user]]
       \/ Reply(c, "error")
    /\ UNCHANGED backend

(* onComplete gives a snapshot whether the upload succeeded or not.        *)
ServePutFile(c) ==
    /\ calls[c].await = "putFile"
    /\ images' \in {images, images \cup {calls[c].rec.uid}}
    /\ Reply(c, "ok")
    /\ UNCHANGED <<accounts, signedIn, data, index>>

ServeGetDownloadURL(c) ==
    /\ calls[c].await = "getDownloadURL"
    /\ \/ calls[c].rec.uid \in images /\ Reply(c, "ok")
       \/ Reply(c, "error")
    /\ UNCHANGED backend

(* A mutant of the next definition: the session's account is used.         *)
SessionPath(user) == signedIn

(* "users/${user.uid}/data": the account a User object is stored under.    *)
DataPath(user) == user.uid

(* Snapshot.sendData of a User object *)
ServeSendUser(c) ==
    /\ calls[c].await \in {"sendClient", "sendWorker"}
    /\ \/ /\ data' = [data EXCEPT ![DataPath(calls[c].rec)] = calls[c].rec]
          /\ Reply(c, "ok")
       \/ UNCHANGED data /\ Reply(c, "error")
    /\ UNCHANGED <<accounts, signedIn, index, images>>

(* Snapshot.sendData of the reference below workers/ *)
ServeSendReference(c) ==
    /\ calls[c].await = "sendReference"
    /\ \/ index' = index \cup {calls[c].rec.uid} /\ Reply(c, "ok")
       \/ UNCHANGED index /\ Reply(c, "error")
    /\ UNCHANGED <<accounts, signedIn, data, images>>

Pending(c) == calls[c] # NULL /\ calls[c].answer = "pending"

ServeAuth(c) ==
    /\ Pending(c)
    /\ \/ ServeCurrentUser(c)
       \/ ServeSignIn(c)
       \/ ServeSignOut(c)
       \/ ServeCreateUser(c)
    /\ UNCHANGED <<currentUser, stack>>

ServeStores(c) ==
    /\ Pending(c)
    /\ \/ ServeOnce(c)
       \/ ServePutFile(c)
       \/ ServeGetDownloadURL(c)
       \/ ServeSendUser(c)
       \/ ServeSendReference(c)
    /\ UNCHANGED <<currentUser, stack>>
=============================================================================
