------------------------------ MODULE Session ------------------------------
(***************************************************************************)
(* Signing in and out: the pages Home, Login, UserChoice, MainClient and   *)
(* MainWorker with their home tabs, MenuConfig, the controllers they call, *)
(* and what the platform does to any page (back button, end of a           *)
(* transition, death of the process).                                      *)
(***************************************************************************)
EXTENDS FoliumState

-----------------------------------------------------------------------------
(* Home.dart.  Building the page starts _check(), whose await is           *)
(* checkUserLogged(); the page is only ever built at the bottom.           *)

HomeRoute == NewRoute("Home", NULL)
HomeCheck == NewCall("checkUserLogged", 1)

(* PARTICIPE *)
Participe ==
    /\ TopIs("Home", "form")
    /\ push(NewRoute("Login", NULL), calls)
    /\ UNCHANGED <<backend, currentUser>>

(* _check() after its await: the route on TOP is replaced, whatever it is. *)
(* A disposed Home has no context left, and the continuation throws.       *)
CheckReturns(c) ==
    /\ Answered(c, "checkUserLogged")
    /\ IF calls[c].user # NULL /\ calls[c].mounted
       THEN pushReplacement(NewRoute("UserChoice", NULL), Finished(c))
       ELSE stay(Finished(c))
    /\ UNCHANGED <<backend, currentUser>>

-----------------------------------------------------------------------------
(* Login.dart *)

LoginClicked(u) ==
    /\ TopIs("Login", "form")
    /\ AwaitLoading(Len(stack),
                    [NewCall("signIn", Len(stack)) EXCEPT !.user = u])
    /\ UNCHANGED <<backend, currentUser>>

(* A mutant of the next definition: the progress is not taken away.        *)
KeepsLoading(c) == stay(Finished(c))

(* A wrong password, or no network: the form is there again.               *)
LoginFailed(c) ==
    stack' = WithStatus(calls[c].at, "form") /\ calls' = Finished(c)

LoginReturns(c) ==
    /\ Answered(c, "signIn")
    /\ \/ ~calls[c].mounted /\ stay(Finished(c))
       \/ /\ calls[c].mounted /\ Succeeded(c)
          /\ pushAndRemoveUntil(NewRoute("UserChoice", NULL), Finished(c))
       \/ calls[c].mounted /\ ~Succeeded(c) /\ LoginFailed(c)
    /\ UNCHANGED <<backend, currentUser>>

(* CADASTRE-SE *)
Cadastre ==
    /\ TopIs("Login", "form")
    /\ push(NewRoute("UserChoiceRegister", NULL), calls)
    /\ UNCHANGED <<backend, currentUser>>

-----------------------------------------------------------------------------
(* UserChoice.dart and UserChoiceController.dart *)

(* CLIENTE and TRABALHADOR *)
ChoiceClicked(kind) ==
    /\ TopIs("UserChoice", "form")
    /\ AwaitLoading(Len(stack),
                    [NewCall("choiceUser", Len(stack)) EXCEPT !.kind = kind])
    /\ UNCHANGED <<backend, currentUser>>

(* A mutant of the next action: a null user goes on.                       *)
AnyUserReturns(c) ==
    /\ Answered(c, "choiceUser")
    /\ stay(Awaiting(c, "choiceData"))
    /\ UNCHANGED <<backend, currentUser>>

(* user.uid throws for a null user, outside every try.                     *)
ChoiceUserReturns(c) ==
    /\ Answered(c, "choiceUser")
    /\ stay(IF calls[c].user = NULL THEN Finished(c)
                                    ELSE Awaiting(c, "choiceData"))
    /\ UNCHANGED <<backend, currentUser>>

(* A mutant of the next definition: any profile is read as a worker's.     *)
AnyProfile(kind, rec) == rec # NULL

(* Worker.fromDB needs the sub-objects only a Worker has; Client.fromDB    *)
(* reads any profile; both throw when there is none.                       *)
FromDB(kind, rec) == rec # NULL /\ (kind = "Worker" => rec.kind = "Worker")

(* The profile was read: it becomes the current user, and then, if the     *)
(* page is still there, the main page replaces everything.                 *)
ProfileRead(c) ==
    LET user == [calls[c].rec EXCEPT !.kind = calls[c].kind] IN
    /\ currentUser' = user
    /\ IF calls[c].mounted
       THEN pushAndRemoveUntil(MainRoute(user.kind, user), Finished(c))
       ELSE stay(Finished(c))

(* It could not be: workerChoice() catches this and calls success(false),  *)
(* clientChoice() does not.                                                *)
ProfileNotRead(c) ==
    /\ IF calls[c].kind = "Worker" /\ calls[c].mounted
       THEN pushAndRemoveUntil(NewRoute("WorkerComplement", NULL), Finished(c))
       ELSE stay(Finished(c))
    /\ UNCHANGED currentUser

(* An error of once() itself is thrown outside every try.                  *)
ChoiceDataReturns(c) ==
    /\ Answered(c, "choiceData")
    /\ \/ ~Succeeded(c) /\ stay(Finished(c)) /\ UNCHANGED currentUser
       \/ /\ Succeeded(c) /\ FromDB(calls[c].kind, calls[c].rec)
          /\ ProfileRead(c)
       \/ /\ Succeeded(c) /\ ~FromDB(calls[c].kind, calls[c].rec)
          /\ ProfileNotRead(c)
    /\ UNCHANGED backend

-----------------------------------------------------------------------------
(* MainClient.dart, MainWorker.dart and their first tabs HomeClient.dart   *)
(* and HomeWorker.dart.                                                    *)

(* The image listener: _load becomes false and the page is built, which    *)
(* reads the name of the current user.  There is nothing to load for an    *)
(* empty imageUrl.                                                         *)
HomeImageLoaded ==
    /\ stack[1].page = "Main" /\ stack[1].status = "loading" /\ stack[1].pic
    /\ stack' = WithStatus(1, IF GetsCurrent(currentUser, stack[1].kind)
                              THEN "shown" ELSE "error")
    /\ UNCHANGED <<backend, currentUser, calls>>

(* _onItemTapped: the second tab is a text; the first is created anew.     *)
SecondTab ==
    /\ Top.page = "Main" /\ Top.status # "tab"
    /\ stack' = WithStatus(Len(stack), "tab")
    /\ UNCHANGED <<backend, currentUser, calls>>

FirstTab ==
    /\ TopIs("Main", "tab")
    /\ stack' = Append(Below, MainRoute(Top.kind, currentUser))
    /\ UNCHANGED <<backend, currentUser, calls>>

Configuracoes ==
    /\ TopIs("Main", "shown")
    /\ push(NewRoute("MenuConfig", NULL), calls)
    /\ UNCHANGED <<backend, currentUser>>

-----------------------------------------------------------------------------
(* MenuConfig.dart *)

MudarVisao ==
    /\ TopIs("MenuConfig", "form")
    /\ push(NewRoute("UserChoice", NULL), calls)
    /\ UNCHANGED <<backend, currentUser>>

(* SAIR DO APP: the page shows no progress and can be tapped again.        *)
SairClicked ==
    /\ TopIs("MenuConfig", "form")
    /\ \E c \in CallIds :
          /\ IsFree(c)
          /\ calls' = [calls EXCEPT ![c] = NewCall("signOut", Len(stack))]
    /\ UNCHANGED <<backend, currentUser, stack>>

(* A mutant of the next action: the pages below Home stay.                 *)
PushesHome(c) ==
    /\ Answered(c, "signOut") /\ calls[c].mounted
    /\ push(HomeRoute, Finished(c))
    /\ UNCHANGED <<backend, currentUser>>

(* logOut() leaves currentUser as it is; the new Home checks the session.  *)
SignOutReturns(c) ==
    /\ Answered(c, "signOut")
    /\ IF calls[c].mounted
       THEN /\ stack' = <<HomeRoute>>
            /\ calls' = [Detached(calls, 0) EXCEPT ![c] = HomeCheck]
       ELSE stay(Finished(c))
    /\ UNCHANGED <<backend, currentUser>>

-----------------------------------------------------------------------------
(* The platform *)

(* The back button or gesture pops any page, also one that is loading.     *)
Back ==
    /\ Len(stack) > 1
    /\ pop
    /\ UNCHANGED <<backend, currentUser>>

(* A transition ends: the State of a removed page is disposed, and         *)
(* whatever its continuations do with it from now on throws.               *)
Removed(c, page) == calls[c].at = 0 /\ PageOf[calls[c].await] = page

Dispose(page) ==
    /\ \E c \in Outstanding : Removed(c, page) /\ calls[c].mounted
    /\ calls' = [c \in CallIds |->
                    IF c \in Outstanding /\ Removed(c, page)
                    THEN [calls[c] EXCEPT !.mounted = FALSE] ELSE calls[c]]
    /\ UNCHANGED <<backend, currentUser, stack>>

(* The app starts (main.dart): only Home exists, and checks the session.   *)
StartCalls(c) == [d \in CallIds |-> IF d = c THEN HomeCheck ELSE NULL]

(* The process dies and the app is started again: the singleton is empty   *)
(* and outstanding calls have no continuation any more, while Firebase     *)
(* persists the session.                                                   *)
Relaunch ==
    /\ currentUser' = NULL
    /\ stack' = <<HomeRoute>>
    /\ \E c \in CallIds : calls' = StartCalls(c)
    /\ UNCHANGED backend
=============================================================================
