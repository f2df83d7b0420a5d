---------------------------- MODULE FoliumProofs ----------------------------
(***************************************************************************)
(* What holds of Folium for any number of accounts and of outstanding      *)
(* calls.                                                                  *)
(***************************************************************************)
EXTENDS Folium, SequenceTheorems, TLAPS

-----------------------------------------------------------------------------
(* The operators that the actions are built from keep the types. *)

(* A finished continuation leaves the other calls as they are.             *)
LEMMA FinishedOK ==
    ASSUME CallsOK(calls), NEW c \in CallIds
    PROVE  CallsOK(Finished(c))
BY DEF CallsOK, Finished

(* A handler's first await.                                                *)
LEMMA NewCallOK ==
    ASSUME CallsOK(calls), NEW c \in CallIds,
           NEW call \in Call, HasArgument(call)
    PROVE  CallsOK([calls EXCEPT ![c] = call])
BY DEF CallsOK

(* Pages that leave the stack change only where their calls are attached.  *)
LEMMA DetachedOK ==
    ASSUME NEW cs, CallsOK(cs), NEW n \in Nat
    PROVE  CallsOK(Detached(cs, n))
<1>1. \A c \in CallIds : cs[c] # NULL =>
         /\ [cs[c] EXCEPT !.at = 0] \in Call
         /\ HasArgument([cs[c] EXCEPT !.at = 0])
  BY DEF CallsOK, HasArgument, Call
<1>2. QED
  BY <1>1 DEF CallsOK, Detached

(* A stack with its types and its shape.                                   *)
GoodStack(stk) == StackOK(stk) /\ ShapeOK(stk)

(* Navigator.push of a page that may lie over the page at the bottom.      *)
LEMMA PushOK ==
    ASSUME GoodStack(stack), NEW route \in Route, HasProfile(route),
           route.page \notin {"Main", "Home"},
           stack[1].page = "Main" => route.page \in OverMain,
           route.page = "Terms" => Top.page = "SimpleRegister"
    PROVE  GoodStack(Append(stack, route))
<1>1. StackOK(Append(stack, route))
  BY DEF StackOK, GoodStack
<1>2. Len(stack) \in Nat \ {0} /\ stack \in Seq(Route)
  BY DEF StackOK, GoodStack
<1>3. /\ DOMAIN Append(stack, route) = 1 .. Len(stack) + 1
      /\ \A n \in 1 .. Len(stack) : Append(stack, route)[n] = stack[n]
      /\ Append(stack, route)[Len(stack) + 1] = route
  BY <1>2, AppendProperties
<1>4. ShapeOK(Append(stack, route))
  BY <1>2, <1>3 DEF GoodStack, ShapeOK, Top
<1>5. QED
  BY <1>1, <1>4 DEF GoodStack

(* A page that is alone on the stack.                                      *)
LEMMA RootOK ==
    ASSUME NEW route \in Route, HasProfile(route), route.page # "Terms"
    PROVE  GoodStack(<<route>>)
BY DEF StackOK, ShapeOK, GoodStack

(* The stack without its top route.                                        *)
LEMMA BelowOK ==
    ASSUME StackOK(stack)
    PROVE  /\ Below \in Seq(Route)
           /\ Len(Below) = Len(stack) - 1
           /\ DOMAIN Below = 1 .. Len(stack) - 1
           /\ \A n \in 1 .. Len(stack) - 1 : n \in DOMAIN stack /\ Below[n] = stack[n]
<1>1. Len(stack) \in Nat \ {0} /\ \A n \in 1 .. Len(stack) : stack[n] \in Route
  BY DEF StackOK
<1>2. /\ SubSeq(stack, 1, Len(stack) - 1) \in Seq(Route)
      /\ Len(SubSeq(stack, 1, Len(stack) - 1)) = Len(stack) - 1
      /\ \A n \in 1 .. Len(stack) - 1 :
            SubSeq(stack, 1, Len(stack) - 1)[n] = stack[n]
  BY <1>1, SubSeqProperties
<1>3. QED
  BY <1>1, <1>2 DEF Below, StackOK

(* Navigator.pushReplacement: only a stack of one becomes Main or Home.    *)
LEMMA ReplaceOK ==
    ASSUME GoodStack(stack), NEW route \in Route, HasProfile(route),
           route.page \in {"Main", "Home"} => Len(stack) = 1,
           Len(stack) > 1 /\ stack[1].page = "Main" => route.page \in OverMain,
           route.page # "Terms"
    PROVE  GoodStack(Append(Below, route))
<1> DEFINE new == Append(Below, route)
<1>1. Len(stack) \in Nat \ {0} /\ StackOK(stack) /\ ShapeOK(stack)
  BY DEF StackOK, GoodStack
<1>2. /\ new \in Seq(Route) /\ new # <<>>
      /\ DOMAIN new = 1 .. Len(stack)
      /\ \A n \in 1 .. Len(stack) - 1 : new[n] = stack[n]
      /\ new[Len(stack)] = route
  <2>1. /\ Below \in Seq(Route) /\ Len(Below) = Len(stack) - 1
        /\ \A n \in 1 .. Len(stack) - 1 : Below[n] = stack[n]
    BY <1>1, BelowOK
  <2>2. /\ new \in Seq(Route) /\ new # <<>>
        /\ Len(new) = Len(Below) + 1
        /\ \A n \in 1 .. Len(Below) : new[n] = Below[n]
        /\ new[Len(Below) + 1] = route
    BY <2>1, AppendProperties
  <2> HIDE DEF new
  <2>3. QED
    BY <1>1, <2>1, <2>2
<1>3. \A n \in 1 .. Len(stack) : n \in DOMAIN stack
  BY <1>1 DEF StackOK
<1> HIDE DEF new
<1>4. StackOK(new)
  BY <1>1, <1>2, <1>3 DEF StackOK
<1>5. ShapeOK(new)
  <2> SUFFICES ASSUME NEW n \in 1 .. Len(stack)
               PROVE  /\ new[n].page \in {"Main", "Home"} => n = 1
                      /\ n > 1 /\ new[1].page = "Main" => new[n].page \in OverMain
                      /\ new[n].page = "Terms"
                            => n > 1 /\ new[n - 1].page = "SimpleRegister"
    BY <1>2 DEF ShapeOK
  <2>1. CASE n = Len(stack)
    BY <1>1, <1>2, <2>1
  <2>2. CASE n < Len(stack)
    BY <1>1, <1>2, <1>3, <2>2 DEF ShapeOK
  <2>3. QED
    BY <1>1, <2>1, <2>2
<1>6. QED
  BY <1>4, <1>5 DEF GoodStack, new

(* Navigator.pop and the back button uncover a stack of a good shape.      *)
LEMMA PopOK ==
    ASSUME GoodStack(stack), Len(stack) > 1
    PROVE  GoodStack(Below)
<1>1. Len(stack) \in Nat \ {0} /\ StackOK(stack) /\ ShapeOK(stack)
  BY DEF StackOK, GoodStack
<1>2. StackOK(Below)
  BY <1>1, BelowOK DEF StackOK
<1>3. ShapeOK(Below)
  BY <1>1, BelowOK DEF ShapeOK
<1>4. QED
  BY <1>2, <1>3 DEF GoodStack

(* setState changes nothing but the status of one page.                    *)
LEMMA StatusOK ==
    ASSUME NEW stk, GoodStack(stk), NEW n \in DOMAIN stk,
           NEW status \in {"form", "loading", "shown", "tab", "error"}
    PROVE  GoodStack([stk EXCEPT ![n].status = status])
<1> DEFINE route == [stk[n] EXCEPT !.status = status]
           new == [stk EXCEPT ![n] = route]
<1>1. stk[n] \in Route /\ HasProfile(stk[n]) /\ stk \in Seq(Route)
  BY DEF StackOK, GoodStack
<1>2. route \in Route /\ HasProfile(route) /\ route.page = stk[n].page
  BY <1>1 DEF Route, HasProfile
<1>3. n \in 1 .. Len(stk) /\ Len(stk) \in Nat
  BY <1>1
<1>4. [stk EXCEPT ![n].status = status] = new
  OBVIOUS
<1> HIDE DEF route
<1>5. /\ new \in Seq(Route) /\ Len(new) = Len(stk)
      /\ \A j \in 1 .. Len(stk) : new[j] = IF j = n THEN route ELSE stk[j]
  BY <1>1, <1>2, <1>3, ExceptSeq
<1> HIDE DEF new
<1>6. /\ DOMAIN new = DOMAIN stk /\ DOMAIN stk = 1 .. Len(stk)
      /\ \A j \in DOMAIN stk : new[j].page = stk[j].page /\ HasProfile(new[j])
  BY <1>1, <1>2, <1>5 DEF StackOK, GoodStack
<1>7. StackOK(new)
  BY <1>3, <1>5, <1>6 DEF StackOK
<1>8. ShapeOK(new)
  BY <1>3, <1>6 DEF ShapeOK, GoodStack
<1>9. QED
  BY <1>4, <1>7, <1>8 DEF GoodStack

(* setState of a page that is on the stack, or is gone.                    *)
LEMMA WithStatusOK ==
    ASSUME GoodStack(stack), NEW n \in Nat,
           NEW status \in {"form", "loading", "shown", "tab", "error"}
    PROVE  GoodStack(WithStatus(n, status))
<1>1. CASE n \in DOMAIN stack /\ n # 0
  BY <1>1, StatusOK DEF WithStatus
<1>2. CASE n \notin DOMAIN stack \/ n = 0
  <2>1. WithStatus(n, status) = stack
    BY <1>2 DEF WithStatus, GoodStack, StackOK
  <2>2. QED
    BY <2>1
<1>3. QED
  BY <1>1, <1>2

(* The names of the awaits, spelled out for the provers.                   *)
LEMMA AwaitsAre ==
    Awaits = {"checkUserLogged", "signIn", "choiceUser", "choiceData",
              "signOut", "createUser", "putFile", "getDownloadURL",
              "sendClient", "sendWorker", "sendReference"}
BY DEF Awaits, PageOf

(* The first await of a handler carries no data yet.                       *)
LEMMA NewCallType ==
    ASSUME NEW await \in Awaits, NEW n \in Nat
    PROVE  NewCall(await, n) \in Call /\ NewCall(await, n).await = await
BY DEF NewCall, Call

(* A page that is opened knows the kind of user it is for.                 *)
LEMMA NewRouteOK ==
    ASSUME NEW page \in Pages, NEW kind \in Kinds \cup {NULL},
           page \in {"Main", "SimpleRegister"} => kind \in Kinds
    PROVE  /\ NewRoute(page, kind) \in Route
           /\ HasProfile(NewRoute(page, kind))
           /\ NewRoute(page, kind).page = page
BY DEF NewRoute, Route, HasProfile

(* The main page, whose home tab shows or misses the current user.         *)
LEMMA MainRouteOK ==
    ASSUME NEW kind \in Kinds, NEW user \in Record \cup {NULL}
    PROVE  /\ MainRoute(kind, user) \in Route
           /\ HasProfile(MainRoute(kind, user))
           /\ MainRoute(kind, user).page = "Main"
BY DEF MainRoute, Route, HasProfile, Record, GetsCurrent, Pages

(* The main page, Home, UserChoice or the complement takes over the stack. *)
LEMMA RemoveUntilOK ==
    ASSUME NEW cs, CallsOK(cs), NEW route \in Route, HasProfile(route),
           route.page # "Terms", pushAndRemoveUntil(route, cs)
    PROVE  GoodStack(stack') /\ CallsOK(calls')
BY RootOK, DetachedOK DEF pushAndRemoveUntil

(* A handler that shows its progress and starts to wait.                   *)
LEMMA AwaitLoadingOK ==
    ASSUME GoodStack(stack), CallsOK(calls), NEW n \in Nat,
           NEW call \in Call, HasArgument(call), AwaitLoading(n, call)
    PROVE  GoodStack(stack') /\ CallsOK(calls')
BY NewCallOK, WithStatusOK DEF AwaitLoading

(* The next await of a continuation.                                       *)
LEMMA AwaitingOK ==
    ASSUME CallsOK(calls), NEW c \in CallIds, calls[c] # NULL,
           NEW await \in Awaits,
           HasArgument([calls[c] EXCEPT !.await = await])
    PROVE  CallsOK(Awaiting(c, await))
<1> DEFINE call == [calls[c] EXCEPT !.await = await, !.answer = "pending"]
<1>1. call \in Call
  BY DEF CallsOK, Call
<1>2. HasArgument(call)
  BY DEF CallsOK, Call, HasArgument
<1>3. Awaiting(c, await) = [calls EXCEPT ![c] = call]
  BY DEF Awaiting, CallsOK
<1> HIDE DEF call
<1>4. QED
  BY <1>1, <1>2, <1>3, NewCallOK

-----------------------------------------------------------------------------
(* Types and the shape of the stack.  They go together: the terms dialog   *)
(* registers with the form below it, so that form has to be there.         *)

TypeInv == TypeOK /\ StackShape

(* The process starts with Home and its check of the session.              *)
LEMMA StartOK ==
    ASSUME NEW c \in CallIds
    PROVE  CallsOK(StartCalls(c)) /\ GoodStack(<<HomeRoute>>)
<1>1. HomeCheck \in Call /\ HasArgument(HomeCheck)
  BY AwaitsAre, NewCallType DEF HomeCheck, HasArgument
<1>2. HomeRoute \in Route /\ HasProfile(HomeRoute) /\ HomeRoute.page = "Home"
  BY NewRouteOK DEF HomeRoute, Pages
<1>3. CallsOK(StartCalls(c))
  BY <1>1 DEF StartCalls, CallsOK
<1>4. QED
  BY <1>2, <1>3, RootOK

(* The first state, before anybody has an account.                         *)
LEMMA TypeInit == Init => TypeInv
<1> SUFFICES ASSUME Init PROVE TypeInv
  OBVIOUS
<1>1. GoodStack(stack) /\ CallsOK(calls)
  BY StartOK DEF Init
<1>2. QED
  BY <1>1 DEF Init, TypeInv, TypeOK, StackShape, GoodStack, Record

(* The facts about the page on top that the actions start from.            *)
LEMMA TopFacts ==
    ASSUME TypeInv
    PROVE  /\ Len(stack) \in Nat \ {0} /\ DOMAIN stack = 1 .. Len(stack)
           /\ Top \in Route /\ HasProfile(Top)
           /\ Top.page \in {"Main", "Home"} => Len(stack) = 1
           /\ Top.page \notin OverMain => stack[1].page # "Main" \/ Top.page = "Main"
           /\ GoodStack(stack) /\ StackOK(stack) /\ CallsOK(calls)
<1>1. StackOK(stack) /\ ShapeOK(stack) /\ CallsOK(calls)
  BY DEF TypeInv, TypeOK, StackShape
<1>2. /\ Len(stack) \in Nat \ {0} /\ DOMAIN stack = 1 .. Len(stack)
      /\ Top \in Route /\ HasProfile(Top)
  BY <1>1 DEF StackOK, Top
<1>3. QED
  BY <1>1, <1>2 DEF ShapeOK, Top, GoodStack

(* The actions of the person holding the phone.                            *)
LEMMA TypeTap == TypeInv /\ Tap => TypeInv'
<1> SUFFICES ASSUME TypeInv, Tap PROVE TypeInv'
  OBVIOUS
<1>0. /\ Len(stack) \in Nat \ {0} /\ DOMAIN stack = 1 .. Len(stack)
      /\ Top \in Route /\ HasProfile(Top)
      /\ Top.page \in {"Main", "Home"} => Len(stack) = 1
      /\ Top.page \notin OverMain => stack[1].page # "Main" \/ Top.page = "Main"
      /\ GoodStack(stack) /\ StackOK(stack) /\ CallsOK(calls)
  BY TopFacts
<1>a. ASSUME UNCHANGED <<backend, currentUser>>, GoodStack(stack'), CallsOK(calls')
      PROVE  TypeInv'
  BY <1>a DEF TypeInv, TypeOK, StackShape, GoodStack, backend
<1>b. ASSUME NEW page \in OverMain \cup {"Login", "UserChoiceRegister",
                                         "SimpleRegister", "Terms"},
             NEW kind \in Kinds \cup {NULL},
             page = "SimpleRegister" => kind \in Kinds,
             page = "Terms" => Top.page = "SimpleRegister",
             page \notin OverMain => Top.page \notin OverMain \cup {"Main"},
             push(NewRoute(page, kind), calls), UNCHANGED <<backend, currentUser>>
      PROVE  TypeInv'
  <2> DEFINE route == NewRoute(page, kind)
  <2>1. page \in Pages /\ page \notin {"Main", "Home"}
    BY DEF OverMain, Pages
  <2>2. route \in Route /\ HasProfile(route) /\ route.page = page
    BY <1>b, <2>1, NewRouteOK
  <2>3. stack' = Append(stack, route) /\ calls' = calls
    BY <1>b DEF push
  <2> HIDE DEF route
  <2>4. GoodStack(stack')
    BY <1>0, <1>b, <2>1, <2>2, <2>3, PushOK
  <2>5. QED
    BY <1>0, <1>a, <1>b, <2>3, <2>4
<1>1. CASE Participe
  BY <1>1, <1>b DEF Participe, TopIs, OverMain
<1>2. ASSUME NEW u \in Users, LoginClicked(u) PROVE TypeInv'
  <2> DEFINE new == NewCall("signIn", Len(stack))
             call == [new EXCEPT !.user = u]
  <2>1. new \in Call /\ new.await = "signIn"
    BY <1>0, AwaitsAre, NewCallType
  <2>2. AwaitLoading(Len(stack), call) /\ UNCHANGED <<backend, currentUser>>
    BY <1>2 DEF LoginClicked
  <2> HIDE DEF new
  <2>3. call \in Call /\ HasArgument(call)
    BY <2>1 DEF Call, HasArgument
  <2> HIDE DEF call
  <2>4. QED
    BY <1>0, <1>a, <2>2, <2>3, AwaitLoadingOK
<1>3. CASE Cadastre
  BY <1>3, <1>b DEF Cadastre, TopIs, OverMain
<1>4. ASSUME NEW kind \in Kinds, ChoiceClicked(kind) PROVE TypeInv'
  <2> DEFINE new == NewCall("choiceUser", Len(stack))
             call == [new EXCEPT !.kind = kind]
  <2>1. new \in Call /\ new.await = "choiceUser"
    BY <1>0, AwaitsAre, NewCallType
  <2>2. AwaitLoading(Len(stack), call) /\ UNCHANGED <<backend, currentUser>>
    BY <1>4 DEF ChoiceClicked
  <2> HIDE DEF new
  <2>3. call \in Call /\ HasArgument(call)
    BY <2>1 DEF Call, HasArgument
  <2> HIDE DEF call
  <2>4. QED
    BY <1>0, <1>a, <2>2, <2>3, AwaitLoadingOK
<1>5. CASE SecondTab
  BY <1>0, <1>5, <1>a, WithStatusOK DEF SecondTab
<1>6. CASE FirstTab
  <2>1. Top.kind \in Kinds /\ Len(stack) = 1
    BY <1>0, <1>6 DEF FirstTab, TopIs, HasProfile
  <2>2. currentUser \in Record \cup {NULL}
    BY DEF TypeInv, TypeOK
  <2>3. GoodStack(Append(Below, MainRoute(Top.kind, currentUser)))
    BY <1>0, <2>1, <2>2, MainRouteOK, ReplaceOK
  <2>4. QED
    BY <1>0, <1>6, <1>a, <2>3 DEF FirstTab
<1>7. CASE Configuracoes
  BY <1>7, <1>b DEF Configuracoes, OverMain
<1>8. CASE MudarVisao
  BY <1>8, <1>b DEF MudarVisao, OverMain
<1>9. CASE SairClicked
  <2>1. /\ NewCall("signOut", Len(stack)) \in Call
        /\ HasArgument(NewCall("signOut", Len(stack)))
    BY <1>0, AwaitsAre, NewCallType DEF HasArgument
  <2>2. QED
    BY <1>0, <1>9, <1>a, <2>1, NewCallOK DEF SairClicked
<1>10. ASSUME NEW kind \in Kinds, TypeChosen(kind) PROVE TypeInv'
  BY <1>10, <1>b DEF TypeChosen, TopIs, OverMain
<1>11. CASE RegisterClicked
  BY <1>11, <1>b DEF RegisterClicked, TopIs, OverMain
<1>12. CASE TermsCancelled
  <2>1. Len(stack) > 1
    BY <1>0, <1>12 DEF TermsCancelled, TopIs, Top, GoodStack, ShapeOK
  <2>2. GoodStack(stack') /\ CallsOK(calls')
    BY <1>0, <1>12, <2>1, PopOK, DetachedOK DEF TermsCancelled, pop
  <2>3. QED
    BY <1>12, <1>a, <2>2 DEF TermsCancelled
<1>13. ASSUME NEW u \in Users, NEW pic \in Pictures, TermsAgreed(u, pic)
       PROVE  TypeInv'
  <2> DEFINE n == Len(stack) - 1
             new == NewCall("createUser", n)
             rec == [kind |-> stack[n].kind, uid |-> u, image |-> pic]
             call == [new EXCEPT !.rec = rec]
  <2>1. n \in Nat \ {0} /\ n \in DOMAIN stack /\ stack[n].kind \in Kinds
    BY <1>0, <1>13 DEF TermsAgreed, TopIs, Top, GoodStack, ShapeOK, StackOK, HasProfile
  <2>2. new \in Call /\ new.await = "createUser"
    BY <2>1, AwaitsAre, NewCallType
  <2>3. rec \in Record
    BY <2>1, PicturesAreChoices DEF Record
  <2>4. /\ stack' = [Below EXCEPT ![n].status = "loading"]
        /\ \E c \in CallIds : calls' = [calls EXCEPT ![c] = call]
        /\ UNCHANGED <<backend, currentUser>>
    BY <1>13 DEF TermsAgreed, RegisterCall
  <2> HIDE DEF new, rec
  <2>5. call \in Call /\ HasArgument(call)
    BY <2>2, <2>3 DEF Call, HasArgument
  <2> HIDE DEF call
  <2>6. CallsOK(calls')
    BY <1>0, <2>4, <2>5, NewCallOK
  <2>7. n \in DOMAIN Below /\ GoodStack(Below)
    BY <1>0, <2>1, BelowOK, PopOK
  <2>8. GoodStack(stack')
    BY <2>4, <2>7, StatusOK
  <2>9. QED
    BY <1>a, <2>4, <2>6, <2>8
<1>14. CASE ConcluirClicked
  <2> DEFINE new == NewCall("sendWorker", Len(stack))
             call == [new EXCEPT !.rec = currentUser]
  <2>1. CASE GetsCurrent(currentUser, "Worker")
    <3>1. new \in Call /\ new.await = "sendWorker"
      BY <1>0, AwaitsAre, NewCallType
    <3>2. AwaitLoading(Len(stack), call) /\ UNCHANGED <<backend, currentUser>>
      BY <1>14, <2>1 DEF ConcluirClicked
    <3>3. currentUser \in Record
      BY <2>1 DEF GetsCurrent, TypeInv, TypeOK
    <3> HIDE DEF new
    <3>4. call \in Call /\ HasArgument(call)
      BY <3>1, <3>3 DEF Call, HasArgument
    <3> HIDE DEF call
    <3>5. QED
      BY <1>0, <1>a, <3>2, <3>4, AwaitLoadingOK
  <2>2. CASE ~GetsCurrent(currentUser, "Worker")
    BY <1>0, <1>14, <1>a, <2>2, WithStatusOK DEF ConcluirClicked
  <2>3. QED
    BY <2>1, <2>2
<1>15. QED
  BY <1>1, <1>2, <1>3, <1>4, <1>5, <1>6, <1>7, <1>8, <1>9, <1>10, <1>11,
     <1>12, <1>13, <1>14 DEF Tap

(* Back, the end of a transition and a new process keep the types.         *)
LEMMA TypePlatform == TypeInv /\ Platform => TypeInv'
<1> SUFFICES ASSUME TypeInv, Platform PROVE TypeInv'
  OBVIOUS
<1>0. /\ Len(stack) \in Nat \ {0} /\ GoodStack(stack) /\ CallsOK(calls)
  BY TopFacts
<1>a. ASSUME UNCHANGED backend, currentUser' \in {currentUser, NULL},
             GoodStack(stack'), CallsOK(calls')
      PROVE  TypeInv'
  BY <1>a DEF TypeInv, TypeOK, StackShape, GoodStack, backend
<1>1. CASE Back
  BY <1>0, <1>1, <1>a, PopOK, DetachedOK DEF Back, pop
<1>2. CASE Relaunch
  BY <1>2, <1>a, StartOK DEF Relaunch
<1>3. CASE HomeImageLoaded
  <2>1. GoodStack(stack')
    BY <1>0, <1>3, WithStatusOK DEF HomeImageLoaded
  <2>2. QED
    BY <1>0, <1>3, <1>a, <2>1 DEF HomeImageLoaded
<1>4. ASSUME NEW page \in Pages, Dispose(page) PROVE TypeInv'
  <2>1. \A c \in CallIds : calls[c] # NULL =>
           /\ [calls[c] EXCEPT !.mounted = FALSE] \in Call
           /\ HasArgument([calls[c] EXCEPT !.mounted = FALSE])
    BY <1>0 DEF CallsOK, HasArgument, Call
  <2>2. CallsOK(calls')
    BY <1>0, <1>4, <2>1 DEF Dispose, CallsOK, Outstanding
  <2>3. QED
    BY <1>0, <1>4, <1>a, <2>2 DEF Dispose
<1>5. QED
  BY <1>1, <1>2, <1>3, <1>4 DEF Platform

(* An answer of Firebase, alone or with what was asked for.                *)
LEMMA ReplyOK ==
    ASSUME CallsOK(calls), NEW c \in CallIds, calls[c] # NULL,
           NEW answer \in {"pending", "ok", "error"}
    PROVE  /\ CallsOK([calls EXCEPT ![c].answer = answer])
           /\ \A u \in Users \cup {NULL} :
                 calls[c].await \in {"checkUserLogged", "choiceUser"}
                    => CallsOK([calls EXCEPT ![c].answer = answer, ![c].user = u])
           /\ \A r \in Record \cup {NULL} :
                 calls[c].await = "choiceData"
                    => CallsOK([calls EXCEPT ![c].answer = answer, ![c].rec = r])
<1>1. calls[c] \in Call /\ HasArgument(calls[c])
  BY DEF CallsOK
<1>2. CallsOK([calls EXCEPT ![c].answer = answer])
  <2> DEFINE call == [calls[c] EXCEPT !.answer = answer]
  <2>1. call \in Call /\ HasArgument(call)
    BY <1>1 DEF Call, HasArgument
  <2>2. [calls EXCEPT ![c].answer = answer] = [calls EXCEPT ![c] = call]
    OBVIOUS
  <2> HIDE DEF call
  <2>3. QED
    BY <2>1, <2>2, NewCallOK
<1>3. ASSUME NEW u \in Users \cup {NULL},
             calls[c].await \in {"checkUserLogged", "choiceUser"}
      PROVE  CallsOK([calls EXCEPT ![c].answer = answer, ![c].user = u])
  <2> DEFINE call == [calls[c] EXCEPT !.answer = answer, !.user = u]
  <2>1. call \in Call /\ HasArgument(call)
    BY <1>1, <1>3 DEF Call, HasArgument
  <2>2. [calls EXCEPT ![c].answer = answer, ![c].user = u]
           = [calls EXCEPT ![c] = call]
    BY DEF CallsOK
  <2> HIDE DEF call
  <2>3. QED
    BY <2>1, <2>2, NewCallOK
<1>4. ASSUME NEW r \in Record \cup {NULL}, calls[c].await = "choiceData"
      PROVE  CallsOK([calls EXCEPT ![c].answer = answer, ![c].rec = r])
  <2> DEFINE call == [calls[c] EXCEPT !.answer = answer, !.rec = r]
  <2>1. call \in Call /\ HasArgument(call)
    BY <1>1, <1>4 DEF Call, HasArgument
  <2>2. [calls EXCEPT ![c].answer = answer, ![c].rec = r]
           = [calls EXCEPT ![c] = call]
    BY DEF CallsOK
  <2> HIDE DEF call
  <2>3. QED
    BY <2>1, <2>2, NewCallOK
<1>5. QED
  BY <1>2, <1>3, <1>4

(* Answers of Firebase keep the types and the stack.                       *)
LEMMA TypeServe ==
    ASSUME TypeInv, NEW c \in CallIds, ServeAuth(c) \/ ServeStores(c)
    PROVE  TypeInv'
<1>0. /\ CallsOK(calls) /\ calls[c] # NULL
      /\ calls[c] \in Call /\ HasArgument(calls[c])
  BY DEF TypeInv, TypeOK, CallsOK, ServeAuth, ServeStores, Pending
<1>1. UNCHANGED <<currentUser, stack>>
  BY DEF ServeAuth, ServeStores
<1>2. CallsOK(calls')
      /\ accounts' \in SUBSET Users /\ signedIn' \in Users \cup {NULL}
      /\ data' \in [Users -> Record \cup {NULL}]
      /\ index' \in SUBSET Users /\ images' \in SUBSET Users
  <2> USE <1>0 DEF TypeInv, TypeOK
  <2>1. CASE ServeCurrentUser(c)
    BY <2>1, ReplyOK DEF ServeCurrentUser, backend
  <2>2. CASE ServeSignIn(c)
    BY <2>2, ReplyOK DEF ServeSignIn, Reply, HasArgument
  <2>3. CASE ServeSignOut(c)
    BY <2>3, ReplyOK DEF ServeSignOut, Reply
  <2>4. CASE ServeCreateUser(c)
    BY <2>4, ReplyOK DEF ServeCreateUser, Reply, HasArgument, Record
  <2>5. CASE ServeOnce(c)
    <3>1. calls[c].await = "choiceData" /\ data[calls[c].user] \in Record \cup {NULL}
      BY <2>5 DEF ServeOnce, HasArgument
    <3>2. CallsOK(calls')
      <4> DEFINE rec == data[calls[c].user]
      <4>1. CallsOK([calls EXCEPT ![c].answer = "ok", ![c].rec = rec])
        <5> HIDE DEF rec
        <5>1. rec \in Record \cup {NULL}
          BY <3>1 DEF rec
        <5>2. QED
          BY <3>1, <5>1, ReplyOK
      <4>2. CallsOK([calls EXCEPT ![c].answer = "error"])
        BY ReplyOK
      <4>3. QED
        BY <2>5, <4>1, <4>2 DEF ServeOnce, Reply
    <3>3. QED
      BY <2>5, <3>2 DEF ServeOnce, backend
  <2>6. CASE ServePutFile(c)
    BY <2>6, ReplyOK DEF ServePutFile, Reply, HasArgument, Record
  <2>7. CASE ServeGetDownloadURL(c)
    BY <2>7, ReplyOK DEF ServeGetDownloadURL, Reply, backend
  <2>8. CASE ServeSendUser(c)
    BY <2>8, ReplyOK DEF ServeSendUser, Reply, HasArgument, Record, DataPath
  <2>9. CASE ServeSendReference(c)
    BY <2>9, ReplyOK DEF ServeSendReference, Reply, HasArgument, Record
  <2>10. QED
    BY <2>1, <2>2, <2>3, <2>4, <2>5, <2>6, <2>7, <2>8, <2>9
    DEF ServeAuth, ServeStores
<1>3. QED
  BY <1>1, <1>2 DEF TypeInv, TypeOK, StackShape

(* The continuations.                                                      *)
LEMMA TypeResume ==
    ASSUME TypeInv, NEW c \in CallIds, Resume(c)
    PROVE  TypeInv'
<1>0. /\ calls[c] # NULL /\ calls[c] \in Call /\ HasArgument(calls[c])
      /\ CallsOK(calls) /\ GoodStack(stack)
      /\ Len(stack) \in Nat \ {0} /\ DOMAIN stack = 1 .. Len(stack)
  <2>1. calls[c] # NULL
    BY DEF Resume, Answered, CheckReturns, LoginReturns, ChoiceUserReturns,
           ChoiceDataReturns, SignOutReturns, CreateUserReturns,
           PutFileReturns, GetDownloadURLReturns, SendClientReturns,
           SendWorkerReturns, SendReferenceReturns
  <2>2. QED
    BY <2>1, TopFacts DEF CallsOK
<1>a. ASSUME UNCHANGED backend, currentUser' \in Record \cup {NULL},
             GoodStack(stack'), CallsOK(calls')
      PROVE  TypeInv'
  BY <1>a DEF TypeInv, TypeOK, StackShape, GoodStack, backend
<1>b. CallsOK(Finished(c))
  BY <1>0, FinishedOK
<1>c. currentUser \in Record \cup {NULL}
  BY DEF TypeInv, TypeOK
<1>d. /\ NewRoute("UserChoice", NULL) \in Route
      /\ HasProfile(NewRoute("UserChoice", NULL))
      /\ NewRoute("UserChoice", NULL).page = "UserChoice"
      /\ NewRoute("WorkerComplement", NULL) \in Route
      /\ HasProfile(NewRoute("WorkerComplement", NULL))
      /\ NewRoute("WorkerComplement", NULL).page = "WorkerComplement"
  BY NewRouteOK DEF Pages
<1>e. ASSUME stay(Finished(c)) PROVE GoodStack(stack') /\ CallsOK(calls')
  BY <1>0, <1>b, <1>e DEF stay
<1>f. ASSUME calls[c].rec \in Record, UserRegistered(c),
             calls[c].await \in {"createUser", "getDownloadURL"}
      PROVE  /\ currentUser' \in Record \cup {NULL}
             /\ GoodStack(stack') /\ CallsOK(calls')
  <2>1. CASE calls[c].rec.kind = "Client"
    <3>1. HasArgument([calls[c] EXCEPT !.await = "sendClient"])
      BY <1>0, <1>f DEF Call, HasArgument
    <3>2. CallsOK(Awaiting(c, "sendClient"))
      BY <1>0, <3>1, AwaitsAre, AwaitingOK
    <3>3. QED
      BY <1>0, <1>c, <1>f, <2>1, <3>2 DEF UserRegistered, stay
  <2>2. CASE calls[c].rec.kind = "Worker"
    <3>1. CASE push(NewRoute("WorkerComplement", NULL), Finished(c))
      <4>1. GoodStack(Append(stack, NewRoute("WorkerComplement", NULL)))
        BY <1>0, <1>d, PushOK DEF OverMain
      <4>2. QED
        BY <1>b, <1>f, <2>2, <3>1, <4>1 DEF UserRegistered, push
    <3>2. CASE stay(Finished(c))
      BY <1>e, <1>f, <2>2, <3>2 DEF UserRegistered
    <3>3. QED
      BY <1>f, <2>2, <3>1, <3>2 DEF UserRegistered
  <2>3. QED
    BY <1>f, <2>1, <2>2 DEF UserRegistered
<1>g. ASSUME RegistrationFailed(c)
      PROVE  /\ currentUser' \in Record \cup {NULL}
             /\ GoodStack(stack') /\ CallsOK(calls')
  BY <1>c, <1>e, <1>g DEF RegistrationFailed
<1>h. ASSUME NEW kind \in Kinds, NEW user \in Record \cup {NULL},
             pushAndRemoveUntil(MainRoute(kind, user), Finished(c))
      PROVE  GoodStack(stack') /\ CallsOK(calls')
  BY <1>b, <1>h, MainRouteOK, RemoveUntilOK
<1>1. CASE CheckReturns(c)
  <2>1. CASE pushReplacement(NewRoute("UserChoice", NULL), Finished(c))
    <3>1. GoodStack(Append(Below, NewRoute("UserChoice", NULL)))
      BY <1>0, <1>d, ReplaceOK DEF OverMain
    <3>2. CallsOK(Detached(Finished(c), Len(stack) - 1))
      BY <1>0, <1>b, DetachedOK
    <3>3. QED
      BY <1>1, <1>a, <1>c, <2>1, <3>1, <3>2 DEF CheckReturns, pushReplacement
  <2>2. CASE stay(Finished(c))
    BY <1>1, <1>a, <1>c, <1>e, <2>2 DEF CheckReturns
  <2>3. QED
    BY <1>1, <2>1, <2>2 DEF CheckReturns
<1>2. CASE LoginReturns(c)
  <2>1. CASE pushAndRemoveUntil(NewRoute("UserChoice", NULL), Finished(c))
    BY <1>2, <1>a, <1>b, <1>c, <1>d, <2>1, RemoveUntilOK DEF LoginReturns
  <2>2. CASE stay(Finished(c))
    BY <1>2, <1>a, <1>c, <1>e, <2>2 DEF LoginReturns
  <2>3. CASE LoginFailed(c)
    <3>1. calls[c].at \in Nat
      BY <1>0 DEF Call
    <3>2. GoodStack(stack') /\ CallsOK(calls')
      BY <1>0, <1>b, <2>3, <3>1, WithStatusOK DEF LoginFailed
    <3>3. QED
      BY <1>2, <1>a, <1>c, <3>2 DEF LoginReturns
  <2>4. QED
    BY <1>2, <2>1, <2>2, <2>3 DEF LoginReturns
<1>3. CASE ChoiceUserReturns(c)
  <2>1. CASE calls[c].user = NULL
    BY <1>3, <1>a, <1>c, <1>e, <2>1 DEF ChoiceUserReturns
  <2>2. CASE calls[c].user # NULL
    <3>1. HasArgument([calls[c] EXCEPT !.await = "choiceData"])
      BY <1>0, <1>3, <2>2 DEF Call, HasArgument, ChoiceUserReturns, Answered
    <3>2. CallsOK(Awaiting(c, "choiceData"))
      BY <1>0, <3>1, AwaitsAre, AwaitingOK
    <3>3. QED
      BY <1>0, <1>3, <1>a, <1>c, <2>2, <3>2 DEF ChoiceUserReturns, stay
  <2>3. QED
    BY <2>1, <2>2
<1>4. CASE ChoiceDataReturns(c)
  <2>1. CASE stay(Finished(c)) /\ UNCHANGED currentUser
    BY <1>4, <1>a, <1>c, <1>e, <2>1 DEF ChoiceDataReturns
  <2>2. CASE FromDB(calls[c].kind, calls[c].rec) /\ ProfileRead(c)
    <3> DEFINE user == [calls[c].rec EXCEPT !.kind = calls[c].kind]
    <3>1. user \in Record /\ user.kind \in Kinds
      BY <1>0, <1>4, <2>2
      DEF FromDB, ChoiceDataReturns, Answered, HasArgument, Call, Record
    <3>2. /\ currentUser' = user
          /\ \/ pushAndRemoveUntil(MainRoute(user.kind, user), Finished(c))
             \/ stay(Finished(c))
      BY <2>2 DEF ProfileRead
    <3> HIDE DEF user
    <3>3. GoodStack(stack') /\ CallsOK(calls')
      BY <1>e, <1>h, <3>1, <3>2
    <3>4. QED
      BY <1>4, <1>a, <3>1, <3>2, <3>3 DEF ChoiceDataReturns
  <2>3. CASE ProfileNotRead(c)
    <3>1. GoodStack(stack') /\ CallsOK(calls')
      BY <1>b, <1>d, <1>e, <2>3, RemoveUntilOK DEF ProfileNotRead
    <3>2. QED
      BY <1>4, <1>a, <1>c, <2>3, <3>1 DEF ChoiceDataReturns, ProfileNotRead
  <2>4. QED
    BY <1>4, <2>1, <2>2, <2>3 DEF ChoiceDataReturns
<1>5. CASE SignOutReturns(c)
  <2>1. CASE calls[c].mounted
    <3> DEFINE cs == Detached(calls, 0)
    <3>1. CallsOK(cs)
      BY <1>0, DetachedOK
    <3>2. HomeCheck \in Call /\ HasArgument(HomeCheck)
      BY AwaitsAre, NewCallType DEF HomeCheck, HasArgument
    <3>3. stack' = <<HomeRoute>> /\ calls' = [cs EXCEPT ![c] = HomeCheck]
      BY <1>5, <2>1 DEF SignOutReturns
    <3> HIDE DEF cs
    <3>4. CallsOK(calls')
      BY <3>1, <3>2, <3>3 DEF CallsOK
    <3>5. QED
      BY <1>5, <1>a, <1>c, <3>3, <3>4, StartOK DEF SignOutReturns
  <2>2. CASE ~calls[c].mounted
    BY <1>5, <1>a, <1>c, <1>e, <2>2 DEF SignOutReturns
  <2>3. QED
    BY <2>1, <2>2
<1>6. CASE CreateUserReturns(c)
  <2>1. calls[c].rec \in Record /\ calls[c].await = "createUser"
    BY <1>0, <1>6 DEF CreateUserReturns, Answered, HasArgument
  <2>2. CASE stay(Awaiting(c, "putFile")) /\ UNCHANGED currentUser
    <3>1. HasArgument([calls[c] EXCEPT !.await = "putFile"])
      BY <1>0, <2>1 DEF Call, HasArgument
    <3>2. CallsOK(Awaiting(c, "putFile"))
      BY <1>0, <3>1, AwaitsAre, AwaitingOK
    <3>3. QED
      BY <1>0, <1>6, <1>a, <1>c, <2>2, <3>2 DEF CreateUserReturns, stay
  <2>3. CASE RegistrationFailed(c) \/ UserRegistered(c)
    BY <1>6, <1>a, <1>f, <1>g, <2>1, <2>3 DEF CreateUserReturns
  <2>4. QED
    BY <1>6, <2>2, <2>3 DEF CreateUserReturns
<1>7. CASE PutFileReturns(c)
  <2>1. HasArgument([calls[c] EXCEPT !.await = "getDownloadURL"])
    BY <1>0, <1>7 DEF PutFileReturns, Answered, Call, HasArgument
  <2>2. CallsOK(Awaiting(c, "getDownloadURL"))
    BY <1>0, <2>1, AwaitsAre, AwaitingOK
  <2>3. QED
    BY <1>0, <1>7, <1>a, <1>c, <2>2 DEF PutFileReturns, stay
<1>8. CASE GetDownloadURLReturns(c)
  <2>1. calls[c].rec \in Record /\ calls[c].await = "getDownloadURL"
    BY <1>0, <1>8 DEF GetDownloadURLReturns, Answered, HasArgument
  <2>2. QED
    BY <1>8, <1>a, <1>f, <1>g, <2>1 DEF GetDownloadURLReturns
<1>9. CASE SendClientReturns(c)
  <2>1. calls[c].rec \in Record
    BY <1>0, <1>9 DEF SendClientReturns, Answered, HasArgument
  <2>2. GoodStack(stack') /\ CallsOK(calls')
    BY <1>9, <1>e, <1>h, <2>1 DEF SendClientReturns, Kinds
  <2>3. QED
    BY <1>9, <1>a, <2>1, <2>2 DEF SendClientReturns
<1>10. CASE SendWorkerReturns(c)
  <2> DEFINE cs == Awaiting(c, "sendReference")
             call == [cs[c] EXCEPT !.sent = Succeeded(c)]
  <2>1. HasArgument([calls[c] EXCEPT !.await = "sendReference"])
    BY <1>0, <1>10 DEF SendWorkerReturns, Answered, Call, HasArgument
  <2>2. CallsOK(cs) /\ cs[c] \in Call /\ HasArgument(cs[c])
    <3>1. CallsOK(cs)
      BY <1>0, <2>1, AwaitsAre, AwaitingOK
    <3>2. cs[c] = [calls[c] EXCEPT !.await = "sendReference", !.answer = "pending"]
      BY <1>0 DEF Awaiting, CallsOK
    <3>3. QED
      BY <1>0, <2>1, <3>1, <3>2, AwaitsAre DEF Call, HasArgument
  <2>3. calls' = [cs EXCEPT ![c].sent = Succeeded(c)] /\ UNCHANGED stack
    BY <1>10 DEF SendWorkerReturns, stay
  <2>4. Succeeded(c) \in BOOLEAN
    BY DEF Succeeded
  <2> HIDE DEF cs
  <2>5. call \in Call /\ HasArgument(call)
    BY <2>2, <2>4 DEF Call, HasArgument
  <2>6. calls' = [cs EXCEPT ![c] = call]
    BY <2>3
  <2> HIDE DEF call
  <2>7. CallsOK(calls')
    BY <2>2, <2>5, <2>6 DEF CallsOK
  <2>8. QED
    BY <1>0, <1>10, <1>a, <1>c, <2>3, <2>7 DEF SendWorkerReturns
<1>11. CASE SendReferenceReturns(c)
  <2>1. GoodStack(stack') /\ CallsOK(calls')
    BY <1>11, <1>c, <1>e, <1>h DEF SendReferenceReturns, Kinds
  <2>2. QED
    BY <1>11, <1>a, <1>c, <2>1 DEF SendReferenceReturns
<1>12. QED
  BY <1>1, <1>2, <1>3, <1>4, <1>5, <1>6, <1>7, <1>8, <1>9, <1>10, <1>11
  DEF Resume

(* Every step of the app, the platform and Firebase.                       *)
LEMMA TypeStep == TypeInv /\ [Next]_vars => TypeInv'
<1> SUFFICES ASSUME TypeInv, [Next]_vars PROVE TypeInv'
  OBVIOUS
<1>1. CASE UNCHANGED vars
  BY <1>1 DEF vars, TypeInv, TypeOK, StackShape
<1>2. CASE Next
  BY <1>2, TypeTap, TypePlatform, TypeServe, TypeResume DEF Next
<1>3. QED
  BY <1>1, <1>2

(* Typing and the shape of the stack are one inductive invariant.          *)
LEMMA TypeAlways == Spec => []TypeInv
BY TypeInit, TypeStep, PTL DEF Spec

(* Every reachable state is well typed and every call has its argument,    *)
(* for any number of accounts and of overlapping calls.                    *)
THEOREM TypeCorrect == Spec => []TypeOK
<1>1. TypeInv => TypeOK
  BY DEF TypeInv
<1>2. QED
  BY <1>1, TypeAlways, PTL

(* The Navigator's stack has one of the shapes that the pages are written  *)
(* for, whichever continuations navigate late.                             *)
THEOREM ShapesKept == Spec => []StackShape
<1>1. TypeInv => StackShape
  BY DEF TypeInv
<1>2. QED
  BY <1>1, TypeAlways, PTL
=============================================================================
