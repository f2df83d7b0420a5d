-------------------------- MODULE SubmissionProofs --------------------------
(***************************************************************************)
(* Pages and the calls that wait for them, for any number of both: no page *)
(* submits twice, and Login shows its progress only while it waits.        *)
(***************************************************************************)
EXTENDS FoliumProofs

(* Submissions, for a stack and the calls that go with it.                 *)
WaitOK(stk, cs, c) ==
    cs[c] # NULL =>
       /\ cs[c].at \in 0 .. Len(stk)
       /\ ~cs[c].mounted => cs[c].at = 0
       /\ cs[c].at # 0 =>
             LET route == stk[cs[c].at] IN
             /\ route.page = PageOf[cs[c].await]
             /\ route.page \notin {"Home", "MenuConfig"} =>
                   /\ route.status = "loading"
                   /\ \A d \in CallIds :
                         cs[d] # NULL /\ cs[d].at = cs[c].at => d = c

PageOK(stk, cs, n) ==
    /\ n > 1 /\ stk[n].page = "Terms" => stk[n - 1].status = "form"
    /\ stk[n].page = "Login" /\ stk[n].status = "loading"
          => \E c \in CallIds : cs[c] # NULL /\ cs[c].at = n

SubOK(stk, cs) ==
    /\ \A c \in CallIds : WaitOK(stk, cs, c)
    /\ \A n \in 1 .. Len(stk) : PageOK(stk, cs, n)

Calls == [CallIds -> Call \cup {NULL}]

-----------------------------------------------------------------------------
(* What the operators on the stack and on the calls do to SubOK *)

LEMMA SubIs ==
    ASSUME TypeInv
    PROVE  Submissions <=> SubOK(stack, calls)
<1>1. DOMAIN stack = 1 .. Len(stack) /\ Len(stack) \in Nat /\ calls \in Calls
  BY TopFacts DEF CallsOK, Calls
<1>2. \A c \in CallIds : calls[c] # NULL => calls[c].at \in Nat
  BY <1>1 DEF Calls, Call
<1>3. Attached /\ OneSubmission <=> \A c \in CallIds : WaitOK(stack, calls, c)
  BY <1>1, <1>2 DEF Attached, OneSubmission, Waits, WaitOK
<1>4. TermsOverForm /\ LoginProgress
         <=> \A n \in 1 .. Len(stack) : PageOK(stack, calls, n)
  BY <1>1 DEF TermsOverForm, LoginProgress, Progress, Busy, Waits, PageOK
<1>5. QED
  BY <1>3, <1>4 DEF Submissions, SubOK

(* The pages that await something.                                         *)
LEMMA AwaitingPages ==
    ASSUME NEW await \in Awaits
    PROVE  PageOf[await] \in {"Home", "Login", "UserChoice", "MenuConfig",
                              "SimpleRegister", "WorkerComplement"}
BY AwaitsAre DEF PageOf

(* A page opens on top.                                                    *)
LEMMA SubPush ==
    ASSUME NEW stk \in Seq(Route), NEW cs \in Calls, SubOK(stk, cs),
           NEW route \in Route,
           route.page = "Login" => route.status # "loading",
           route.page = "Terms" /\ Len(stk) > 0 => stk[Len(stk)].status = "form"
    PROVE  SubOK(Append(stk, route), cs)
<1> DEFINE new == Append(stk, route)
<1>1. /\ new \in Seq(Route) /\ Len(new) = Len(stk) + 1 /\ Len(stk) \in Nat
      /\ \A n \in 1 .. Len(stk) : new[n] = stk[n]
      /\ new[Len(stk) + 1] = route
  OBVIOUS
<1> HIDE DEF new
<1>2. \A c \in CallIds : WaitOK(new, cs, c)
  BY <1>1 DEF SubOK, WaitOK
<1>3. ASSUME NEW n \in 1 .. Len(new) PROVE PageOK(new, cs, n)
  <2>1. CASE n = Len(stk) + 1
    BY <1>1, <2>1 DEF PageOK
  <2>2. CASE n \in 1 .. Len(stk)
    BY <1>1, <2>2 DEF SubOK, PageOK
  <2>3. QED
    BY <1>1, <2>1, <2>2
<1>4. QED
  BY <1>2, <1>3 DEF SubOK, new

(* The pages above position n leave the stack.                             *)
LEMMA SubCut ==
    ASSUME NEW stk \in Seq(Route), NEW cs \in Calls, SubOK(stk, cs),
           NEW n \in 0 .. Len(stk)
    PROVE  /\ SubSeq(stk, 1, n) \in Seq(Route) /\ Len(SubSeq(stk, 1, n)) = n
           /\ \A k \in 1 .. n : SubSeq(stk, 1, n)[k] = stk[k]
           /\ Detached(cs, n) \in Calls
           /\ SubOK(SubSeq(stk, 1, n), Detached(cs, n))
<1> DEFINE new == SubSeq(stk, 1, n)
           ds == Detached(cs, n)
<1>0. Len(stk) \in Nat /\ \A k \in 1 .. n : stk[k] \in Route
  OBVIOUS
<1>1. /\ new \in Seq(Route) /\ Len(new) = n
      /\ \A k \in 1 .. n : new[k] = stk[k]
  BY <1>0, SubSeqProperties
<1>2. \A c \in CallIds : cs[c] # NULL =>
         /\ cs[c] \in Call /\ cs[c].at \in Nat
         /\ [cs[c] EXCEPT !.at = 0] \in Call
         /\ [cs[c] EXCEPT !.at = 0].at = 0
  BY DEF Calls, Call
<1>3. ds \in Calls
  BY <1>2 DEF Detached, Calls
<1>4. \A c \in CallIds :
         /\ ds[c] # NULL <=> cs[c] # NULL
         /\ cs[c] # NULL => \/ ds[c] = cs[c] /\ cs[c].at <= n
                            \/ ds[c].at = 0 /\ cs[c].at > n
  BY <1>2, NullIsNoCall DEF Detached
<1> HIDE DEF new, ds
<1>5. ASSUME NEW c \in CallIds PROVE WaitOK(new, ds, c)
  <2>1. SUFFICES ASSUME ds[c] # NULL, ds[c] = cs[c], cs[c].at <= n
                 PROVE  WaitOK(new, ds, c)
    BY <1>1, <1>4 DEF WaitOK
  <2>2. /\ cs[c].at \in Nat
        /\ \A d \in CallIds : ds[d] # NULL /\ ds[d].at = ds[c].at /\ ds[c].at # 0
              => cs[d] # NULL /\ cs[d].at = cs[c].at
    BY <2>1, <1>2, <1>4
  <2>3. WaitOK(stk, cs, c)
    BY DEF SubOK
  <2>4. QED
    BY <1>0, <1>1, <2>1, <2>2, <2>3 DEF WaitOK
<1>6. ASSUME NEW k \in 1 .. Len(new) PROVE PageOK(new, ds, k)
  <2>1. PageOK(stk, cs, k) /\ k \in 1 .. n
    BY <1>0, <1>1 DEF SubOK
  <2>2. \A c \in CallIds : cs[c] # NULL /\ cs[c].at = k
           => ds[c] # NULL /\ ds[c].at = k
    BY <2>1, <1>4
  <2>3. k > 1 => k - 1 \in 1 .. n
    BY <2>1
  <2>4. QED
    BY <1>1, <2>1, <2>2, <2>3 DEF PageOK
<1>7. QED
  BY <1>1, <1>3, <1>5, <1>6 DEF SubOK, new, ds

(* A continuation of a page other than Login, or of none, ends.            *)
LEMMA SubEnds ==
    ASSUME NEW stk \in Seq(Route), NEW cs \in Calls, SubOK(stk, cs),
           NEW c \in CallIds, cs[c] # NULL,
           PageOf[cs[c].await] # "Login" \/ cs[c].at = 0
    PROVE  SubOK(stk, [cs EXCEPT ![c] = NULL])
<1> DEFINE ds == [cs EXCEPT ![c] = NULL]
<1>1. ds[c] = NULL /\ \A d \in CallIds \ {c} : ds[d] = cs[d]
  BY DEF Calls
<1> HIDE DEF ds
<1>2. \A d \in CallIds : WaitOK(stk, ds, d)
  BY <1>1 DEF SubOK, WaitOK
<1>3. ASSUME NEW n \in 1 .. Len(stk) PROVE PageOK(stk, ds, n)
  <2>1. PageOK(stk, cs, n) /\ WaitOK(stk, cs, c)
    BY DEF SubOK
  <2>2. stk[n].page = "Login" => cs[c].at # n
    BY <2>1 DEF WaitOK
  <2>3. QED
    BY <1>1, <2>1, <2>2 DEF PageOK
<1>4. QED
  BY <1>2, <1>3 DEF SubOK, ds

(* A call is answered, or followed by the next one of the same page, or    *)
(* its page is disposed: it waits for the page that it waited for.         *)
LEMMA SubSame ==
    ASSUME NEW stk \in Seq(Route), NEW cs \in Calls, SubOK(stk, cs), NEW ds,
           \A c \in CallIds : ds[c] # NULL <=> cs[c] # NULL,
           \A c \in CallIds : cs[c] # NULL =>
              /\ ds[c].at = cs[c].at
              /\ ds[c].mounted = cs[c].mounted \/ cs[c].at = 0
              /\ PageOf[ds[c].await] = PageOf[cs[c].await]
    PROVE  SubOK(stk, ds)
<1>1. \A c \in CallIds : WaitOK(stk, ds, c)
  BY DEF SubOK, WaitOK
<1>2. \A n \in 1 .. Len(stk) : PageOK(stk, ds, n)
  BY DEF SubOK, PageOK
<1>3. QED
  BY <1>1, <1>2 DEF SubOK

(* The form on top is submitted.                                           *)
LEMMA SubLoading ==
    ASSUME NEW stk \in Seq(Route), Len(stk) > 0,
           NEW cs \in Calls, SubOK(stk, cs), NEW c \in CallIds, cs[c] = NULL,
           NEW call \in Call, call.at = Len(stk), call.mounted,
           stk[Len(stk)].page = PageOf[call.await],
           stk[Len(stk)].page \notin {"Home", "MenuConfig"},
           stk[Len(stk)].status = "form"
    PROVE  SubOK([stk EXCEPT ![Len(stk)].status = "loading"],
                 [cs EXCEPT ![c] = call])
<1> DEFINE top == Len(stk)
           new == [stk EXCEPT ![top].status = "loading"]
           ds == [cs EXCEPT ![c] = call]
<1>1. /\ Len(new) = top /\ top \in Nat \ {0}
      /\ new[top].page = stk[top].page /\ new[top].status = "loading"
      /\ \A n \in 1 .. top - 1 : new[n] = stk[n]
  BY DEF Route
<1>2. /\ ds[c] = call /\ call # NULL
      /\ \A d \in CallIds \ {c} : ds[d] = cs[d]
  BY NullIsNoCall DEF Calls
<1>3. \A d \in CallIds : cs[d] # NULL => cs[d].at \in 0 .. top - 1
  BY <1>1 DEF SubOK, WaitOK
<1> HIDE DEF new, ds, top
<1>4. ASSUME NEW d \in CallIds PROVE WaitOK(new, ds, d)
  <2>1. CASE d = c
    <3>1. \A e \in CallIds : ds[e] # NULL /\ ds[e].at = top => e = c
      BY <1>1, <1>2, <1>3
    <3>2. QED
      BY <1>1, <1>2, <2>1, <3>1 DEF WaitOK, top
  <2>2. CASE d # c
    <3>1. WaitOK(stk, cs, d)
      BY DEF SubOK
    <3>2. cs[d] # NULL => ds[c].at # cs[d].at
      BY <1>1, <1>2, <1>3 DEF top
    <3>3. QED
      BY <1>1, <1>2, <1>3, <2>2, <3>1, <3>2 DEF WaitOK, top
  <2>3. QED
    BY <2>1, <2>2
<1>5. ASSUME NEW n \in 1 .. top PROVE PageOK(new, ds, n)
  <2>1. PageOK(stk, cs, n)
    BY DEF SubOK, top
  <2>2. CASE n = top
    BY <1>1, <1>2, <2>1, <2>2 DEF PageOK, top
  <2>3. CASE n < top
    <3>1. n \in 1 .. top - 1 /\ (n > 1 => n - 1 \in 1 .. top - 1)
      BY <1>1, <2>3
    <3>2. QED
      BY <1>1, <1>2, <2>1, <3>1 DEF PageOK
  <2>4. QED
    BY <1>1, <2>2, <2>3
<1>6. QED
  BY <1>1, <1>4, <1>5 DEF SubOK, new, ds, top

(* Another look of page k: no call waits for it, it is not a Login that    *)
(* starts to load, and no dialog is above it.                              *)
LEMMA SubLook ==
    ASSUME NEW stk \in Seq(Route), NEW new \in Seq(Route), Len(new) = Len(stk),
           NEW cs \in Calls, SubOK(stk, cs), NEW k \in 1 .. Len(stk),
           \A n \in 1 .. Len(stk) \ {k} : new[n] = stk[n],
           new[k].page = stk[k].page,
           \A c \in CallIds : cs[c] # NULL => cs[c].at # k,
           stk[k].page = "Login" => new[k].status # "loading",
           k < Len(stk) => stk[k + 1].page # "Terms"
    PROVE  SubOK(new, cs)
<1>0. Len(stk) \in Nat
  OBVIOUS
<1>1. \A c \in CallIds : WaitOK(new, cs, c)
  BY <1>0 DEF SubOK, WaitOK
<1>2. ASSUME NEW n \in 1 .. Len(stk) PROVE PageOK(new, cs, n)
  <2>1. PageOK(stk, cs, n)
    BY DEF SubOK
  <2>2. CASE n = k
    BY <2>1, <2>2 DEF PageOK
  <2>3. CASE n = k + 1
    BY <2>1, <2>3 DEF PageOK
  <2>4. CASE n # k /\ n # k + 1
    <3>1. n > 1 => n - 1 \in 1 .. Len(stk) \ {k}
      BY <1>0, <2>4
    <3>2. QED
      BY <2>1, <2>4, <3>1 DEF PageOK
  <2>5. QED
    BY <2>2, <2>3, <2>4
<1>3. QED
  BY <1>1, <1>2 DEF SubOK

(* Navigator.pushReplacement                                               *)
LEMMA SubReplaced ==
    ASSUME TypeInv, NEW cs \in Calls, SubOK(stack, cs), NEW route \in Route,
           route.page \notin {"Login", "Terms"}, pushReplacement(route, cs)
    PROVE  SubOK(stack', calls')
<1> DEFINE n == Len(stack) - 1
<1>1. Len(stack) \in Nat \ {0} /\ stack \in Seq(Route)
  BY TopFacts DEF StackOK
<1>2. n \in 0 .. Len(stack)
  BY <1>1
<1>3. /\ Below = SubSeq(stack, 1, n) /\ Below \in Seq(Route)
      /\ Detached(cs, n) \in Calls /\ SubOK(Below, Detached(cs, n))
  BY <1>1, <1>2, SubCut DEF Below
<1> HIDE DEF n
<1>4. SubOK(Append(Below, route), Detached(cs, n))
  BY <1>3, SubPush
<1>5. QED
  BY <1>4 DEF pushReplacement, n

(* A single page, and no call that waits for a page.                       *)
LEMMA SubAlone ==
    ASSUME NEW route \in Route, route.page # "Login", NEW cs,
           \A c \in CallIds : cs[c] # NULL => cs[c].at = 0
    PROVE  SubOK(<<route>>, cs)
BY DEF SubOK, WaitOK, PageOK

(* Navigator.pushAndRemoveUntil: nothing waits for a page any more.        *)
LEMMA DetachedAll ==
    ASSUME NEW cs \in Calls, NEW c \in CallIds, Detached(cs, 0)[c] # NULL
    PROVE  Detached(cs, 0)[c].at = 0
<1>1. cs[c] # NULL
  BY DEF Detached
<1>2. cs[c] \in Call /\ cs[c].at \in Nat
  BY <1>1 DEF Calls, Call
<1>3. [cs[c] EXCEPT !.at = 0].at = 0
  BY <1>2 DEF Call
<1>4. QED
  BY <1>1, <1>2, <1>3 DEF Detached

LEMMA SubUntil ==
    ASSUME NEW cs \in Calls, NEW route \in Route, route.page # "Login",
           pushAndRemoveUntil(route, cs)
    PROVE  SubOK(stack', calls')
BY DetachedAll, SubAlone DEF pushAndRemoveUntil

(* Home, alone, and its check of the session.                              *)
LEMMA SubHome ==
    ASSUME NEW cs, NEW c \in CallIds, cs[c] = HomeCheck,
           \A d \in CallIds \ {c} : cs[d] # NULL => cs[d].at = 0
    PROVE  SubOK(<<HomeRoute>>, cs)
<1>1. /\ HomeCheck.at = 1 /\ HomeCheck.mounted
      /\ HomeCheck.await = "checkUserLogged"
      /\ PageOf["checkUserLogged"] = "Home" /\ HomeRoute.page = "Home"
  BY DEF HomeCheck, NewCall, HomeRoute, NewRoute, PageOf
<1>2. \A d \in CallIds : WaitOK(<<HomeRoute>>, cs, d)
  BY <1>1 DEF WaitOK
<1>3. \A n \in 1 .. Len(<<HomeRoute>>) : PageOK(<<HomeRoute>>, cs, n)
  BY <1>1 DEF PageOK
<1>4. QED
  BY <1>2, <1>3 DEF SubOK

(* No call waits for a page that awaits nothing.                           *)
LEMMA NobodyWaits ==
    ASSUME TypeInv, SubOK(stack, calls), NEW n \in 1 .. Len(stack),
           stack[n].page \notin {"Home", "Login", "UserChoice", "MenuConfig",
                                 "SimpleRegister", "WorkerComplement"}
    PROVE  \A c \in CallIds : calls[c] # NULL => calls[c].at # n
<1> SUFFICES ASSUME NEW c \in CallIds, calls[c] # NULL, calls[c].at = n
             PROVE  FALSE
  OBVIOUS
<1>1. calls[c].await \in Awaits
  BY TopFacts DEF CallsOK, Call
<1>2. stack[n].page = PageOf[calls[c].await]
  BY TopFacts DEF SubOK, WaitOK
<1>3. QED
  BY <1>1, <1>2, AwaitingPages

-----------------------------------------------------------------------------
(* The actions *)

SubNow == SubOK(stack, calls)
SubInv == TypeInv /\ SubOK(stack, calls)

LEMMA SubFacts ==
    ASSUME SubInv
    PROVE  /\ TypeInv /\ SubOK(stack, calls) /\ GoodStack(stack) /\ CallsOK(calls)
           /\ stack \in Seq(Route) /\ calls \in Calls
           /\ Len(stack) \in Nat \ {0} /\ DOMAIN stack = 1 .. Len(stack)
           /\ Top \in Route /\ Top = stack[Len(stack)]
BY TopFacts DEF SubInv, StackOK, CallsOK, Calls, Top

(* setState of the page at position n.                                     *)
LEMMA StatusFacts ==
    ASSUME stack \in Seq(Route), NEW n \in 1 .. Len(stack),
           NEW status \in {"form", "loading", "shown", "tab", "error"}
    PROVE  /\ WithStatus(n, status) \in Seq(Route)
           /\ Len(WithStatus(n, status)) = Len(stack)
           /\ \A k \in 1 .. Len(stack) \ {n} : WithStatus(n, status)[k] = stack[k]
           /\ WithStatus(n, status)[n].page = stack[n].page
           /\ WithStatus(n, status)[n].status = status
<1> DEFINE route == [stack[n] EXCEPT !.status = status]
           new == WithStatus(n, status)
<1>0. stack[n] \in Route
  OBVIOUS
<1>1. /\ route \in Route /\ route.page = stack[n].page
      /\ route.status = status
  BY <1>0 DEF Route
<1>2. new = [stack EXCEPT ![n] = route]
  BY DEF WithStatus
<1> HIDE DEF route, new
<1>3. /\ new \in Seq(Route) /\ Len(new) = Len(stack)
      /\ \A k \in 1 .. Len(stack) : new[k] = IF k = n THEN route ELSE stack[k]
  BY <1>1, <1>2, ExceptSeq
<1>4. QED
  BY <1>1, <1>3 DEF new

(* A handler of the page on top that shows its progress.                   *)
LEMMA SubAwaits ==
    ASSUME SubInv, Top.status = "form",
           NEW call \in Call, call.at = Len(stack), call.mounted,
           Top.page = PageOf[call.await],
           Top.page \notin {"Home", "MenuConfig"},
           AwaitLoading(Len(stack), call)
    PROVE  SubOK(stack', calls')
<1>1. /\ SubOK(stack, calls) /\ stack \in Seq(Route) /\ calls \in Calls
      /\ Len(stack) \in Nat \ {0} /\ Top = stack[Len(stack)]
  BY SubFacts
<1>2. stack' = [stack EXCEPT ![Len(stack)].status = "loading"]
  BY <1>1 DEF AwaitLoading, WithStatus
<1>3. PICK c \in CallIds : calls[c] = NULL /\ calls' = [calls EXCEPT ![c] = call]
  BY DEF AwaitLoading, IsFree
<1>4. SubOK([stack EXCEPT ![Len(stack)].status = "loading"],
            [calls EXCEPT ![c] = call])
  <2>1. Len(stack) > 0
    BY <1>1
  <2>2. QED
    BY <1>1, <1>3, <2>1, SubLoading
<1>5. QED
  BY <1>2, <1>3, <1>4

LEMMA SubTap == SubInv /\ Tap => SubOK(stack', calls')
<1> SUFFICES ASSUME SubInv, Tap PROVE SubOK(stack', calls')
  OBVIOUS
<1>0. /\ TypeInv /\ SubOK(stack, calls) /\ GoodStack(stack) /\ CallsOK(calls)
      /\ stack \in Seq(Route) /\ calls \in Calls
      /\ Len(stack) \in Nat \ {0} /\ DOMAIN stack = 1 .. Len(stack)
      /\ Top \in Route /\ Top = stack[Len(stack)]
  BY SubFacts
<1>p. ASSUME NEW page \in Pages, NEW kind \in Kinds \cup {NULL},
             page \in {"Main", "SimpleRegister"} => kind \in Kinds,
             push(NewRoute(page, kind), calls), Top.status = "form" \/ page # "Terms"
      PROVE  SubOK(stack', calls')
  <2>1. /\ NewRoute(page, kind) \in Route /\ NewRoute(page, kind).page = page
        /\ NewRoute(page, kind).status = "form"
    BY <1>p, NewRouteOK DEF NewRoute
  <2>2. SubOK(Append(stack, NewRoute(page, kind)), calls)
    BY <1>0, <1>p, <2>1, SubPush
  <2>3. QED
    BY <1>p, <2>2 DEF push
<1>1. CASE Participe \/ Cadastre \/ Configuracoes \/ MudarVisao
              \/ RegisterClicked \/ \E kind \in Kinds : TypeChosen(kind)
  <2>1. {"Login", "UserChoiceRegister", "MenuConfig", "UserChoice", "Terms",
         "SimpleRegister"} \subseteq Pages
    BY DEF Pages
  <2>2. CASE Participe \/ Cadastre \/ Configuracoes \/ MudarVisao
    BY <1>p, <2>1, <2>2 DEF Participe, Cadastre, Configuracoes, MudarVisao
  <2>3. CASE RegisterClicked
    BY <1>p, <2>1, <2>3 DEF RegisterClicked, TopIs
  <2>4. CASE \E kind \in Kinds : TypeChosen(kind)
    BY <1>p, <2>1, <2>4 DEF TypeChosen
  <2>5. QED
    BY <1>1, <2>2, <2>3, <2>4
<1>2. ASSUME NEW u \in Users, LoginClicked(u) PROVE SubOK(stack', calls')
  <2> DEFINE call == [NewCall("signIn", Len(stack)) EXCEPT !.user = u]
  <2>1. /\ call \in Call /\ call.at = Len(stack) /\ call.mounted
        /\ call.await = "signIn"
    BY <1>0, AwaitsAre DEF NewCall, Call
  <2>2. /\ Top.page = PageOf["signIn"] /\ Top.page \notin {"Home", "MenuConfig"}
        /\ Top.status = "form" /\ AwaitLoading(Len(stack), call)
    BY <1>2 DEF LoginClicked, TopIs, PageOf
  <2> HIDE DEF call
  <2>3. QED
    BY <2>1, <2>2, SubAwaits
<1>3. ASSUME NEW kind \in Kinds, ChoiceClicked(kind) PROVE SubOK(stack', calls')
  <2> DEFINE call == [NewCall("choiceUser", Len(stack)) EXCEPT !.kind = kind]
  <2>1. /\ call \in Call /\ call.at = Len(stack) /\ call.mounted
        /\ call.await = "choiceUser"
    BY <1>0, AwaitsAre DEF NewCall, Call
  <2>2. /\ Top.page = PageOf["choiceUser"]
        /\ Top.page \notin {"Home", "MenuConfig"}
        /\ Top.status = "form" /\ AwaitLoading(Len(stack), call)
    BY <1>3 DEF ChoiceClicked, TopIs, PageOf
  <2> HIDE DEF call
  <2>3. QED
    BY <2>1, <2>2, SubAwaits
<1>l. ASSUME NEW new \in Seq(Route), Len(new) = Len(stack), Top.page # "Login",
             \A n \in 1 .. Len(stack) - 1 : new[n] = stack[n],
             new[Len(stack)].page = Top.page,
             \A c \in CallIds : calls[c] # NULL => calls[c].at # Len(stack)
      PROVE  SubOK(new, calls)
  BY <1>0, <1>l, SubLook
<1>m. Top.page = "Main" =>
         \A c \in CallIds : calls[c] # NULL => calls[c].at # Len(stack)
  BY <1>0, NobodyWaits
<1>4. CASE ConcluirClicked
  <2>1. CASE GetsCurrent(currentUser, "Worker")
    <3> DEFINE call == [NewCall("sendWorker", Len(stack)) EXCEPT !.rec = currentUser]
    <3>1. /\ call \in Call /\ call.at = Len(stack) /\ call.mounted
          /\ call.await = "sendWorker"
      BY <1>0, <2>1, AwaitsAre DEF NewCall, Call, TypeInv, TypeOK
    <3>2. /\ Top.page = PageOf["sendWorker"]
          /\ Top.page \notin {"Home", "MenuConfig"}
          /\ Top.status = "form" /\ AwaitLoading(Len(stack), call)
      BY <1>4, <2>1 DEF ConcluirClicked, TopIs, PageOf
    <3> HIDE DEF call
    <3>3. QED
      BY <3>1, <3>2, SubAwaits
  <2>2. CASE ~GetsCurrent(currentUser, "Worker")
    <3>1. /\ Top.page = "WorkerComplement" /\ Top.status = "form"
          /\ stack' = WithStatus(Len(stack), "loading") /\ calls' = calls
      BY <1>4, <2>2 DEF ConcluirClicked, TopIs
    <3>2. Len(stack) \in 1 .. Len(stack)
      BY <1>0
    <3>3. /\ stack' \in Seq(Route) /\ Len(stack') = Len(stack)
          /\ \A n \in 1 .. Len(stack) - 1 : stack'[n] = stack[n]
          /\ stack'[Len(stack)].page = Top.page
      BY <1>0, <3>1, <3>2, StatusFacts
    <3>4. \A c \in CallIds : calls[c] # NULL => calls[c].at # Len(stack)
      BY <1>0, <3>1 DEF SubOK, WaitOK
    <3>5. SubOK(stack', calls)
      BY <1>l, <3>1, <3>3, <3>4
    <3>6. QED
      BY <3>1, <3>5
  <2>3. QED
    BY <2>1, <2>2
<1>6. CASE SecondTab
  <2>1. /\ stack' = WithStatus(Len(stack), "tab")
        /\ calls' = calls /\ Top.page = "Main"
    BY <1>6 DEF SecondTab
  <2>2. Len(stack) \in 1 .. Len(stack)
    BY <1>0
  <2>3. /\ stack' \in Seq(Route) /\ Len(stack') = Len(stack)
        /\ \A n \in 1 .. Len(stack) - 1 : stack'[n] = stack[n]
        /\ stack'[Len(stack)].page = "Main"
    BY <1>0, <2>1, <2>2, StatusFacts
  <2>4. QED
    BY <1>l, <1>m, <2>1, <2>3
<1>7. CASE FirstTab
  <2>1. /\ Below \in Seq(Route) /\ Len(Below) = Len(stack) - 1
        /\ \A n \in 1 .. Len(stack) - 1 : Below[n] = stack[n]
    BY <1>0, BelowOK DEF GoodStack
  <2> DEFINE route == MainRoute(Top.kind, currentUser)
  <2>2. route \in Route /\ route.page = "Main" /\ Top.page = "Main"
    BY <1>0, <1>7, TopFacts, MainRouteOK
       DEF FirstTab, TopIs, TypeInv, TypeOK, HasProfile
  <2>3. stack' = Append(Below, route) /\ calls' = calls
    BY <1>7 DEF FirstTab
  <2> HIDE DEF route
  <2>4. /\ stack' \in Seq(Route) /\ Len(stack') = Len(stack)
        /\ \A n \in 1 .. Len(stack) - 1 : stack'[n] = stack[n]
        /\ stack'[Len(stack)] = route
    <3>1. /\ Append(Below, route) \in Seq(Route)
          /\ Len(Append(Below, route)) = Len(Below) + 1
          /\ \A n \in 1 .. Len(Below) : Append(Below, route)[n] = Below[n]
          /\ Append(Below, route)[Len(Below) + 1] = route
      BY <2>1, <2>2, AppendProperties
    <3>2. QED
      BY <1>0, <2>1, <2>3, <3>1
  <2>5. QED
    BY <1>l, <1>m, <2>2, <2>3, <2>4
<1>8. CASE SairClicked
  <2>1. PICK c \in CallIds :
           /\ calls[c] = NULL
           /\ calls' = [calls EXCEPT ![c] = NewCall("signOut", Len(stack))]
    BY <1>8 DEF SairClicked, IsFree
  <2>2. /\ stack' = stack /\ stack[Len(stack)].page = "MenuConfig"
        /\ stack[Len(stack)].page = PageOf["signOut"]
    BY <1>0, <1>8 DEF SairClicked, TopIs, PageOf
  <2>3. /\ calls'[c].at = Len(stack) /\ calls'[c].mounted
        /\ calls'[c].await = "signOut"
        /\ \A d \in CallIds \ {c} : calls'[d] = calls[d]
    BY <1>0, <2>1 DEF NewCall, Calls
  <2>4. ASSUME NEW d \in CallIds PROVE WaitOK(stack, calls', d)
    <3>1. CASE d = c
      BY <1>0, <2>2, <2>3, <3>1 DEF WaitOK
    <3>2. CASE d # c
      <4>1. WaitOK(stack, calls, d)
        BY <1>0 DEF SubOK
      <4>2. QED
        BY <1>0, <2>2, <2>3, <3>2, <4>1 DEF WaitOK
    <3>3. QED
      BY <3>1, <3>2
  <2>5. \A n \in 1 .. Len(stack) : PageOK(stack, calls', n)
    BY <1>0, <2>1, <2>3 DEF SubOK, PageOK
  <2>6. QED
    BY <2>2, <2>4, <2>5 DEF SubOK
<1>9. CASE TermsCancelled
  <2>1. Len(stack) - 1 \in 0 .. Len(stack)
    BY <1>0
  <2>2. QED
    BY <1>0, <1>9, <2>1, SubCut DEF TermsCancelled, pop, Below
<1>10. ASSUME NEW u \in Users, NEW pic \in Pictures, TermsAgreed(u, pic)
       PROVE  SubOK(stack', calls')
  <2> DEFINE n == Len(stack) - 1
             call == RegisterCall(n, u, pic)
  <2>1. /\ Top.page = "Terms" /\ n \in 1 .. Len(stack) /\ n < Len(stack)
        /\ stack[n].page = "SimpleRegister"
    BY <1>0, <1>10 DEF TermsAgreed, TopIs, GoodStack, ShapeOK
  <2>2. stack[n].status = "form"
    BY <1>0, <2>1 DEF SubOK, PageOK
  <2>3. \A c \in CallIds : calls[c] # NULL => calls[c].at \in 0 .. n
    <3>1. \A c \in CallIds : calls[c] # NULL => calls[c].at # Len(stack)
      BY <1>0, <2>1, NobodyWaits
    <3>2. \A c \in CallIds : calls[c] # NULL => calls[c].at \in 0 .. Len(stack)
      BY <1>0 DEF SubOK, WaitOK
    <3>3. QED
      BY <1>0, <3>1, <3>2
  <2>4. Detached(calls, n) = calls
    BY <1>0, <2>3 DEF Detached, Calls
  <2>5. /\ Below \in Seq(Route) /\ Len(Below) = n /\ Below[n] = stack[n]
        /\ SubOK(Below, calls)
    BY <1>0, <2>1, <2>4, SubCut DEF Below
  <2>6. PICK c \in CallIds : calls[c] = NULL /\ calls' = [calls EXCEPT ![c] = call]
    BY <1>10 DEF TermsAgreed, IsFree
  <2>7. /\ call \in Call /\ call.at = n /\ call.mounted
        /\ call.await = "createUser"
    <3>1. stack[n].kind \in Kinds
      BY <1>0, <2>1 DEF GoodStack, StackOK, HasProfile
    <3>2. [kind |-> stack[n].kind, uid |-> u, image |-> pic] \in Record
      BY <3>1, PicturesAreChoices DEF Record
    <3>3. NewCall("createUser", n) \in Call /\ NewCall("createUser", n).at = n
      BY <2>1, AwaitsAre, NewCallType DEF NewCall
    <3>4. QED
      BY <3>2, <3>3, <2>1 DEF RegisterCall, NewCall, Call
  <2>8. stack' = [Below EXCEPT ![n].status = "loading"]
    BY <1>10 DEF TermsAgreed
  <2>9. Below[n].page = PageOf[call.await]
    BY <2>1, <2>5, <2>7 DEF PageOf
  <2>10. /\ Len(Below) > 0 /\ n = Len(Below) /\ Below[n].status = "form"
         /\ Below[n].page \notin {"Home", "MenuConfig"}
    BY <2>1, <2>2, <2>5
  <2> HIDE DEF n, call
  <2>11. SubOK([Below EXCEPT ![Len(Below)].status = "loading"],
               [calls EXCEPT ![c] = call])
    BY <1>0, <2>5, <2>6, <2>7, <2>9, <2>10, SubLoading
  <2>12. QED
    BY <2>6, <2>8, <2>10, <2>11
<1>11. QED
  BY <1>0, <1>1, <1>2, <1>3, <1>4, <1>6, <1>7, <1>8, <1>9, <1>10 DEF Tap

(* What the platform does by itself.                                       *)
LEMMA SubPlatform == SubInv /\ Platform => SubOK(stack', calls')
<1> SUFFICES ASSUME SubInv, Platform PROVE SubOK(stack', calls')
  OBVIOUS
<1>0. /\ TypeInv /\ SubOK(stack, calls) /\ GoodStack(stack) /\ CallsOK(calls)
      /\ stack \in Seq(Route) /\ calls \in Calls
      /\ Len(stack) \in Nat \ {0} /\ DOMAIN stack = 1 .. Len(stack)
      /\ Top \in Route /\ Top = stack[Len(stack)]
  BY SubFacts
<1>1. CASE Back
  <2>1. Len(stack) - 1 \in 0 .. Len(stack)
    BY <1>0
  <2>2. QED
    BY <1>0, <1>1, <2>1, SubCut DEF Back, pop, Below
<1>2. CASE Relaunch
  <2>1. PICK c \in CallIds : calls' = StartCalls(c)
    BY <1>2 DEF Relaunch
  <2>2. calls'[c] = HomeCheck /\ \A d \in CallIds \ {c} : calls'[d] = NULL
    BY <2>1 DEF StartCalls
  <2>3. QED
    BY <1>2, <2>2, SubHome DEF Relaunch
<1>3. CASE HomeImageLoaded
  <2>1. PICK status \in {"shown", "error"} : stack' = WithStatus(1, status)
    BY <1>3 DEF HomeImageLoaded
  <2>2. 1 \in 1 .. Len(stack) /\ stack[1].page = "Main" /\ calls' = calls
    BY <1>0, <1>3 DEF HomeImageLoaded
  <2>3. /\ stack' \in Seq(Route) /\ Len(stack') = Len(stack)
        /\ \A k \in 1 .. Len(stack) \ {1} : stack'[k] = stack[k]
        /\ stack'[1].page = stack[1].page
    BY <1>0, <2>1, <2>2, StatusFacts
  <2>4. \A c \in CallIds : calls[c] # NULL => calls[c].at # 1
    BY <1>0, <2>2, NobodyWaits
  <2>5. 1 < Len(stack) => stack[1 + 1].page # "Terms"
    <3>1. 1 < Len(stack) => 2 \in DOMAIN stack /\ 2 > 1 /\ 1 + 1 = 2
      BY <1>0
    <3>2. QED
      BY <1>0, <2>2, <3>1 DEF GoodStack, ShapeOK, OverMain
  <2>6. SubOK(stack', calls)
    BY <1>0, <2>2, <2>3, <2>4, <2>5, SubLook
  <2>7. QED
    BY <2>2, <2>6
<1>4. ASSUME NEW page \in Pages, Dispose(page) PROVE SubOK(stack', calls')
  <2>1. \A c \in CallIds : calls[c] # NULL =>
           LET call == [calls[c] EXCEPT !.mounted = FALSE] IN
           /\ call \in Call /\ call.at = calls[c].at
           /\ call.await = calls[c].await
    BY <1>0 DEF Calls, Call
  <2>2. \A c \in CallIds :
           \/ calls'[c] = calls[c]
           \/ /\ calls[c] # NULL /\ calls[c].at = 0
              /\ calls'[c] = [calls[c] EXCEPT !.mounted = FALSE]
    BY <1>4 DEF Dispose, Removed, Outstanding
  <2>3. /\ \A c \in CallIds : calls'[c] # NULL <=> calls[c] # NULL
        /\ \A c \in CallIds : calls[c] # NULL =>
              /\ calls'[c].at = calls[c].at
              /\ calls'[c].mounted = calls[c].mounted \/ calls[c].at = 0
              /\ calls'[c].await = calls[c].await
    BY <2>1, <2>2, NullIsNoCall
  <2>4. SubOK(stack, calls')
    BY <1>0, <2>3, SubSame
  <2>5. QED
    BY <1>4, <2>4 DEF Dispose
<1>5. QED
  BY <1>1, <1>2, <1>3, <1>4 DEF Platform

(* A call c that waits for the same page as before.                        *)
LEMMA SubGoesOn ==
    ASSUME SubInv, NEW c \in CallIds, calls[c] # NULL, NEW call \in Call,
           call.at = calls[c].at, call.mounted = calls[c].mounted,
           PageOf[call.await] = PageOf[calls[c].await]
    PROVE  SubOK(stack, [calls EXCEPT ![c] = call])
<1>0. SubOK(stack, calls) /\ stack \in Seq(Route) /\ calls \in Calls
  BY SubFacts
<1> DEFINE cs == [calls EXCEPT ![c] = call]
<1>1. /\ cs[c] = call /\ call # NULL
      /\ \A d \in CallIds \ {c} : cs[d] = calls[d]
  BY <1>0, NullIsNoCall DEF Calls
<1> HIDE DEF cs
<1>2. SubOK(stack, cs)
  BY <1>0, <1>1, SubSame
<1>3. QED
  BY <1>2 DEF cs

(* Firebase answers.                                                       *)
LEMMA SubServe ==
    ASSUME SubInv, NEW c \in CallIds, ServeAuth(c) \/ ServeStores(c)
    PROVE  SubOK(stack', calls')
<1>0. calls \in Calls /\ TypeInv
  BY SubFacts
<1>1. calls[c] # NULL /\ stack' = stack /\ calls[c] \in Call
  BY <1>0 DEF ServeAuth, ServeStores, Pending, Calls
<1>2. PICK call :
         /\ calls' = [calls EXCEPT ![c] = call] /\ call.at = calls[c].at
         /\ call.mounted = calls[c].mounted /\ call.await = calls[c].await
         /\ call \in Call
  <2>1. ASSUME NEW answer \in {"ok", "error"}, Reply(c, answer)
        PROVE  calls' = [calls EXCEPT ![c] = [calls[c] EXCEPT !.answer = answer]]
               /\ [calls[c] EXCEPT !.answer = answer] \in Call
    BY <1>0, <1>1, <2>1 DEF Reply, Calls, Call
  <2>2. ASSUME NEW answer \in {"ok", "error"}, Reply(c, answer)
        PROVE  \E call :
                 /\ calls' = [calls EXCEPT ![c] = call]
                 /\ call.at = calls[c].at /\ call.mounted = calls[c].mounted
                 /\ call.await = calls[c].await /\ call \in Call
    <3> WITNESS [calls[c] EXCEPT !.answer = answer]
    <3> QED
      BY <1>1, <2>1, <2>2 DEF Call
  <2>3. CASE ServeCurrentUser(c)
    <3> DEFINE call == [calls[c] EXCEPT !.answer = "ok", !.user = signedIn]
    <3>1. /\ call \in Call /\ call.at = calls[c].at
          /\ call.mounted = calls[c].mounted /\ call.await = calls[c].await
      BY <1>0, <1>1 DEF Call, TypeInv, TypeOK
    <3>2. calls' = [calls EXCEPT ![c] = call]
      BY <1>0, <2>3 DEF ServeCurrentUser, Calls
    <3>3. QED
      BY <3>1, <3>2
  <2>4. CASE calls' = [calls EXCEPT ![c].answer = "ok",
                                    ![c].rec = data[calls[c].user]]
             /\ calls[c].await = "choiceData"
    <3> DEFINE call == [calls[c] EXCEPT !.answer = "ok",
                                        !.rec = data[calls[c].user]]
    <3>1. data[calls[c].user] \in Record \cup {NULL}
      BY <1>0, <1>1, <2>4 DEF TypeInv, TypeOK, CallsOK, HasArgument
    <3>2. /\ call \in Call /\ call.at = calls[c].at
          /\ call.mounted = calls[c].mounted /\ call.await = calls[c].await
      BY <1>1, <3>1 DEF Call
    <3>3. calls' = [calls EXCEPT ![c] = call]
      BY <1>0, <2>4 DEF Calls
    <3>4. QED
      BY <3>2, <3>3
  <2>5. QED
    BY <2>2, <2>3, <2>4
       DEF ServeAuth, ServeStores, ServeSignIn, ServeSignOut, ServeCreateUser,
           ServeOnce, ServePutFile, ServeGetDownloadURL, ServeSendUser,
           ServeSendReference
<1>3. QED
  BY <1>1, <1>2, SubGoesOn

(* The continuations.                                                      *)
LEMMA SubResume ==
    ASSUME SubInv, NEW c \in CallIds, Resume(c)
    PROVE  SubOK(stack', calls')
<1>0. /\ TypeInv /\ SubOK(stack, calls) /\ GoodStack(stack) /\ CallsOK(calls)
      /\ stack \in Seq(Route) /\ calls \in Calls
      /\ Len(stack) \in Nat \ {0} /\ DOMAIN stack = 1 .. Len(stack)
  BY SubFacts
<1>a. calls[c] # NULL
  BY DEF Resume, CheckReturns, LoginReturns, ChoiceUserReturns,
         ChoiceDataReturns, SignOutReturns, CreateUserReturns,
         PutFileReturns, GetDownloadURLReturns, SendClientReturns,
         SendWorkerReturns, SendReferenceReturns, Answered
<1>1. /\ calls[c] # NULL /\ calls[c] \in Call /\ calls[c].at \in Nat
      /\ Finished(c) = [calls EXCEPT ![c] = NULL] /\ Finished(c) \in Calls
  BY <1>0, <1>a DEF Calls, Call, Finished
<1>2. ASSUME PageOf[calls[c].await] # "Login" \/ calls[c].at = 0
      PROVE  SubOK(stack, Finished(c))
  <2>1. SubOK(stack, [calls EXCEPT ![c] = NULL])
    BY <1>0, <1>a, <1>2, SubEnds
  <2>2. QED
    BY <2>1 DEF Finished
<1>3. ASSUME NEW route \in Route, route.page # "Login",
             pushAndRemoveUntil(route, Finished(c))
      PROVE  SubOK(stack', calls')
  BY <1>1, <1>3, SubUntil
<1>4. ASSUME NEW await \in Awaits, PageOf[await] = PageOf[calls[c].await],
             stay(Awaiting(c, await))
      PROVE  SubOK(stack', calls')
  <2> DEFINE call == [calls[c] EXCEPT !.await = await, !.answer = "pending"]
  <2>1. /\ call \in Call /\ call.at = calls[c].at
        /\ call.mounted = calls[c].mounted /\ call.await = await
    BY <1>1 DEF Call
  <2>2. calls' = [calls EXCEPT ![c] = call] /\ stack' = stack
    BY <1>0, <1>4 DEF stay, Awaiting, Calls
  <2> HIDE DEF call
  <2>3. QED
    BY <1>1, <1>4, <2>1, <2>2, SubGoesOn
<1>5. /\ NewRoute("UserChoice", NULL) \in Route
      /\ NewRoute("UserChoice", NULL).page = "UserChoice"
      /\ NewRoute("WorkerComplement", NULL) \in Route
      /\ NewRoute("WorkerComplement", NULL).page = "WorkerComplement"
  BY NewRouteOK DEF Pages
<1>6. CASE CheckReturns(c)
  <2>1. PageOf[calls[c].await] = "Home"
    BY <1>6 DEF CheckReturns, Answered, PageOf
  <2>2. QED
    BY <1>0, <1>1, <1>2, <1>5, <1>6, <2>1, SubReplaced DEF CheckReturns, stay
<1>7. CASE LoginReturns(c)
  <2>1. CASE ~calls[c].mounted /\ stay(Finished(c))
    <3>1. calls[c].at = 0
      BY <1>0, <1>1, <2>1 DEF SubOK, WaitOK
    <3>2. SubOK(stack, Finished(c))
      BY <1>2, <3>1
    <3>3. QED
      BY <2>1, <3>2 DEF stay
  <2>2. CASE pushAndRemoveUntil(NewRoute("UserChoice", NULL), Finished(c))
    BY <1>3, <1>5, <2>2
  <2>3. CASE LoginFailed(c)
    <3>1. CASE calls[c].at = 0
      <4>1. SubOK(stack, Finished(c))
        BY <1>2, <3>1
      <4>2. QED
        BY <2>3, <3>1, <4>1 DEF LoginFailed, WithStatus
    <3>2. CASE calls[c].at # 0
      <4> DEFINE n == calls[c].at
      <4>1. /\ n \in 1 .. Len(stack) /\ stack[n].page = "Login"
            /\ \A d \in CallIds : calls[d] # NULL /\ calls[d].at = n => d = c
        BY <1>0, <1>1, <1>7, <3>2
           DEF SubOK, WaitOK, LoginReturns, Answered, PageOf
      <4>2. /\ Len(stack') = Len(stack)
            /\ \A k \in 1 .. Len(stack) \ {n} : stack'[k] = stack[k]
            /\ stack'[n].page = "Login" /\ stack'[n].status = "form"
        BY <1>0, <2>3, <4>1, StatusFacts DEF LoginFailed
      <4>3. /\ calls'[c] = NULL
            /\ \A d \in CallIds \ {c} : calls'[d] = calls[d]
        BY <1>0, <1>1, <2>3 DEF LoginFailed, Calls
      <4> HIDE DEF n
      <4>4. ASSUME NEW d \in CallIds PROVE WaitOK(stack', calls', d)
        <5>1. WaitOK(stack, calls, d)
          BY <1>0 DEF SubOK
        <5>2. QED
          BY <1>0, <4>1, <4>2, <4>3, <5>1 DEF WaitOK
      <4>5. ASSUME NEW k \in 1 .. Len(stack) PROVE PageOK(stack', calls', k)
        <5>1. PageOK(stack, calls, k)
          BY <1>0 DEF SubOK
        <5>2. CASE k = n
          BY <4>2, <5>2 DEF PageOK
        <5>3. CASE k # n
          <6>1. /\ stack'[k] = stack[k] /\ (k > 1 => k - 1 \in 1 .. Len(stack))
            BY <1>0, <4>2, <5>3
          <6>2. k > 1 /\ stack[k - 1].status = "form" => stack'[k - 1].status = "form"
            BY <4>2, <6>1
          <6>3. \A d \in CallIds : calls[d] # NULL /\ calls[d].at = k
                   => calls'[d] # NULL /\ calls'[d].at = k
            BY <4>1, <4>3, <5>3 DEF n
          <6>4. QED
            BY <5>1, <6>1, <6>2, <6>3 DEF PageOK
        <5>4. QED
          BY <5>2, <5>3
      <4>6. QED
        BY <4>2, <4>4, <4>5 DEF SubOK
    <3>3. QED
      BY <3>1, <3>2
  <2>4. QED
    BY <1>7, <2>1, <2>2, <2>3 DEF LoginReturns
<1>8. CASE ChoiceUserReturns(c)
  <2>1. /\ PageOf[calls[c].await] = "UserChoice" /\ "choiceData" \in Awaits
        /\ PageOf["choiceData"] = "UserChoice"
    BY <1>8, AwaitsAre DEF ChoiceUserReturns, Answered, PageOf
  <2>2. QED
    BY <1>2, <1>4, <1>8, <2>1 DEF ChoiceUserReturns, stay
<1>9. CASE ChoiceDataReturns(c)
  <2>1. PageOf[calls[c].await] = "UserChoice"
    BY <1>9 DEF ChoiceDataReturns, Answered, PageOf
  <2>2. CASE ProfileRead(c) /\ Succeeded(c) /\ FromDB(calls[c].kind, calls[c].rec)
    <3> DEFINE user == [calls[c].rec EXCEPT !.kind = calls[c].kind]
    <3>1. calls[c].rec \in Record /\ calls[c].kind \in Kinds
      BY <1>0, <1>1, <1>9, <2>2
         DEF ChoiceDataReturns, Answered, CallsOK, HasArgument, FromDB, Call
    <3>2. user \in Record /\ user.kind \in Kinds
      BY <3>1 DEF Record
    <3>3. /\ MainRoute(user.kind, user) \in Route
          /\ MainRoute(user.kind, user).page = "Main"
      BY <3>2, MainRouteOK
    <3>4. \/ pushAndRemoveUntil(MainRoute(user.kind, user), Finished(c))
          \/ stay(Finished(c))
      BY <2>2 DEF ProfileRead
    <3> HIDE DEF user
    <3>5. QED
      BY <1>2, <1>3, <2>1, <3>3, <3>4 DEF stay
  <2>3. CASE ProfileNotRead(c)
    BY <1>2, <1>3, <1>5, <2>1, <2>3 DEF ProfileNotRead, stay
  <2>4. QED
    BY <1>2, <1>9, <2>1, <2>2, <2>3 DEF ChoiceDataReturns, stay
<1>10. CASE SignOutReturns(c)
  <2>1. PageOf[calls[c].await] = "MenuConfig"
    BY <1>10 DEF SignOutReturns, Answered, PageOf
  <2>2. CASE stay(Finished(c))
    BY <1>2, <2>1, <2>2 DEF stay
  <2>3. CASE /\ stack' = <<HomeRoute>>
             /\ calls' = [Detached(calls, 0) EXCEPT ![c] = HomeCheck]
    <3>1. /\ calls'[c] = HomeCheck
          /\ \A d \in CallIds \ {c} : calls'[d] = Detached(calls, 0)[d]
      BY <2>3 DEF Detached
    <3>2. \A d \in CallIds \ {c} : calls'[d] # NULL => calls'[d].at = 0
      BY <1>0, <3>1, DetachedAll
    <3>3. QED
      BY <2>3, <3>1, <3>2, SubHome
  <2>4. QED
    BY <1>10, <2>2, <2>3 DEF SignOutReturns
<1>11. ASSUME PageOf[calls[c].await] = "SimpleRegister", UserRegistered(c)
       PROVE  SubOK(stack', calls')
  <2>1. "sendClient" \in Awaits /\ PageOf["sendClient"] = "SimpleRegister"
    BY AwaitsAre DEF PageOf
  <2>2. SubOK(Append(stack, NewRoute("WorkerComplement", NULL)), Finished(c))
    BY <1>0, <1>1, <1>2, <1>5, <1>11, SubPush
  <2>3. QED
    BY <1>2, <1>4, <1>11, <2>1, <2>2 DEF UserRegistered, stay, push
<1>12. CASE CreateUserReturns(c) \/ PutFileReturns(c) \/ GetDownloadURLReturns(c)
  <2>1. /\ PageOf[calls[c].await] = "SimpleRegister"
        /\ {"putFile", "getDownloadURL"} \subseteq Awaits
        /\ PageOf["putFile"] = "SimpleRegister"
        /\ PageOf["getDownloadURL"] = "SimpleRegister"
    BY <1>12, AwaitsAre
       DEF CreateUserReturns, PutFileReturns, GetDownloadURLReturns, Answered,
           PageOf
  <2>2. QED
    BY <1>2, <1>4, <1>11, <1>12, <2>1
       DEF CreateUserReturns, PutFileReturns, GetDownloadURLReturns,
           RegistrationFailed, stay
<1>13. CASE SendClientReturns(c)
  <2>1. /\ PageOf[calls[c].await] = "SimpleRegister" /\ calls[c].rec \in Record
    BY <1>0, <1>1, <1>13
       DEF SendClientReturns, Answered, PageOf, CallsOK, HasArgument
  <2>2. /\ MainRoute("Client", calls[c].rec) \in Route
        /\ MainRoute("Client", calls[c].rec).page = "Main"
    BY <2>1, MainRouteOK DEF Kinds
  <2>3. QED
    BY <1>2, <1>3, <1>13, <2>1, <2>2 DEF SendClientReturns, stay
<1>14. CASE SendWorkerReturns(c)
  <2> DEFINE call == [calls[c] EXCEPT !.await = "sendReference",
                                      !.answer = "pending",
                                      !.sent = Succeeded(c)]
  <2>1. /\ PageOf[calls[c].await] = "WorkerComplement"
        /\ PageOf["sendReference"] = "WorkerComplement"
    BY <1>14 DEF SendWorkerReturns, Answered, PageOf
  <2>2. /\ call \in Call /\ call.at = calls[c].at
        /\ call.mounted = calls[c].mounted /\ call.await = "sendReference"
    BY <1>1, AwaitsAre DEF Call, Succeeded
  <2>3. calls' = [calls EXCEPT ![c] = call] /\ stack' = stack
    BY <1>0, <1>1, <1>14 DEF SendWorkerReturns, stay, Awaiting, Calls, Call
  <2> HIDE DEF call
  <2>4. QED
    BY <1>1, <2>1, <2>2, <2>3, SubGoesOn
<1>15. CASE SendReferenceReturns(c)
  <2>1. PageOf[calls[c].await] = "WorkerComplement"
    BY <1>15 DEF SendReferenceReturns, Answered, PageOf
  <2>2. /\ MainRoute("Worker", currentUser) \in Route
        /\ MainRoute("Worker", currentUser).page = "Main"
    BY <1>0, MainRouteOK DEF Kinds, TypeInv, TypeOK
  <2>3. QED
    BY <1>2, <1>3, <1>15, <2>1, <2>2 DEF SendReferenceReturns, stay
<1>16. QED
  BY <1>6, <1>7, <1>8, <1>9, <1>10, <1>12, <1>13, <1>14, <1>15 DEF Resume

-----------------------------------------------------------------------------
(* Results *)

LEMMA SubAlways == Spec => [](TypeInv /\ Submissions)
<1>a. TypeInv => (Submissions <=> SubNow)
  BY SubIs DEF SubNow
<1>b. TypeInv' => (Submissions' <=> SubNow')
  BY <1>a, PTL
<1>1. Init => TypeInv /\ Submissions
  <2> SUFFICES ASSUME Init PROVE TypeInv /\ Submissions
    OBVIOUS
  <2>1. TypeInv
    BY TypeInit
  <2>2. PICK c \in CallIds : calls = StartCalls(c)
    BY DEF Init
  <2>3. calls[c] = HomeCheck /\ \A d \in CallIds \ {c} : calls[d] = NULL
    BY <2>2 DEF StartCalls
  <2>4. SubNow
    BY <2>3, SubHome DEF Init, SubNow
  <2>5. QED
    BY <1>a, <2>1, <2>4
<1>2. TypeInv /\ Submissions /\ [Next]_vars => (TypeInv /\ Submissions)'
  <2> SUFFICES ASSUME TypeInv, Submissions, [Next]_vars
               PROVE  (TypeInv /\ Submissions)'
    OBVIOUS
  <2>1. TypeInv'
    BY TypeStep
  <2>2. SubInv
    BY <1>a DEF SubInv, SubNow
  <2>3. SubOK(stack', calls')
    <3>1. CASE UNCHANGED vars
      BY <2>2, <3>1 DEF SubInv, vars
    <3>2. CASE Next
      BY <2>2, <3>2, SubTap, SubPlatform, SubServe, SubResume DEF Next
    <3>3. QED
      BY <3>1, <3>2
  <2>4. QED
    BY <1>b, <2>1, <2>3 DEF SubNow
<1>3. QED
  BY <1>1, <1>2, PTL DEF Spec

(* No page submits twice, and a continuation comes back to the page that   *)
(* it started from, for any number of pages and of outstanding calls.      *)
THEOREM SubmitsOnce == Spec => []OneSubmission
<1>1. Submissions => OneSubmission
  BY DEF Submissions
<1>2. QED
  BY <1>1, SubAlways, PTL

(* The progress of Login is only shown while an answer is due.             *)
THEOREM LoginWaits == Spec => []LoginProgress
<1>1. Submissions => LoginProgress
  BY DEF Submissions
<1>2. QED
  BY <1>1, SubAlways, PTL
=============================================================================
