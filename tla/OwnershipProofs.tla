-------------------------- MODULE OwnershipProofs --------------------------
(***************************************************************************)
(* Ownership is an invariant of Folium, and with it what the app promises  *)
(* about accounts: profiles stay with their owners, exist only for         *)
(* accounts, and never change their kind.                                  *)
(***************************************************************************)
EXTENDS FoliumProofs

(* Two states of a call that differ only in the page it is attached to.    *)
SameCall(x, y) ==
    /\ x.await = y.await /\ x.answer = y.answer
    /\ x.rec = y.rec /\ x.sent = y.sent

(* A call that does not act for an account that exists.                    *)
Idle(call) == ~Registering(call) /\ ~Completing(call) /\ ~HasRead(call)

(* Every call is gone, idle, or what it was.                               *)
Quiet(cs) ==
    \A c \in CallIds :
       cs[c] # NULL => Idle(cs[c]) \/ (calls[c] # NULL /\ SameCall(cs[c], calls[c]))

(* A call whose page is gone is bound to its account all the same.         *)
LEMMA OwnedSame ==
    ASSUME NEW x, NEW y, SameCall(x, y), Owned(y)
    PROVE  /\ Owned(x)
           /\ IsNew(x) <=> IsNew(y)
           /\ Completing(x) <=> Completing(y)
BY DEF SameCall, Owned, Registering, IsNew, Completing, HasRead, HasUrl, HasSent

(* A call that carries no data has nothing to belong to an account.        *)
LEMMA OwnedIdle ==
    ASSUME NEW x, Idle(x)
    PROVE  Owned(x) /\ ~IsNew(x) /\ ~Completing(x)
BY DEF Idle, Owned, Registering, IsNew, Completing, HasRead, HasUrl, HasSent

(* A new object of a worker is the current user, as the first one of its   *)
(* account.                                                                *)
NoOtherObject ==
    \A r \in WorkerObjects' :
       \/ r \in WorkerObjects
       \/ r = currentUser' /\ \A s \in WorkerObjects : s.uid # r.uid

LEMMA StillAgree ==
    ASSUME WorkersAgree, NoOtherObject
    PROVE  WorkersAgree'
BY DEF WorkersAgree, NoOtherObject

(* A call that was outstanding before takes no other object along.         *)
LEMMA SameObject ==
    ASSUME NEW c \in CallIds, calls[c] # NULL, NEW x, SameCall(x, calls[c]),
           Completing(x) \/ HasRead(x), x.rec \in Record, x.rec.kind = "Worker"
    PROVE  x.rec \in WorkerObjects
BY DEF SameCall, WorkerObjects, Outstanding, Completing, HasRead

(* Steps of the app that neither act for an account nor change what the    *)
(* app remembers of one.                                                   *)
LEMMA QuietStep ==
    ASSUME Ownership, UNCHANGED backend, Quiet(calls'),
           currentUser' \in {currentUser, NULL}
    PROVE  Ownership'
<1>1. Stored' /\ (currentUser' # NULL => Held(currentUser)')
  BY DEF Ownership, Stored, Held, NotClient, backend
<1>2. ASSUME NEW c \in CallIds, calls'[c] # NULL
      PROVE  Owned(calls'[c]) /\ (IsNew(calls'[c]) \/ Completing(calls'[c]) =>
                calls[c] # NULL /\ SameCall(calls'[c], calls[c]))
  BY <1>2, OwnedSame, OwnedIdle DEF Ownership, Quiet
<1>3. ASSUME NEW c \in CallIds, calls'[c] # NULL PROVE Owned(calls[c])'
  BY <1>2, <1>3 DEF Owned, Held, NotClient, backend
<1>4. ASSUME NEW c \in CallIds, calls'[c] # NULL, IsNew(calls'[c])
      PROVE  Alone(c)'
  <2>1. /\ calls[c] # NULL /\ IsNew(calls[c]) /\ calls'[c].rec = calls[c].rec
        /\ Alone(c)
    BY <1>2, <1>4, OwnedSame DEF Ownership, SameCall
  <2>2. ASSUME NEW d \in CallIds \ {c}, calls'[d] # NULL,
               IsNew(calls'[d]) \/ Completing(calls'[d])
        PROVE  calls'[d].rec.uid # calls'[c].rec.uid
    <3>1. /\ calls[d] # NULL /\ SameCall(calls'[d], calls[d])
          /\ Owned(calls[d])
      BY <1>2, <2>2 DEF Ownership
    <3>2. IsNew(calls[d]) \/ Completing(calls[d])
      BY <2>2, <3>1, OwnedSame
    <3>3. QED
      BY <2>1, <2>2, <3>1, <3>2 DEF Alone, SameCall
  <2>3. QED
    BY <2>1, <2>2 DEF Alone, GetsCurrent, backend
<1>5. NoOtherObject
  <2> SUFFICES ASSUME NEW r \in WorkerObjects'
               PROVE  r \in WorkerObjects
    BY DEF NoOtherObject
  <2>1. r \in Record /\ r.kind = "Worker"
    BY DEF WorkerObjects
  <2>2. CASE r = currentUser' \/ \E u \in Users : r = data'[u]
    BY <2>1, <2>2, NullIsNoRecord DEF WorkerObjects, backend
  <2>3. ASSUME NEW c \in CallIds, calls'[c] # NULL, r = calls'[c].rec,
               Completing(calls'[c]) \/ HasRead(calls'[c])
        PROVE  r \in WorkerObjects
    <3>1. calls[c] # NULL /\ SameCall(calls'[c], calls[c])
      BY <2>3 DEF Quiet, Idle
    <3>2. QED
      BY <2>1, <2>3, <3>1, SameObject
  <2>4. QED
    BY <2>2, <2>3 DEF WorkerObjects, Outstanding
<1>6. WorkersAgree'
  BY <1>5, StillAgree DEF Ownership
<1>7. QED
  BY <1>1, <1>3, <1>4, <1>6 DEF Ownership, IsNew, Registering

(* The calls other than c are gone or what they were.                      *)
OthersSame(c) ==
    \A d \in CallIds \ {c} :
       calls'[d] # NULL => calls[d] # NULL /\ SameCall(calls'[d], calls[d])

(* Call c goes on for an account that it already acts for, starts to       *)
(* complete the current worker, or reads a profile.                        *)
GoesOn(c) ==
    calls'[c] # NULL =>
       /\ Owned(calls'[c])
       /\ IsNew(calls'[c]) => Alone(c) /\ calls'[c].rec = calls[c].rec
       /\ Completing(calls'[c]) =>
             \/ /\ calls[c] # NULL /\ Completing(calls[c])
                /\ calls'[c].rec = calls[c].rec
             \/ GetsCurrent(currentUser, "Worker") /\ calls'[c].rec = currentUser
       /\ HasRead(calls'[c]) => \E u \in Users : calls'[c].rec = data[u]

(* The object r was there before, or is the first one of its account.      *)
Known(r) == r \in WorkerObjects \/ \A s \in WorkerObjects : s.uid # r.uid

(* The current user changes only as call c ends; a new current worker is   *)
(* not being registered by another call, and is as the others know it.     *)
KeepsCurrent(c) ==
    \/ currentUser' = currentUser
    \/ /\ calls'[c] = NULL /\ Held(currentUser')
       /\ currentUser'.kind = "Worker" =>
             /\ Known(currentUser')
             /\ \A d \in CallIds \ {c} :
                   calls[d] # NULL /\ IsNew(calls[d])
                      => calls[d].rec.uid # currentUser'.uid

(* Accounts and pictures may have come into existence; profiles and        *)
(* references are what they were.                                          *)
OnlyGrown ==
    /\ UNCHANGED <<data, index>>
    /\ accounts \subseteq accounts' /\ images \subseteq images'
    /\ images' \subseteq accounts'

(* Steps that act for an account through one call, in the app or at        *)
(* Firebase, and store no profile and no reference.                        *)
LEMMA ServedStep ==
    ASSUME Ownership, OnlyGrown, NEW c \in CallIds,
           OthersSame(c), GoesOn(c), KeepsCurrent(c)
    PROVE  Ownership'
<1>1. Stored'
  BY DEF Ownership, Stored, NotClient, OnlyGrown
<1>2. currentUser' # NULL => Held(currentUser)'
  BY DEF Ownership, Held, NotClient, OnlyGrown, KeepsCurrent
<1>3. ASSUME NEW d \in CallIds \ {c}, calls'[d] # NULL
      PROVE  /\ calls[d] # NULL /\ calls'[d].rec = calls[d].rec
             /\ Owned(calls'[d])
             /\ IsNew(calls'[d]) <=> IsNew(calls[d])
             /\ Completing(calls'[d]) <=> Completing(calls[d])
  BY <1>3, OwnedSame DEF Ownership, OthersSame, SameCall
<1>4. ASSUME NEW d \in CallIds, calls'[d] # NULL PROVE Owned(calls[d])'
  <2>1. Owned(calls'[d])
    BY <1>3, <1>4 DEF GoesOn
  <2>2. QED
    BY <2>1 DEF Owned, Held, NotClient, OnlyGrown
<1>5. ASSUME NEW d \in CallIds, calls'[d] # NULL, IsNew(calls'[d])
      PROVE  Alone(d)'
  <2>1. Alone(d) /\ calls'[d].rec = calls[d].rec
    BY <1>3, <1>5 DEF GoesOn, Ownership
  <2>2. ~(GetsCurrent(currentUser, "Worker") /\ currentUser.uid = calls[d].rec.uid)'
    BY <1>3, <1>5, <2>1 DEF Alone, KeepsCurrent, GetsCurrent
  <2>3. ASSUME NEW e \in CallIds \ {d}, calls'[e] # NULL,
               IsNew(calls'[e]) \/ Completing(calls'[e])
        PROVE  calls'[e].rec.uid # calls'[d].rec.uid
    <3>1. CASE e # c
      BY <1>3, <2>1, <2>3, <3>1 DEF Alone
    <3>2. CASE e = c
      <4>1. calls[d] # NULL /\ IsNew(calls[d])
        BY <1>3, <1>5, <3>2
      <4>2. QED
        BY <2>1, <2>3, <3>2, <4>1 DEF Alone, GoesOn
    <3>3. QED
      BY <3>1, <3>2
  <2>4. QED
    BY <2>1, <2>2, <2>3 DEF Alone, OnlyGrown
<1>6. NoOtherObject
  <2> SUFFICES ASSUME NEW r \in WorkerObjects'
               PROVE  \/ r \in WorkerObjects
                      \/ r = currentUser' /\ \A s \in WorkerObjects : s.uid # r.uid
    BY DEF NoOtherObject
  <2>1. r \in Record /\ r.kind = "Worker"
    BY DEF WorkerObjects
  <2>2. ASSUME NEW u \in Users, r = data[u] PROVE r \in WorkerObjects
    BY <2>1, <2>2 DEF WorkerObjects
  <2>3. r = currentUser => r \in WorkerObjects
    BY <2>1 DEF WorkerObjects
  <2>4. CASE r = currentUser'
    BY <2>1, <2>3, <2>4 DEF KeepsCurrent, Known
  <2>5. ASSUME NEW d \in CallIds, calls'[d] # NULL, r = calls'[d].rec,
               Completing(calls'[d]) \/ HasRead(calls'[d])
        PROVE  r \in WorkerObjects
    <3>1. CASE d # c
      BY <2>1, <2>5, <3>1, SameObject DEF OthersSame
    <3>2. CASE d = c
      <4>1. CASE Completing(calls'[d]) /\ r # currentUser
        BY <2>1, <2>5, <3>2, <4>1 DEF GoesOn, WorkerObjects, Outstanding
      <4>2. CASE HasRead(calls'[d])
        BY <2>2, <2>5, <3>2, <4>2 DEF GoesOn
      <4>3. QED
        BY <2>3, <2>5, <4>1, <4>2
    <3>3. QED
      BY <3>1, <3>2
  <2>6. QED
    BY <2>2, <2>4, <2>5 DEF WorkerObjects, Outstanding, OnlyGrown
<1>7. WorkersAgree'
  BY <1>6, StillAgree DEF Ownership
<1>8. QED
  BY <1>1, <1>2, <1>4, <1>5, <1>7 DEF Ownership, IsNew, Registering

(* Steps of the app that act for an account, through one call.             *)
LEMMA ActingStep ==
    ASSUME Ownership, UNCHANGED backend, NEW c \in CallIds,
           OthersSame(c), GoesOn(c), KeepsCurrent(c)
    PROVE  Ownership'
BY ServedStep DEF OnlyGrown, backend, Ownership, Stored

-----------------------------------------------------------------------------
(* Which steps are quiet *)

(* Removing or disposing pages does not touch what their calls do.         *)
LEMMA DetachedSame ==
    ASSUME NEW cs, CallsOK(cs), NEW n \in Nat, NEW c \in CallIds
    PROVE  /\ Detached(cs, n)[c] = NULL => cs[c] = NULL \/ cs[c] \in Call
           /\ cs[c] = NULL => Detached(cs, n)[c] = NULL
           /\ cs[c] # NULL => SameCall(Detached(cs, n)[c], cs[c])
BY DEF Detached, SameCall, CallsOK, Call

(* Removing routes leaves their continuations running unchanged.           *)
LEMMA QuietDetached ==
    ASSUME NEW cs, CallsOK(cs), Quiet(cs), NEW n \in Nat
    PROVE  Quiet(Detached(cs, n))
<1> SUFFICES ASSUME NEW c \in CallIds, Detached(cs, n)[c] # NULL
             PROVE  \/ Idle(Detached(cs, n)[c])
                    \/ calls[c] # NULL /\ SameCall(Detached(cs, n)[c], calls[c])
  BY DEF Quiet
<1>1. cs[c] # NULL /\ SameCall(Detached(cs, n)[c], cs[c])
  BY DetachedSame
<1>2. QED
  BY <1>1 DEF Quiet, SameCall, Idle, Registering, Completing, HasRead

(* A continuation that ends takes its data with it.                        *)
LEMMA QuietFinished ==
    ASSUME CallsOK(calls), NEW c \in CallIds
    PROVE  Quiet(Finished(c)) /\ Quiet(calls)
BY DEF Quiet, Finished, CallsOK, SameCall

(* A handler starts a call that carries no data yet.                       *)
LEMMA QuietNew ==
    ASSUME CallsOK(calls), NEW c \in CallIds, NEW call, Idle(call)
    PROVE  Quiet([calls EXCEPT ![c] = call])
BY DEF Quiet, CallsOK, SameCall

(* The first await of a handler.                                           *)
LEMMA NewIsIdle ==
    ASSUME NEW call, call.answer = "pending",
           call.await \in {"checkUserLogged", "signIn", "choiceUser",
                           "choiceData", "signOut", "createUser"}
    PROVE  Idle(call)
BY DEF Idle, Registering, Completing, HasRead

(* Nothing is stored or under way at the start.                            *)
LEMMA OwnershipInit == Init => Ownership
<1> SUFFICES ASSUME Init PROVE Ownership
  OBVIOUS
<1>1. PICK c \in CallIds : calls = StartCalls(c)
  BY DEF Init
<1>2. Idle(HomeCheck)
  BY NewIsIdle DEF HomeCheck, NewCall
<1>3. ASSUME NEW d \in CallIds, calls[d] # NULL
      PROVE  Owned(calls[d]) /\ ~IsNew(calls[d])
  BY <1>1, <1>2, <1>3, OwnedIdle DEF StartCalls
<1>4. Stored /\ currentUser = NULL
  BY DEF Init, Stored
<1>5. WorkerObjects = {}
  <2>1. \A d \in CallIds :
           calls[d] # NULL => ~Completing(calls[d]) /\ ~HasRead(calls[d])
    BY <1>1, <1>2 DEF StartCalls, Idle
  <2>2. \A u \in Users : data[u] = NULL
    BY DEF Init
  <2>3. QED
    BY <1>4, <2>1, <2>2, NullIsNoRecord DEF WorkerObjects, Outstanding
<1>6. QED
  BY <1>3, <1>4, <1>5 DEF Ownership, WorkersAgree

(* Taps start calls; only CONCLUIR takes the current user along.           *)
LEMMA OwnershipTap ==
    ASSUME TypeInv, Ownership, Tap
    PROVE  Ownership'
<1>0. CallsOK(calls) /\ Len(stack) \in Nat \ {0} /\ Quiet(calls)
  BY TopFacts DEF Quiet, SameCall
<1>a. ASSUME UNCHANGED <<backend, currentUser, calls>> PROVE Ownership'
  BY <1>0, <1>a, QuietStep
<1>b. ASSUME NEW c \in CallIds, NEW call, Idle(call),
             calls' = [calls EXCEPT ![c] = call], UNCHANGED <<backend, currentUser>>
      PROVE  Ownership'
  BY <1>0, <1>b, QuietNew, QuietStep
<1>1. CASE \/ Participe \/ Cadastre \/ SecondTab \/ FirstTab \/ Configuracoes
           \/ MudarVisao \/ RegisterClicked
           \/ \E kind \in Kinds : TypeChosen(kind)
  BY <1>1, <1>a DEF Participe, Cadastre, SecondTab, FirstTab, Configuracoes,
                    MudarVisao, RegisterClicked, TypeChosen, push
<1>2. ASSUME NEW u \in Users, LoginClicked(u) PROVE Ownership'
  <2> DEFINE call == [NewCall("signIn", Len(stack)) EXCEPT !.user = u]
  <2>1. Idle(call)
    BY NewIsIdle DEF NewCall
  <2>2. QED
    BY <1>2, <1>b, <2>1 DEF LoginClicked, AwaitLoading
<1>3. ASSUME NEW kind \in Kinds, ChoiceClicked(kind) PROVE Ownership'
  <2> DEFINE call == [NewCall("choiceUser", Len(stack)) EXCEPT !.kind = kind]
  <2>1. Idle(call)
    BY NewIsIdle DEF NewCall
  <2>2. QED
    BY <1>3, <1>b, <2>1 DEF ChoiceClicked, AwaitLoading
<1>4. CASE SairClicked
  <2>1. Idle(NewCall("signOut", Len(stack)))
    BY NewIsIdle DEF NewCall
  <2>2. QED
    BY <1>4, <1>b, <2>1 DEF SairClicked
<1>5. CASE TermsCancelled
  <2>1. Quiet(calls')
    BY <1>0, <1>5, QuietDetached DEF TermsCancelled, pop
  <2>2. QED
    BY <1>5, <2>1, QuietStep DEF TermsCancelled
<1>6. ASSUME NEW u \in Users, NEW pic \in Pictures, TermsAgreed(u, pic)
      PROVE  Ownership'
  <2>1. Idle(RegisterCall(Len(stack) - 1, u, pic))
    BY NewIsIdle DEF RegisterCall, NewCall
  <2>2. QED
    BY <1>6, <1>b, <2>1 DEF TermsAgreed
<1>7. CASE ConcluirClicked
  <2>1. CASE GetsCurrent(currentUser, "Worker")
    <3> DEFINE call == [NewCall("sendWorker", Len(stack)) EXCEPT !.rec = currentUser]
    <3>1. PICK c \in CallIds : calls' = [calls EXCEPT ![c] = call]
      BY <1>7, <2>1 DEF ConcluirClicked, AwaitLoading
    <3>2. /\ call.await = "sendWorker" /\ call.answer = "pending"
          /\ call.rec = currentUser
      BY DEF NewCall
    <3> HIDE DEF call
    <3>3. Owned(call) /\ ~IsNew(call)
      BY <2>1, <3>2 DEF Owned, IsNew, Registering, Completing, HasRead, HasUrl,
                        HasSent, Ownership, GetsCurrent
    <3>4. calls'[c] = call /\ \A d \in CallIds \ {c} : calls'[d] = calls[d]
      BY <1>0, <3>1 DEF CallsOK
    <3>5. OthersSame(c) /\ GoesOn(c)
      BY <2>1, <3>2, <3>3, <3>4 DEF OthersSame, SameCall, GoesOn, HasRead
    <3>6. QED
      BY <1>7, <3>5, ActingStep DEF ConcluirClicked, KeepsCurrent
  <2>2. CASE ~GetsCurrent(currentUser, "Worker")
    BY <1>7, <1>a, <2>2 DEF ConcluirClicked
  <2>3. QED
    BY <2>1, <2>2
<1>8. QED
  BY <1>1, <1>2, <1>3, <1>4, <1>5, <1>6, <1>7 DEF Tap

(* Back, the end of a transition and a new process.                        *)
LEMMA OwnershipPlatform ==
    ASSUME TypeInv, Ownership, Platform
    PROVE  Ownership'
<1>0. CallsOK(calls) /\ Len(stack) \in Nat \ {0} /\ Quiet(calls)
  BY TopFacts DEF Quiet, SameCall
<1>1. CASE Back
  <2>1. Quiet(calls')
    BY <1>0, <1>1, QuietDetached DEF Back, pop
  <2>2. QED
    BY <1>1, <2>1, QuietStep DEF Back
<1>2. CASE Relaunch
  <2>1. Idle(HomeCheck)
    BY NewIsIdle DEF HomeCheck, NewCall
  <2>2. Quiet(calls')
    BY <1>2, <2>1 DEF Relaunch, StartCalls, Quiet
  <2>3. QED
    BY <1>2, <2>2, QuietStep DEF Relaunch
<1>3. CASE HomeImageLoaded
  BY <1>0, <1>3, QuietStep DEF HomeImageLoaded
<1>4. ASSUME NEW page \in Pages, Dispose(page) PROVE Ownership'
  <2>1. Quiet(calls')
    BY <1>0, <1>4 DEF Dispose, Quiet, SameCall, CallsOK, Call, Outstanding
  <2>2. QED
    BY <1>4, <2>1, QuietStep DEF Dispose
<1>5. QED
  BY <1>1, <1>2, <1>3, <1>4 DEF Platform

-----------------------------------------------------------------------------
(* Continuations *)

(* A continuation that ran to its end leaves the other calls as they were. *)
LEMMA FinishedSame ==
    ASSUME CallsOK(calls), NEW c \in CallIds,
           \/ calls' = Finished(c)
           \/ \E n \in Nat : calls' = Detached(Finished(c), n)
    PROVE  calls'[c] = NULL /\ OthersSame(c) /\ Quiet(calls')
<1>1. /\ CallsOK(Finished(c)) /\ Quiet(Finished(c)) /\ Finished(c)[c] = NULL
      /\ \A d \in CallIds \ {c} : Finished(c)[d] = calls[d]
  BY FinishedOK, QuietFinished DEF Finished, CallsOK
<1>2. CASE calls' = Finished(c)
  BY <1>1, <1>2 DEF OthersSame, SameCall
<1>3. ASSUME NEW n \in Nat, calls' = Detached(Finished(c), n)
      PROVE  calls'[c] = NULL /\ OthersSame(c) /\ Quiet(calls')
  <2>1. Quiet(calls')
    BY <1>1, <1>3, QuietDetached
  <2>2. calls'[c] = NULL
    BY <1>1, <1>3, DetachedSame
  <2>3. OthersSame(c)
    <3> HIDE DEF Finished
    <3> SUFFICES ASSUME NEW d \in CallIds \ {c}, calls'[d] # NULL
                 PROVE  calls[d] # NULL /\ SameCall(calls'[d], calls[d])
      BY DEF OthersSame
    <3>1. /\ Finished(c)[d] = NULL => Detached(Finished(c), n)[d] = NULL
          /\ Finished(c)[d] # NULL => SameCall(Detached(Finished(c), n)[d], Finished(c)[d])
      BY <1>1, DetachedSame
    <3>2. QED
      BY <1>1, <1>3, <3>1
  <2>4. QED
    BY <2>1, <2>2, <2>3
<1>4. QED
  BY <1>2, <1>3

(* Each way a continuation ends.                                           *)
LEMMA Ends ==
    ASSUME TypeInv, NEW c \in CallIds, NEW route,
           \/ stay(Finished(c))
           \/ push(route, Finished(c))
           \/ pushReplacement(route, Finished(c))
           \/ pushAndRemoveUntil(route, Finished(c))
    PROVE  calls'[c] = NULL /\ OthersSame(c) /\ Quiet(calls')
<1>1. CallsOK(calls) /\ Len(stack) - 1 \in Nat
  BY TopFacts
<1>2. \/ calls' = Finished(c)
      \/ \E n \in Nat : calls' = Detached(Finished(c), n)
  BY <1>1 DEF stay, push, pushReplacement, pushAndRemoveUntil
<1>3. QED
  BY <1>1, <1>2, FinishedSame

(* What a continuation that goes on to its next await leaves behind.       *)
LEMMA AwaitingSame ==
    ASSUME TypeInv, NEW c \in CallIds, calls[c] # NULL, NEW await \in Awaits,
           calls' = Awaiting(c, await)
    PROVE  /\ OthersSame(c)
           /\ calls'[c].await = await /\ calls'[c].answer = "pending"
           /\ calls'[c].rec = calls[c].rec
<1>1. CallsOK(calls) /\ calls[c] \in Call
  BY TopFacts DEF CallsOK
<1>2. calls'[c] = [calls[c] EXCEPT !.await = await, !.answer = "pending"]
  BY <1>1 DEF Awaiting, CallsOK
<1>3. \A d \in CallIds \ {c} : calls'[d] = calls[d]
  BY <1>1 DEF Awaiting, CallsOK
<1>4. QED
  BY <1>1, <1>2, <1>3 DEF OthersSame, SameCall, Call

(* Whatever a registration does next, the account it created has nothing   *)
(* stored and nobody else acts for it.                                     *)
LEMMA NextAwait ==
    ASSUME TypeInv, Ownership, NEW c \in CallIds, calls[c] # NULL,
           IsNew(calls[c]), NEW await \in {"putFile", "getDownloadURL", "sendClient"},
           await = "sendClient" =>
              /\ calls[c].rec.kind = "Client"
              /\ calls[c].rec.image => calls[c].rec.uid \in images,
           calls' = Awaiting(c, await), UNCHANGED <<backend, currentUser>>
    PROVE  Ownership'
<1>1. /\ OthersSame(c) /\ calls'[c].await = await
      /\ calls'[c].answer = "pending" /\ calls'[c].rec = calls[c].rec
  BY AwaitsAre, AwaitingSame
<1>2. Owned(calls[c]) /\ Registering(calls[c]) /\ Alone(c)
  BY DEF Ownership, IsNew
<1>3. GoesOn(c)
  BY <1>1, <1>2
  DEF GoesOn, Owned, Registering, IsNew, Completing, HasRead, HasUrl, HasSent
<1>4. QED
  BY <1>1, <1>3, ActingStep DEF KeepsCurrent

(* A User object becomes the current user as its call ends.                *)
LEMMA BecomesCurrent ==
    ASSUME TypeInv, Ownership, NEW c \in CallIds, NEW route,
           \/ stay(Finished(c))
           \/ push(route, Finished(c))
           \/ pushAndRemoveUntil(route, Finished(c)),
           UNCHANGED backend, Held(currentUser'),
           currentUser'.kind = "Worker" =>
              /\ Known(currentUser')
              /\ \A d \in CallIds \ {c} :
                    calls[d] # NULL /\ IsNew(calls[d])
                       => calls[d].rec.uid # currentUser'.uid
    PROVE  Ownership'
<1>1. calls'[c] = NULL /\ OthersSame(c)
  BY Ends
<1>2. GoesOn(c) /\ KeepsCurrent(c)
  BY <1>1 DEF GoesOn, KeepsCurrent
<1>3. QED
  BY <1>1, <1>2, ActingStep

(* Nobody has an object of an account that is being registered.            *)
LEMMA NoObjectYet ==
    ASSUME Ownership, NEW c \in CallIds, Registering(calls[c]), Alone(c),
           NEW r \in WorkerObjects
    PROVE  r.uid # calls[c].rec.uid
<1> DEFINE u == calls[c].rec.uid
<1>1. r \in Record /\ r # NULL /\ r.kind = "Worker"
  BY NullIsNoRecord DEF WorkerObjects
<1>2. CASE r = currentUser
  BY <1>1, <1>2 DEF Alone, GetsCurrent
<1>3. ASSUME NEW v \in Users, r = data[v] PROVE r.uid # u
  BY <1>1, <1>3 DEF Alone, Ownership, Stored
<1>4. ASSUME NEW d \in CallIds, calls[d] # NULL, r = calls[d].rec,
             Completing(calls[d])
      PROVE  r.uid # u
  BY <1>4 DEF Alone, IsNew, Registering, Completing
<1>5. ASSUME NEW d \in CallIds, calls[d] # NULL, r = calls[d].rec,
             HasRead(calls[d])
      PROVE  r.uid # u
  BY <1>5 DEF Alone, Ownership, Owned
<1>6. QED
  BY <1>2, <1>3, <1>4, <1>5 DEF WorkerObjects, Outstanding

(* The registration has its result: a client is sent, a worker is current. *)
LEMMA OwnershipRegistered ==
    ASSUME TypeInv, Ownership, NEW c \in CallIds, calls[c] # NULL,
           IsNew(calls[c]), calls[c].rec.image => calls[c].rec.uid \in images,
           UserRegistered(c), UNCHANGED backend
    PROVE  Ownership'
<1>1. Owned(calls[c]) /\ Alone(c) /\ Registering(calls[c])
  BY DEF Ownership, IsNew
<1>2. CASE calls[c].rec.kind = "Client" /\ stay(Awaiting(c, "sendClient"))
           /\ UNCHANGED currentUser
  BY <1>2, NextAwait DEF stay
<1>3. CASE /\ calls[c].rec.kind = "Worker" /\ currentUser' = calls[c].rec
           /\ \/ push(NewRoute("WorkerComplement", NULL), Finished(c))
              \/ stay(Finished(c))
  <2>1. Held(calls[c].rec)
    BY <1>1 DEF Owned, Held, Alone, NotClient
  <2>2. \A d \in CallIds \ {c} :
           calls[d] # NULL /\ IsNew(calls[d]) => calls[d].rec.uid # calls[c].rec.uid
    BY <1>1 DEF Alone
  <2>3. Known(calls[c].rec)
    BY <1>1, NoObjectYet DEF Known
  <2>4. QED
    BY <1>3, <2>1, <2>2, <2>3, BecomesCurrent
<1>4. QED
  BY <1>2, <1>3 DEF UserRegistered

(* Every continuation keeps profiles and owners together.                  *)
LEMMA OwnershipResume ==
    ASSUME TypeInv, Ownership, NEW c \in CallIds, Resume(c)
    PROVE  Ownership'
<1>0. /\ calls[c] # NULL /\ calls[c] \in Call /\ HasArgument(calls[c])
      /\ CallsOK(calls) /\ Owned(calls[c])
  <2>1. calls[c] # NULL
    BY DEF Resume, Answered, CheckReturns, LoginReturns, ChoiceUserReturns,
           ChoiceDataReturns, SignOutReturns, CreateUserReturns,
           PutFileReturns, GetDownloadURLReturns, SendClientReturns,
           SendWorkerReturns, SendReferenceReturns
  <2>2. QED
    BY <2>1, TopFacts DEF CallsOK, Ownership
<1>a. ASSUME NEW route, UNCHANGED <<backend, currentUser>>,
             \/ stay(Finished(c))
             \/ pushReplacement(route, Finished(c))
             \/ pushAndRemoveUntil(route, Finished(c))
      PROVE  Ownership'
  BY <1>a, Ends, QuietStep
<1>b. ASSUME RegistrationFailed(c), UNCHANGED backend PROVE Ownership'
  BY <1>a, <1>b DEF RegistrationFailed
<1>1. CASE CheckReturns(c)
  BY <1>1, <1>a DEF CheckReturns
<1>2. CASE LoginReturns(c)
  <2>1. CASE LoginFailed(c)
    <3>1. Quiet(calls')
      BY <1>0, <2>1, QuietFinished DEF LoginFailed
    <3>2. QED
      BY <1>2, <3>1, QuietStep DEF LoginReturns
  <2>2. CASE ~LoginFailed(c)
    BY <1>2, <1>a, <2>2 DEF LoginReturns
  <2>3. QED
    BY <2>1, <2>2
<1>3. CASE ChoiceUserReturns(c)
  <2>1. CASE calls' = Awaiting(c, "choiceData")
    <3>1. /\ OthersSame(c) /\ calls'[c].await = "choiceData"
          /\ calls'[c].answer = "pending"
      BY <1>0, <2>1, AwaitsAre, AwaitingSame
    <3>2. Quiet(calls')
      BY <3>1, NewIsIdle DEF Quiet, OthersSame
    <3>3. QED
      BY <1>3, <3>2, QuietStep DEF ChoiceUserReturns
  <2>2. CASE stay(Finished(c))
    BY <1>3, <1>a, <2>2 DEF ChoiceUserReturns
  <2>3. QED
    BY <1>3, <2>1, <2>2 DEF ChoiceUserReturns, stay
<1>4. CASE ChoiceDataReturns(c)
  <2>1. CASE stay(Finished(c)) /\ UNCHANGED currentUser
    BY <1>4, <1>a, <2>1 DEF ChoiceDataReturns
  <2>2. CASE /\ Succeeded(c) /\ FromDB(calls[c].kind, calls[c].rec)
             /\ ProfileRead(c)
    <3> DEFINE user == [calls[c].rec EXCEPT !.kind = calls[c].kind]
    <3>1. calls[c].rec \in Record /\ calls[c].kind \in Kinds
      BY <1>0, <1>4, <2>2
      DEF ChoiceDataReturns, Answered, HasArgument, FromDB, Call
    <3>2. Held(calls[c].rec) /\ data[calls[c].rec.uid] # NULL
      BY <1>0, <1>4, <2>2
      DEF ChoiceDataReturns, Answered, Succeeded, FromDB, Owned, HasRead
    <3>3. /\ user.uid = calls[c].rec.uid /\ user.image = calls[c].rec.image
          /\ user.kind = calls[c].kind
      BY <3>1 DEF Record
    <3>4. /\ currentUser' = user
          /\ \/ pushAndRemoveUntil(MainRoute(user.kind, user), Finished(c))
             \/ stay(Finished(c))
      BY <2>2 DEF ProfileRead
    <3> HIDE DEF user
    <3>5. Held(user)
      BY <2>2, <3>2, <3>3 DEF Held, FromDB
    <3>6. \A d \in CallIds \ {c} :
             calls[d] # NULL /\ IsNew(calls[d]) => calls[d].rec.uid # user.uid
      BY <3>2, <3>3 DEF Ownership, Alone
    <3>7. UNCHANGED backend
      BY <1>4 DEF ChoiceDataReturns
    <3>8. user.kind = "Worker" => Known(user)
      <4> SUFFICES ASSUME user.kind = "Worker" PROVE user \in WorkerObjects
        BY DEF Known
      <4>1. calls[c].rec.kind = "Worker" /\ user = calls[c].rec
        BY <2>2, <3>1, <3>3 DEF FromDB, user, Record
      <4>2. HasRead(calls[c])
        BY <1>4, <2>2 DEF ChoiceDataReturns, Answered, Succeeded, FromDB, HasRead
      <4>3. QED
        BY <1>0, <3>1, <4>1, <4>2 DEF WorkerObjects, Outstanding
    <3>9. QED
      BY <3>4, <3>5, <3>6, <3>7, <3>8, BecomesCurrent
  <2>3. CASE ProfileNotRead(c)
    BY <1>4, <1>a, <2>3 DEF ChoiceDataReturns, ProfileNotRead
  <2>4. QED
    BY <1>4, <2>1, <2>2, <2>3 DEF ChoiceDataReturns
<1>5. CASE SignOutReturns(c)
  <2>1. CASE calls[c].mounted
    <3> DEFINE cs == Detached(calls, 0)
    <3>1. CallsOK(cs) /\ Quiet(cs)
      <4>1. Quiet(calls)
        BY <1>0, QuietFinished
      <4>2. QED
        BY <1>0, <4>1, DetachedOK, QuietDetached
    <3>2. Idle(HomeCheck)
      BY NewIsIdle DEF HomeCheck, NewCall
    <3>3. calls' = [cs EXCEPT ![c] = HomeCheck]
      BY <1>5, <2>1 DEF SignOutReturns
    <3> HIDE DEF cs
    <3>4. Quiet(calls')
      BY <3>1, <3>2, <3>3 DEF Quiet, CallsOK
    <3>5. QED
      BY <1>5, <3>4, QuietStep DEF SignOutReturns
  <2>2. CASE ~calls[c].mounted
    BY <1>5, <1>a, <2>2 DEF SignOutReturns
  <2>3. QED
    BY <2>1, <2>2
<1>6. CASE CreateUserReturns(c)
  <2>1. CASE Succeeded(c)
    <3>1. IsNew(calls[c])
      BY <1>6, <2>1 DEF CreateUserReturns, Answered, Succeeded, IsNew, Registering
    <3>2. CASE calls[c].rec.image
      BY <1>0, <1>6, <2>1, <3>1, <3>2, NextAwait DEF CreateUserReturns, stay
    <3>3. CASE ~calls[c].rec.image
      BY <1>0, <1>6, <2>1, <3>1, <3>3, OwnershipRegistered DEF CreateUserReturns
    <3>4. QED
      BY <3>2, <3>3
  <2>2. CASE ~Succeeded(c)
    BY <1>6, <1>b, <2>2 DEF CreateUserReturns
  <2>3. QED
    BY <2>1, <2>2
<1>7. CASE PutFileReturns(c)
  <2>1. IsNew(calls[c])
    BY <1>7 DEF PutFileReturns, Answered, IsNew, Registering
  <2>2. QED
    BY <1>0, <1>7, <2>1, NextAwait DEF PutFileReturns, stay
<1>8. CASE GetDownloadURLReturns(c)
  <2>1. CASE Succeeded(c)
    <3>1. IsNew(calls[c]) /\ (calls[c].rec.image => calls[c].rec.uid \in images)
      BY <1>0, <1>8, <2>1
      DEF GetDownloadURLReturns, Answered, Succeeded, IsNew, Registering, Owned, HasUrl
    <3>2. QED
      BY <1>0, <1>8, <2>1, <3>1, OwnershipRegistered DEF GetDownloadURLReturns
  <2>2. CASE ~Succeeded(c)
    BY <1>8, <1>b, <2>2 DEF GetDownloadURLReturns
  <2>3. QED
    BY <2>1, <2>2
<1>9. CASE SendClientReturns(c)
  <2>1. Held(calls[c].rec) /\ calls[c].rec.kind = "Client"
    BY <1>0, <1>9
    DEF SendClientReturns, Answered, Owned, Held, Registering, HasUrl
  <2>2. QED
    BY <1>9, <2>1, BecomesCurrent DEF SendClientReturns
<1>10. CASE SendWorkerReturns(c)
  <2> DEFINE call == [calls[c] EXCEPT !.await = "sendReference",
                        !.answer = "pending", !.sent = Succeeded(c)]
  <2>1. calls' = [calls EXCEPT ![c] = call]
    BY <1>0, <1>10 DEF SendWorkerReturns, stay, Awaiting, CallsOK
  <2>2. /\ call.await = "sendReference" /\ call.answer = "pending"
        /\ call.sent = Succeeded(c) /\ call.rec = calls[c].rec
    BY <1>0 DEF Call
  <2> HIDE DEF call
  <2>3. calls'[c] = call /\ \A d \in CallIds \ {c} : calls'[d] = calls[d]
    BY <1>0, <2>1 DEF CallsOK
  <2>4. Owned(call)
    BY <1>0, <1>10, <2>2
    DEF SendWorkerReturns, Answered, Succeeded, Owned, Registering, Completing,
        HasUrl, HasSent, HasRead
  <2>5. OthersSame(c) /\ GoesOn(c)
    BY <1>0, <1>10, <2>2, <2>3, <2>4
    DEF OthersSame, SameCall, GoesOn, IsNew, Registering, Completing, HasRead,
        SendWorkerReturns, Answered
  <2>6. QED
    BY <1>10, <2>5, ActingStep DEF SendWorkerReturns, KeepsCurrent
<1>11. CASE SendReferenceReturns(c)
  BY <1>11, <1>a DEF SendReferenceReturns
<1>12. QED
  BY <1>1, <1>2, <1>3, <1>4, <1>5, <1>6, <1>7, <1>8, <1>9, <1>10, <1>11
  DEF Resume

-----------------------------------------------------------------------------
(* Firebase *)

(* An answer changes the answer of one call and nothing else of the calls. *)
LEMMA ReplySame ==
    ASSUME TypeInv, NEW c \in CallIds, calls[c] # NULL, NEW answer,
           Reply(c, answer)
    PROVE  /\ \A d \in CallIds \ {c} : calls'[d] = calls[d]
           /\ OthersSame(c)
           /\ calls'[c].await = calls[c].await /\ calls'[c].rec = calls[c].rec
           /\ calls'[c].sent = calls[c].sent /\ calls'[c].answer = answer
<1>1. calls \in [CallIds -> Call \cup {NULL}] /\ calls[c] \in Call
  BY TopFacts DEF CallsOK
<1>2. calls'[c] = [calls[c] EXCEPT !.answer = answer]
  BY <1>1 DEF Reply
<1>3. \A d \in CallIds \ {c} : calls'[d] = calls[d]
  BY <1>1 DEF Reply
<1>4. QED
  BY <1>1, <1>2, <1>3 DEF OthersSame, SameCall, Call

(* An answer that stores nothing, and after which the call still owns what *)
(* it acts for.                                                            *)
LEMMA Replied ==
    ASSUME TypeInv, Ownership, NEW c \in CallIds, calls[c] # NULL, NEW answer,
           Reply(c, answer), OnlyGrown, UNCHANGED currentUser,
           Owned(calls'[c]), IsNew(calls'[c]) => Alone(c), ~HasRead(calls'[c])
    PROVE  Ownership'
<1>1. /\ OthersSame(c) /\ calls'[c].rec = calls[c].rec
      /\ calls'[c].await = calls[c].await
  BY ReplySame
<1>2. GoesOn(c) /\ KeepsCurrent(c)
  BY <1>1 DEF GoesOn, KeepsCurrent, Completing
<1>3. QED
  BY <1>1, <1>2, ServedStep

(* An account that does not exist yet is in nobody's hands: the one that   *)
(* createUserWithEmailAndPassword() creates belongs to its call alone.     *)
LEMMA FreshIsAlone ==
    ASSUME TypeInv, Ownership, NEW c \in CallIds, calls[c] # NULL,
           calls[c].rec \in Record, calls[c].rec.uid \notin accounts
    PROVE  Alone(c)
<1> DEFINE u == calls[c].rec.uid
<1>1. u \in Users
  BY DEF Record
<1>2. data[u] = NULL /\ u \notin index
  BY <1>1 DEF Ownership, Stored
<1>3. currentUser # NULL => currentUser.uid # u
  BY DEF Ownership, Held
<1>4. ASSUME NEW d \in CallIds, calls[d] # NULL,
             IsNew(calls[d]) \/ Completing(calls[d])
      PROVE  calls[d].rec.uid # u
  BY <1>4 DEF Ownership, Owned, IsNew, Held
<1>5. QED
  BY <1>2, <1>3, <1>4 DEF Alone, GetsCurrent

(* A profile arrives at the database: nobody who holds, sends or has read  *)
(* another profile of the same account is contradicted by it.              *)
LEMMA OwnershipSent ==
    ASSUME TypeInv, Ownership, NEW c \in CallIds, Pending(c),
           calls[c].await \in {"sendClient", "sendWorker"},
           data' = [data EXCEPT ![DataPath(calls[c].rec)] = calls[c].rec],
           Reply(c, "ok"),
           UNCHANGED <<accounts, index, images, currentUser>>
    PROVE  Ownership'
<1> DEFINE r == calls[c].rec
           u == r.uid
<1>1. /\ calls[c] # NULL /\ Owned(calls[c]) /\ r \in Record /\ u \in Users
      /\ r # NULL /\ data \in [Users -> Record \cup {NULL}]
  BY TopFacts, NullIsNoRecord
  DEF Pending, Ownership, CallsOK, HasArgument, TypeInv, TypeOK, Record
<1>2. /\ \A d \in CallIds \ {c} : calls'[d] = calls[d]
      /\ calls'[c].await = calls[c].await /\ calls'[c].rec = r
      /\ calls'[c].sent = calls[c].sent /\ calls'[c].answer = "ok"
  BY <1>1, ReplySame
<1>3. data'[u] = r /\ \A v \in Users \ {u} : data'[v] = data[v]
  BY <1>1 DEF DataPath
<1>4. u \in accounts /\ (r.image => u \in images)
  BY <1>1 DEF Owned, Registering, Completing, HasUrl, Held
<1>5. r.kind = "Client" => Alone(c)
  BY <1>1 DEF Pending, Ownership, IsNew, Registering, Owned, Completing
<1>6. r.kind \in Kinds /\ NotClient(u) /\ (u \in index => r.kind = "Worker")
  <2>1. r.kind \in Kinds
    BY <1>1 DEF Record
  <2>2. QED
    BY <1>1, <1>5, <2>1 DEF Kinds, Owned, Completing, Held, Alone, NotClient
<1>7. Stored'
  BY <1>1, <1>3, <1>4, <1>6
  DEF Ownership, Stored, NotClient, Kinds, TypeInv, TypeOK
<1>8. ASSUME NEW rec, Held(rec), rec.uid \in Users,
             rec.kind = "Worker" /\ rec.uid = u => r.kind = "Worker"
      PROVE  /\ rec.uid \in accounts' /\ (rec.image => rec.uid \in images')
             /\ rec.kind = "Worker" => NotClient(rec.uid)'
  BY <1>3, <1>8 DEF Held, NotClient
<1>9. currentUser' # NULL => Held(currentUser)'
  <2> SUFFICES ASSUME currentUser # NULL PROVE Held(currentUser)'
    OBVIOUS
  <2>1. Held(currentUser) /\ currentUser.uid \in Users
    BY DEF Ownership, TypeInv, TypeOK, Record
  <2>2. currentUser.kind = "Worker" /\ currentUser.uid = u => r.kind = "Worker"
    BY <1>5, <1>6 DEF Alone, GetsCurrent, Kinds
  <2>3. QED
    BY <1>8, <2>1, <2>2 DEF Held
<1>10. ASSUME NEW d \in CallIds \ {c}, calls[d] # NULL PROVE Owned(calls[d])'
  <2>1. Owned(calls[d]) /\ calls[d] \in Call /\ HasArgument(calls[d])
    BY <1>10, TopFacts DEF Ownership, CallsOK
  <2>2. calls'[d] = calls[d]
    BY <1>2
  <2>3. Completing(calls[d]) => calls[d].rec.kind = "Worker" /\ Held(calls[d].rec)'
    <3> SUFFICES ASSUME Completing(calls[d])
                 PROVE  calls[d].rec.kind = "Worker" /\ Held(calls[d].rec)'
      OBVIOUS
    <3>1. /\ Held(calls[d].rec) /\ calls[d].rec.uid \in Users
          /\ calls[d].rec.kind = "Worker"
      BY <2>1 DEF Owned, HasArgument, Completing, Record
    <3>2. calls[d].rec.uid = u => r.kind = "Worker"
      BY <1>5, <1>6, <1>10 DEF Alone, Kinds
    <3>3. QED
      BY <1>8, <2>2, <3>1, <3>2 DEF Held
  <2>4. HasRead(calls[d]) =>
           Held(calls[d].rec)' /\ data'[calls[d].rec.uid] # NULL
    <3> SUFFICES ASSUME HasRead(calls[d])
                 PROVE  Held(calls[d].rec)' /\ data'[calls[d].rec.uid] # NULL
      OBVIOUS
    <3>1. /\ Held(calls[d].rec) /\ calls[d].rec.uid \in Users
          /\ data[calls[d].rec.uid] # NULL
      BY <2>1 DEF Owned, HasRead, Call, Record
    <3>2. calls[d].rec.uid = u => r.kind = "Worker"
      BY <1>5, <1>6, <3>1 DEF Alone, Kinds
    <3>3. Held(calls[d].rec)'
      BY <1>8, <2>2, <3>1, <3>2 DEF Held
    <3>4. QED
      BY <1>1, <1>3, <3>1, <3>3
  <2>5. HasSent(calls[d]) => data'[calls[d].rec.uid] # NULL
    <3> SUFFICES ASSUME HasSent(calls[d])
                 PROVE  data'[calls[d].rec.uid] # NULL
      OBVIOUS
    <3>1. data[calls[d].rec.uid] # NULL /\ calls[d].rec.uid \in Users
      BY <2>1 DEF Owned, HasSent, HasArgument, Record
    <3>2. QED
      BY <1>1, <1>3, <3>1
  <2>6. QED
    BY <2>1, <2>2, <2>3, <2>4, <2>5
    DEF Owned, Registering, Completing, HasUrl, HasRead, HasSent
<1>11. Owned(calls[c])' /\ ~IsNew(calls'[c])
  BY <1>1, <1>2, <1>3, <1>4, <1>6
  DEF Owned, Held, NotClient, IsNew, Registering, Completing, HasUrl, HasSent, HasRead
<1>12. ASSUME NEW d \in CallIds, calls'[d] # NULL, IsNew(calls'[d])
       PROVE  Alone(d)'
  <2>1. d # c /\ calls'[d] = calls[d] /\ calls[d] # NULL /\ Alone(d)
    BY <1>2, <1>11, <1>12 DEF Ownership
  <2>2. calls[d].rec.uid # u
    BY <1>1, <2>1 DEF Alone, Completing, IsNew, Registering, Pending
  <2>3. calls[d].rec.uid \in Users
    BY <1>12, <2>1, TopFacts DEF CallsOK, HasArgument, IsNew, Registering, Record
  <2>4. ASSUME NEW e \in CallIds \ {d}, calls'[e] # NULL,
               IsNew(calls'[e]) \/ Completing(calls'[e])
        PROVE  calls'[e].rec.uid # calls[d].rec.uid
    <3>1. CASE e = c
      BY <1>2, <2>2, <3>1
    <3>2. CASE e # c
      BY <1>2, <2>1, <2>4, <3>2 DEF Alone
    <3>3. QED
      BY <3>1, <3>2
  <2>5. QED
    BY <1>3, <2>1, <2>2, <2>3, <2>4 DEF Alone
<1>13. NoOtherObject
  <2> SUFFICES ASSUME NEW s \in WorkerObjects' PROVE s \in WorkerObjects
    BY DEF NoOtherObject
  <2>1. s \in Record /\ s.kind = "Worker"
    BY DEF WorkerObjects
  <2>2. CASE s = currentUser
    BY <2>1, <2>2 DEF WorkerObjects
  <2>3. ASSUME NEW d \in CallIds, calls'[d] # NULL, s = calls'[d].rec,
               Completing(calls'[d]) \/ HasRead(calls'[d])
        PROVE  s \in WorkerObjects
    <3>1. CASE d = c
      BY <1>1, <1>2, <2>1, <2>3, <3>1
      DEF WorkerObjects, Outstanding, Completing, HasRead
    <3>2. CASE d # c
      BY <1>2, <2>1, <2>3, <3>2 DEF WorkerObjects, Outstanding
    <3>3. QED
      BY <3>1, <3>2
  <2>4. ASSUME NEW v \in Users, s = data'[v] PROVE s \in WorkerObjects
    <3>1. CASE v = u
      <4>1. Completing(calls[c]) /\ s = calls[c].rec
        BY <1>1, <1>3, <2>1, <2>4, <3>1 DEF Owned, Completing
      <4>2. QED
        BY <1>1, <2>1, <4>1 DEF WorkerObjects, Outstanding
    <3>2. CASE v # u
      BY <1>3, <2>1, <2>4, <3>2 DEF WorkerObjects
    <3>3. QED
      BY <3>1, <3>2
  <2>5. QED
    BY <2>2, <2>3, <2>4 DEF WorkerObjects, Outstanding
<1>14. WorkersAgree'
  BY <1>13, StillAgree DEF Ownership
<1>15. QED
  BY <1>2, <1>7, <1>9, <1>10, <1>11, <1>12, <1>14 DEF Ownership

(* An answer that stores no profile and reads none brings no new object.   *)
LEMMA SameObjects ==
    ASSUME UNCHANGED <<data, currentUser>>, NEW c \in CallIds, calls[c] # NULL,
           \A d \in CallIds \ {c} : calls'[d] = calls[d],
           calls'[c].rec = calls[c].rec, ~HasRead(calls'[c]),
           Completing(calls'[c]) => Completing(calls[c])
    PROVE  NoOtherObject
<1> SUFFICES ASSUME NEW r \in WorkerObjects' PROVE r \in WorkerObjects
  BY DEF NoOtherObject
<1>1. ASSUME NEW d \in CallIds, calls'[d] # NULL, r = calls'[d].rec,
             Completing(calls'[d]) \/ HasRead(calls'[d])
      PROVE  /\ calls[d] # NULL /\ r = calls[d].rec
             /\ Completing(calls[d]) \/ HasRead(calls[d])
  BY <1>1
<1>2. QED
  BY <1>1 DEF WorkerObjects, Outstanding

(* A worker is listed: its account exists and is not a client's.           *)
LEMMA OwnershipListed ==
    ASSUME TypeInv, Ownership, NEW c \in CallIds, calls[c] # NULL,
           calls[c].await = "sendReference",
           index' = index \cup {calls[c].rec.uid}, Reply(c, "ok"),
           UNCHANGED <<accounts, data, images, currentUser>>
    PROVE  Ownership'
<1>1. Owned(calls[c])
  BY DEF Ownership
<1>2. calls[c].rec.uid \in accounts /\ NotClient(calls[c].rec.uid)
  BY <1>1 DEF Owned, Completing, Held
<1>3. /\ \A d \in CallIds \ {c} : calls'[d] = calls[d]
      /\ calls'[c].await = "sendReference" /\ calls'[c].rec = calls[c].rec
      /\ calls'[c].sent = calls[c].sent /\ calls'[c].answer = "ok"
  BY ReplySame
<1>4. Stored' /\ (currentUser' # NULL => Held(currentUser)')
  BY <1>2 DEF Ownership, Stored, Held, NotClient
<1>5. ASSUME NEW d \in CallIds, calls'[d] # NULL PROVE Owned(calls[d])'
  <2>1. CASE d = c
    BY <1>1, <1>3, <2>1
    DEF Owned, Held, NotClient, Registering, Completing, HasUrl, HasSent, HasRead
  <2>2. CASE d # c
    <3>1. Owned(calls[d]) /\ calls'[d] = calls[d]
      BY <1>3, <1>5, <2>2 DEF Ownership
    <3>2. QED
      BY <3>1 DEF Owned, Held, NotClient
  <2>3. QED
    BY <2>1, <2>2
<1>6. ASSUME NEW d \in CallIds, calls'[d] # NULL, IsNew(calls'[d])
      PROVE  Alone(d)'
  <2>1. d # c /\ calls'[d] = calls[d] /\ Alone(d)
    BY <1>3, <1>6 DEF Ownership, IsNew, Registering
  <2>2. calls[d].rec.uid # calls[c].rec.uid
    BY <2>1 DEF Alone, Completing
  <2>3. ASSUME NEW e \in CallIds \ {d}, calls'[e] # NULL,
               IsNew(calls'[e]) \/ Completing(calls'[e])
        PROVE  calls'[e].rec.uid # calls[d].rec.uid
    BY <1>3, <2>1, <2>2, <2>3 DEF Alone
  <2>4. QED
    BY <2>1, <2>2, <2>3 DEF Alone
<1>7. NoOtherObject
  BY <1>3, SameObjects DEF Completing, HasRead
<1>8. WorkersAgree'
  BY <1>7, StillAgree DEF Ownership
<1>9. QED
  BY <1>4, <1>5, <1>6, <1>8 DEF Ownership, IsNew, Registering

(* Whatever Firebase does with a call, profiles and owners stay together.  *)
LEMMA OwnershipServe ==
    ASSUME TypeInv, Ownership, NEW c \in CallIds, ServeAuth(c) \/ ServeStores(c)
    PROVE  Ownership'
<1>0. /\ calls[c] # NULL /\ calls[c].answer = "pending" /\ UNCHANGED currentUser
      /\ calls[c] \in Call /\ HasArgument(calls[c]) /\ Owned(calls[c])
      /\ calls \in [CallIds -> Call \cup {NULL}]
  BY TopFacts DEF ServeAuth, ServeStores, Pending, CallsOK, Ownership
<1>1. ASSUME UNCHANGED <<accounts, data, index, images>> PROVE OnlyGrown
  BY <1>1 DEF OnlyGrown, Ownership, Stored
<1>2. CASE ServeCurrentUser(c)
  <2>1. /\ calls'[c] = [calls[c] EXCEPT !.answer = "ok", !.user = signedIn]
        /\ \A d \in CallIds \ {c} : calls'[d] = calls[d]
        /\ UNCHANGED backend
    BY <1>0, <1>2 DEF ServeCurrentUser
  <2>2. calls'[c].await \in {"checkUserLogged", "choiceUser"}
    BY <1>0, <1>2, <2>1 DEF ServeCurrentUser, Call
  <2>3. Idle(calls'[c])
    BY <2>2 DEF Idle, Registering, Completing, HasRead
  <2>4. Quiet(calls')
    BY <2>1, <2>3 DEF Quiet, SameCall
  <2>5. QED
    BY <1>0, <2>1, <2>4, QuietStep
<1>3. CASE ServeSignIn(c) \/ ServeSignOut(c)
  <2>1. PICK answer \in {"ok", "error"} : Reply(c, answer)
    BY <1>3 DEF ServeSignIn, ServeSignOut
  <2>2. calls'[c].await \in {"signIn", "signOut"}
    BY <1>0, <1>3, <2>1, ReplySame DEF ServeSignIn, ServeSignOut
  <2>3. Owned(calls'[c]) /\ ~IsNew(calls'[c]) /\ ~HasRead(calls'[c])
    BY <2>2 DEF Owned, IsNew, Registering, Completing, HasUrl, HasSent, HasRead
  <2>4. OnlyGrown
    BY <1>1, <1>3 DEF ServeSignIn, ServeSignOut
  <2>5. QED
    BY <1>0, <2>1, <2>3, <2>4, Replied
<1>4. CASE ServeCreateUser(c)
  <2>1. calls[c].rec \in Record /\ calls[c].await = "createUser"
    BY <1>0, <1>4 DEF ServeCreateUser, HasArgument
  <2>2. CASE calls[c].rec.uid \notin accounts /\ Reply(c, "ok")
             /\ accounts' = accounts \cup {calls[c].rec.uid}
    <3>1. Alone(c)
      BY <1>0, <2>1, <2>2, FreshIsAlone
    <3>2. /\ calls'[c].await = "createUser" /\ calls'[c].rec = calls[c].rec
          /\ OthersSame(c)
      BY <1>0, <2>1, <2>2, ReplySame
    <3>3. OnlyGrown
      BY <1>4, <2>2 DEF ServeCreateUser, OnlyGrown, Ownership, Stored
    \* not Replied: the call owns its account only from this step on
    <3>4. /\ \A d \in CallIds \ {c} : calls'[d] = calls[d]
          /\ calls'[c].answer = "ok"
      BY <1>0, <2>2, ReplySame
    <3>5. Stored' /\ (currentUser' # NULL => Held(currentUser)')
      BY <1>0, <3>3 DEF Ownership, Stored, Held, NotClient, OnlyGrown
    <3>6. Owned(calls[c])'
      BY <2>2, <3>2, <3>4
      DEF Owned, Registering, Completing, HasUrl, HasSent, HasRead
    <3>7. ASSUME NEW d \in CallIds \ {c}, calls'[d] # NULL
          PROVE  Owned(calls[d])' /\ (IsNew(calls'[d]) => Alone(d)')
      <4>1. /\ calls'[d] = calls[d] /\ Owned(calls[d])
            /\ IsNew(calls[d]) => Alone(d)
        BY <3>4, <3>7 DEF Ownership
      <4>2. Owned(calls[d])'
        BY <3>3, <4>1 DEF Owned, Held, NotClient, OnlyGrown
      <4>3. ASSUME IsNew(calls'[d]) PROVE Alone(d)'
        <5>1. Alone(d) /\ calls[d].rec.uid # calls[c].rec.uid
          BY <3>1, <3>7, <4>1, <4>3 DEF Alone
        <5>2. QED
          BY <1>0, <3>2, <3>3, <3>4, <4>1, <5>1 DEF Alone, OnlyGrown
      <4>4. QED
        BY <4>2, <4>3
    <3>8. Alone(c)'
      BY <1>0, <3>1, <3>2, <3>3, <3>4 DEF Alone, OnlyGrown
    <3>9. NoOtherObject
      BY <1>0, <3>2, <3>3, <3>4, SameObjects DEF OnlyGrown, Completing, HasRead
    <3>10. QED
      BY <3>5, <3>6, <3>7, <3>8, <3>9, StillAgree DEF Ownership, IsNew, Registering
  <2>3. CASE /\ accounts' \in {accounts, accounts \cup {calls[c].rec.uid}}
             /\ Reply(c, "error")
    <3>1. calls'[c].await = "createUser" /\ calls'[c].answer = "error"
      BY <1>0, <2>1, <2>3, ReplySame
    <3>2. Owned(calls'[c]) /\ ~IsNew(calls'[c]) /\ ~HasRead(calls'[c])
      BY <3>1 DEF Owned, IsNew, Registering, Completing, HasUrl, HasSent, HasRead
    <3>3. OnlyGrown
      BY <1>4, <2>3 DEF ServeCreateUser, OnlyGrown, Ownership, Stored
    <3>4. QED
      BY <1>0, <2>3, <3>2, <3>3, Replied
  <2>4. QED
    BY <1>4, <2>2, <2>3 DEF ServeCreateUser
<1>5. CASE ServeOnce(c)
  <2>1. CASE Reply(c, "error")
    <3>1. calls'[c].await = "choiceData" /\ calls'[c].answer = "error"
      BY <1>0, <1>5, <2>1, ReplySame DEF ServeOnce
    <3>2. Owned(calls'[c]) /\ ~IsNew(calls'[c]) /\ ~HasRead(calls'[c])
      BY <3>1 DEF Owned, IsNew, Registering, Completing, HasUrl, HasSent, HasRead
    <3>3. OnlyGrown
      BY <1>1, <1>5 DEF ServeOnce, backend
    <3>4. QED
      BY <1>0, <2>1, <3>2, <3>3, Replied
  <2>2. CASE calls' = [calls EXCEPT ![c].answer = "ok",
                                    ![c].rec = data[calls[c].user]]
    <3> DEFINE r == data[calls[c].user]
    <3>1. /\ calls'[c] = [calls[c] EXCEPT !.answer = "ok", !.rec = r]
          /\ \A d \in CallIds \ {c} : calls'[d] = calls[d]
      BY <1>0, <2>2
    <3>2. calls'[c].await = "choiceData" /\ calls'[c].rec = r
      BY <1>0, <1>5, <3>1 DEF Call, ServeOnce
    <3>3. calls[c].user \in Users
      BY <1>0, <1>5 DEF HasArgument, ServeOnce
    <3>4. r # NULL => Held(r) /\ r.uid = calls[c].user
      BY <3>3 DEF Ownership, Stored, Held, NotClient
    <3>5. Owned(calls'[c]) /\ ~IsNew(calls'[c]) /\ ~Completing(calls'[c])
      BY <3>2, <3>4 DEF Owned, IsNew, Registering, Completing, HasUrl, HasSent, HasRead
    <3>6. OthersSame(c) /\ GoesOn(c) /\ KeepsCurrent(c)
      BY <1>0, <3>1, <3>2, <3>3, <3>5 DEF OthersSame, SameCall, GoesOn, KeepsCurrent
    <3>7. QED
      BY <1>5, <3>6, ActingStep DEF ServeOnce
  <2>3. QED
    BY <1>5, <2>1, <2>2 DEF ServeOnce
<1>6. CASE ServePutFile(c)
  <2>1. calls'[c].await = "putFile" /\ calls'[c].rec = calls[c].rec
    BY <1>0, <1>6, ReplySame DEF ServePutFile
  <2>2. calls[c].rec.uid \in accounts /\ Alone(c)
    BY <1>0, <1>6 DEF ServePutFile, Owned, Ownership, IsNew, Registering
  <2>3. Owned(calls'[c]) /\ ~HasRead(calls'[c])
    BY <2>1, <2>2 DEF Owned, Registering, Completing, HasUrl, HasSent, HasRead
  <2>4. OnlyGrown
    BY <1>6, <2>2 DEF ServePutFile, OnlyGrown, Ownership, Stored
  <2>5. QED
    BY <1>0, <1>6, <2>2, <2>3, <2>4, Replied DEF ServePutFile
<1>7. CASE ServeGetDownloadURL(c)
  <2>1. PICK answer \in {"ok", "error"} :
           Reply(c, answer) /\ (answer = "ok" => calls[c].rec.uid \in images)
    BY <1>7 DEF ServeGetDownloadURL
  <2>2. /\ calls'[c].await = "getDownloadURL" /\ calls'[c].rec = calls[c].rec
        /\ calls'[c].answer = answer
    BY <1>0, <1>7, <2>1, ReplySame DEF ServeGetDownloadURL
  <2>3. calls[c].rec.uid \in accounts /\ Alone(c)
    BY <1>0, <1>7 DEF ServeGetDownloadURL, Owned, Ownership, IsNew, Registering
  <2>4. Owned(calls'[c]) /\ ~HasRead(calls'[c])
    BY <2>1, <2>2, <2>3 DEF Owned, Registering, Completing, HasUrl, HasSent, HasRead
  <2>5. OnlyGrown
    BY <1>1, <1>7 DEF ServeGetDownloadURL, backend
  <2>6. QED
    BY <1>0, <2>1, <2>3, <2>4, <2>5, Replied
<1>8. ASSUME calls[c].await \in {"sendClient", "sendWorker", "sendReference"},
             Reply(c, "error"), UNCHANGED <<accounts, data, index, images>>
      PROVE  Ownership'
  <2>1. /\ calls'[c].await = calls[c].await /\ calls'[c].rec = calls[c].rec
        /\ calls'[c].sent = calls[c].sent /\ calls'[c].answer = "error"
    BY <1>0, <1>8, ReplySame
  <2>2. Owned(calls'[c]) /\ ~IsNew(calls'[c]) /\ ~HasRead(calls'[c])
    BY <1>0, <1>8, <2>1
    DEF Owned, IsNew, Registering, Completing, HasUrl, HasSent, HasRead
  <2>3. QED
    BY <1>0, <1>1, <1>8, <2>2, Replied
<1>9. CASE ServeSendUser(c)
  BY <1>0, <1>8, <1>9, OwnershipSent DEF ServeSendUser, Pending
<1>10. CASE ServeSendReference(c)
  BY <1>0, <1>8, <1>10, OwnershipListed DEF ServeSendReference
<1>11. QED
  BY <1>2, <1>3, <1>4, <1>5, <1>6, <1>7, <1>9, <1>10 DEF ServeAuth, ServeStores

(* Every step of the app, the platform and Firebase.                       *)
LEMMA OwnershipStep == TypeInv /\ Ownership /\ [Next]_vars => Ownership'
<1> SUFFICES ASSUME TypeInv, Ownership, [Next]_vars PROVE Ownership'
  OBVIOUS
<1>1. CASE UNCHANGED vars
  BY <1>1 DEF vars, Ownership, Stored, Held, NotClient, Owned, Alone, HasRead,
              HasSent, HasUrl, Registering, Completing, IsNew, GetsCurrent,
              WorkersAgree, WorkerObjects, Outstanding
<1>2. CASE Next
  BY <1>2, OwnershipTap, OwnershipPlatform, OwnershipServe, OwnershipResume DEF Next
<1>3. QED
  BY <1>1, <1>2

(* Objects that wait in calls and in LoginController belong together with  *)
(* what Firebase stores, however calls overlap.                            *)
THEOREM OwnershipHolds == Spec => []Ownership
<1>1. Init => TypeInv /\ Ownership
  BY TypeInit, OwnershipInit
<1>2. TypeInv /\ Ownership /\ [Next]_vars => TypeInv' /\ Ownership'
  BY TypeStep, OwnershipStep
<1>3. QED
  BY <1>1, <1>2, PTL DEF Spec

(* Profiles, references and pictures exist only for accounts that exist.   *)
THEOREM AccountsFirst == Spec => []AccountFirst
<1>1. Ownership => AccountFirst
  BY DEF Ownership, Stored, AccountFirst
<1>2. QED
  BY <1>1, OwnershipHolds, PTL

(* A picture that a profile names is in Storage.                           *)
THEOREM PicturesStored == Spec => []PictureStored
<1>1. Ownership => PictureStored
  BY DEF Ownership, Stored, Held, PictureStored
<1>2. QED
  BY <1>1, OwnershipHolds, PTL

(* When registerCompleteWorker() reports success, both writes were made    *)
(* and the profile is a worker's.                                          *)
THEOREM CompletedStored == Spec => []CompletedIsStored
<1>1. Ownership => CompletedIsStored
  <2> SUFFICES ASSUME Ownership, NEW c \in Outstanding,
                      calls[c].await = "sendReference", Completed(c)
               PROVE  LET u == calls[c].rec.uid
                      IN  data[u] # NULL /\ data[u].kind = "Worker" /\ u \in index
    BY DEF CompletedIsStored
  <2>1. Owned(calls[c])
    BY DEF Ownership, Outstanding
  <2>2. QED
    BY <2>1 DEF Completed, Succeeded, Owned, Completing, HasSent, Held, NotClient
<1>2. QED
  BY <1>1, OwnershipHolds, PTL
=============================================================================
