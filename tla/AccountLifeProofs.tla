------------------------- MODULE AccountLifeProofs -------------------------
(***************************************************************************)
(* Folium implements the life of an account: every step of the app or of   *)
(* Firebase is a step of Accounts, or leaves every account as it is; and a *)
(* profile that is stored again is the one that was there.                 *)
(***************************************************************************)
EXTENDS OwnershipProofs

(* Nothing is stored at first.                                             *)
LEMMA LifeInit == Init => Abstract!Init
BY DEF Init, Abstract!Init, Stage

(* Steps that leave the stores alone leave every account as it is.         *)
LEMMA LifeStutters ==
    ASSUME UNCHANGED <<accounts, data, index>>
    PROVE  UNCHANGED Abstract!vars
BY DEF Abstract!vars, Stage

(* The account whose stage an answer of Firebase changes.                  *)
LEMMA StageOf ==
    ASSUME NEW u \in Users, \A v \in Users \ {u} : Stage(v)' = Stage(v)
    PROVE  [v \in Users |-> Stage(v)]'
              = [[v \in Users |-> Stage(v)] EXCEPT ![u] = Stage(u)']
OBVIOUS

(* Creating an account signs it up, unless it was there already.           *)
LEMMA LifeCreateUser ==
    ASSUME TypeInv, Ownership, NEW c \in CallIds, calls[c] # NULL,
           ServeCreateUser(c)
    PROVE  [Abstract!Next]_(Abstract!vars)
<1>1. PICK u \in Users : u = calls[c].rec.uid
  BY TopFacts DEF ServeCreateUser, CallsOK, HasArgument, Record
<1>2. UNCHANGED <<data, index>> /\ accounts' \in {accounts, accounts \cup {u}}
  BY <1>1 DEF ServeCreateUser
<1>3. CASE accounts' = accounts
  BY <1>2, <1>3, LifeStutters
<1>4. CASE accounts' # accounts
  <2>1. u \notin accounts /\ accounts' = accounts \cup {u}
    BY <1>2, <1>4
  <2>2. data[u] = NULL
    BY <1>1, <2>1 DEF Ownership, Stored
  <2>3. Stage(u) = "none" /\ Stage(u)' = "account"
    BY <1>2, <2>1, <2>2 DEF Stage
  <2>4. \A v \in Users \ {u} : Stage(v)' = Stage(v)
    BY <1>2, <2>1 DEF Stage
  <2>5. Abstract!SignUp(u)
    BY <1>1, <1>2, <2>3, <2>4, StageOf DEF Abstract!SignUp
  <2>6. QED
    BY <1>1, <2>5 DEF Abstract!Next
<1>5. QED
  BY <1>3, <1>4

(* The first profile of an account is stored; a second one is of the same  *)
(* kind.                                                                   *)
LEMMA LifeSendUser ==
    ASSUME TypeInv, Ownership, NEW c \in CallIds, Pending(c), ServeSendUser(c)
    PROVE  [Abstract!Next]_(Abstract!vars)
<1>0. PICK r \in Record : r = calls[c].rec
  BY TopFacts DEF Pending, CallsOK, HasArgument, ServeSendUser
<1>1. PICK u \in Users :
         /\ u = r.uid /\ r # NULL /\ r.kind \in Kinds
         /\ calls[c] # NULL /\ Owned(calls[c])
         /\ data \in [Users -> Record \cup {NULL}]
  BY NullIsNoRecord DEF Pending, Ownership, TypeInv, TypeOK, Record
<1>2. UNCHANGED <<accounts, index>>
  BY DEF ServeSendUser
<1>3. CASE UNCHANGED data
  BY <1>2, <1>3, LifeStutters
<1>4. CASE data' = [data EXCEPT ![u] = r]
  <2>1. u \in accounts
    BY <1>0, <1>1 DEF ServeSendUser, Owned, Registering, Completing, Held
  <2>2. Stage(u)' = r.kind /\ \A v \in Users \ {u} : Stage(v)' = Stage(v)
    BY <1>1, <1>2, <1>4 DEF Stage
  <2>3. CASE data[u] = NULL
    <3>1. Stage(u) = "account"
      BY <2>1, <2>3 DEF Stage
    <3>2. u \in index => r.kind = "Worker"
      BY <1>0, <1>1
      DEF ServeSendUser, Pending, Ownership, Owned, IsNew, Registering, Alone,
          Completing
    <3>3. Abstract!StoreProfile(u, r.kind)
      BY <1>1, <1>2, <2>2, <3>1, <3>2, StageOf DEF Abstract!StoreProfile
    <3>4. QED
      BY <1>1, <3>3 DEF Abstract!Next, Kinds
  <2>4. CASE data[u] # NULL
    <3>1. r.kind = "Worker" /\ data[u].kind = "Worker"
      BY <1>0, <1>1, <2>4
      DEF ServeSendUser, Pending, Ownership, Owned, IsNew, Registering, Alone,
          Completing, Held, NotClient
    <3>2. \A v \in Users : Stage(v)' = Stage(v)
      BY <2>2, <2>4, <3>1 DEF Stage
    <3>3. QED
      BY <1>2, <3>2 DEF Abstract!vars
  <2>5. QED
    BY <2>3, <2>4
<1>5. QED
  BY <1>0, <1>1, <1>3, <1>4 DEF ServeSendUser, DataPath

(* Only an account that is not a client's is listed.                       *)
LEMMA LifeSendReference ==
    ASSUME TypeInv, Ownership, NEW c \in CallIds, calls[c] # NULL,
           ServeSendReference(c)
    PROVE  [Abstract!Next]_(Abstract!vars)
<1>1. PICK u \in Users : u = calls[c].rec.uid /\ Owned(calls[c])
  BY TopFacts DEF ServeSendReference, Ownership, CallsOK, HasArgument, Record
<1>2. UNCHANGED <<accounts, data>>
  BY DEF ServeSendReference
<1>3. CASE UNCHANGED index
  BY <1>2, <1>3, LifeStutters
<1>4. CASE index' = index \cup {u}
  <2>1. Stage(u) \in {"account", "Worker"}
    BY <1>1 DEF ServeSendReference, Owned, Completing, Held, NotClient, Stage
  <2>2. Abstract!List(u)
    BY <1>1, <1>2, <1>4, <2>1 DEF Abstract!List, Stage
  <2>3. QED
    BY <1>1, <2>2 DEF Abstract!Next
<1>5. QED
  BY <1>1, <1>3, <1>4 DEF ServeSendReference

(* The app itself changes no account: taps, navigation, continuations.     *)
LEMMA AppStutters ==
    ASSUME Tap \/ Platform \/ \E c \in CallIds : Resume(c)
    PROVE  UNCHANGED backend
<1>1. CASE Tap
  BY <1>1 DEF Tap, Participe, LoginClicked, Cadastre, ChoiceClicked, SecondTab,
     FirstTab, Configuracoes, MudarVisao, SairClicked, TypeChosen,
     RegisterClicked, TermsCancelled, TermsAgreed, ConcluirClicked
<1>2. CASE Platform
  BY <1>2 DEF Platform, Back, Relaunch, HomeImageLoaded, Dispose
<1>3. CASE \E c \in CallIds : Resume(c)
  BY <1>3 DEF Resume, CheckReturns, LoginReturns, ChoiceUserReturns,
     ChoiceDataReturns, SignOutReturns, CreateUserReturns, PutFileReturns,
     GetDownloadURLReturns, SendClientReturns, SendWorkerReturns,
     SendReferenceReturns
<1>4. QED
  BY <1>1, <1>2, <1>3

(* Every step is a step of an account's life, or none.                     *)
LEMMA LifeStep ==
    TypeInv /\ Ownership /\ [Next]_vars => [Abstract!Next]_(Abstract!vars)
<1> SUFFICES ASSUME TypeInv, Ownership, [Next]_vars
             PROVE  [Abstract!Next]_(Abstract!vars)
  OBVIOUS
<1>1. CASE UNCHANGED backend
  BY <1>1, LifeStutters DEF backend
<1>2. ASSUME NEW c \in CallIds, ServeAuth(c)
      PROVE  [Abstract!Next]_(Abstract!vars)
  <2>1. CASE ServeCreateUser(c)
    BY <1>2, <2>1, LifeCreateUser DEF ServeAuth, Pending
  <2>2. CASE ServeCurrentUser(c) \/ ServeSignIn(c) \/ ServeSignOut(c)
    BY <2>2, LifeStutters
    DEF ServeCurrentUser, ServeSignIn, ServeSignOut, backend
  <2>3. QED
    BY <1>2, <2>1, <2>2 DEF ServeAuth
<1>3. ASSUME NEW c \in CallIds, ServeStores(c)
      PROVE  [Abstract!Next]_(Abstract!vars)
  <2>1. CASE ServeSendUser(c)
    BY <1>3, <2>1, LifeSendUser DEF ServeStores
  <2>2. CASE ServeSendReference(c)
    BY <1>3, <2>2, LifeSendReference DEF ServeStores, Pending
  <2>3. CASE ServeOnce(c) \/ ServePutFile(c) \/ ServeGetDownloadURL(c)
    BY <2>3, LifeStutters
    DEF ServeOnce, ServePutFile, ServeGetDownloadURL, backend
  <2>4. QED
    BY <1>3, <2>1, <2>2, <2>3 DEF ServeStores
<1>4. CASE UNCHANGED vars
  BY <1>1, <1>4 DEF vars, backend
<1>5. QED
  BY <1>1, <1>2, <1>3, <1>4, AppStutters DEF Next

(* The app implements the life of an account, for any number of users and  *)
(* of overlapping calls: its profile keeps its kind and is never lost, and *)
(* no client is listed among the workers.                                  *)
THEOREM LifeImplemented == Spec => AccountLife
<1>1. Init => TypeInv /\ Ownership /\ Abstract!Init
  BY TypeInit, OwnershipInit, LifeInit
<1>2. TypeInv /\ Ownership /\ [Next]_vars => TypeInv' /\ Ownership'
  BY TypeStep, OwnershipStep
<1>3. QED
  BY <1>1, <1>2, LifeStep, PTL DEF Spec, AccountLife, Abstract!Spec

-----------------------------------------------------------------------------
(* What is stored again *)

(* A profile that replaces another one is sent by WorkerComplement, and is *)
(* the same: all objects of one worker are alike.                          *)
LEMMA SentAgain ==
    ASSUME TypeInv, Ownership, NEW c \in CallIds, Pending(c), ServeSendUser(c),
           NEW u \in Users, data[u] # NULL
    PROVE  data'[u] = data[u]
<1>0. PICK r \in Record : r = calls[c].rec
  BY TopFacts DEF Pending, CallsOK, HasArgument, ServeSendUser
<1>1. /\ r # NULL /\ calls[c] # NULL /\ Owned(calls[c])
      /\ data \in [Users -> Record \cup {NULL}]
  BY NullIsNoRecord DEF Pending, Ownership, TypeInv, TypeOK
<1>2. CASE UNCHANGED data \/ r.uid # u
  BY <1>0, <1>1, <1>2 DEF ServeSendUser, DataPath
<1>3. CASE r.uid = u
  <2>1. Completing(calls[c]) /\ r.kind = "Worker" /\ data[u].kind = "Worker"
    BY <1>0, <1>1, <1>3
    DEF ServeSendUser, Pending, Ownership, Owned, IsNew, Registering, Alone,
        Completing, Held, NotClient
  <2>2. r \in WorkerObjects /\ data[u] \in WorkerObjects /\ data[u].uid = u
    BY <1>0, <1>1, <2>1 DEF WorkerObjects, Outstanding, Ownership, Stored
  <2>3. data[u] = r
    BY <1>3, <2>2 DEF Ownership, WorkersAgree
  <2>4. QED
    BY <1>0, <1>1, <1>3, <2>3 DEF ServeSendUser, DataPath
<1>4. QED
  BY <1>2, <1>3

(* For any number of users and of overlapping calls, a profile that is     *)
(* stored keeps its kind, its owner and its picture, although              *)
(* WorkerComplement sends all of it anew, from whatever object             *)
(* LoginController holds (WorkerComplementController.dart:22).          *)
THEOREM ProfilesStay == Spec => ProfileKept
<1>1. TypeInv /\ Ownership /\ [Next]_vars =>
         [\A u \in Users : data[u] # NULL => data'[u] = data[u]]_vars
  <2> SUFFICES ASSUME TypeInv, Ownership, Next, NEW u \in Users, data[u] # NULL
               PROVE  data'[u] = data[u]
    OBVIOUS
  <2>1. CASE UNCHANGED data
    BY <2>1
  <2>2. ASSUME NEW c \in CallIds, Pending(c), ServeSendUser(c)
        PROVE  data'[u] = data[u]
    BY <2>2, SentAgain
  <2>3. CASE \E c \in CallIds : ServeAuth(c) \/ ServeStores(c)
    BY <2>1, <2>2, <2>3
    DEF ServeAuth, ServeStores, ServeCurrentUser, ServeSignIn, ServeSignOut,
        ServeCreateUser, ServeOnce, ServePutFile, ServeGetDownloadURL,
        ServeSendReference, backend
  <2>4. QED
    BY <2>1, <2>3, AppStutters DEF Next, backend
<1>2. TypeInv /\ Ownership /\ [Next]_vars => TypeInv' /\ Ownership'
  BY TypeStep, OwnershipStep
<1>3. Init => TypeInv /\ Ownership
  BY TypeInit, OwnershipInit
<1>4. QED
  BY <1>1, <1>2, <1>3, PTL DEF Spec, ProfileKept
=============================================================================
