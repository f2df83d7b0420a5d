------------------------- MODULE RegisterFormProofs -------------------------
(***************************************************************************)
(* What the form sends is a place of locations.json, and the place it      *)
(* checked, for every locations.json.                                      *)
(***************************************************************************)
EXTENDS RegisterForm, TLAPS

(* An empty form agrees with empty menus: no place has the country NULL.    *)
LEMMA NoStates == getStates(NULL) = {}
  BY PlacesAreNamed DEF getStates

(* The first build of the page.                                             *)
LEMMA AgreesInit == Init => FormAgrees
  BY NoStates DEF Init, FormAgrees, MenusAgree, CheckedHolds

(* Every tap on a menu, every step of the submission, and leaving the page  *)
(* keep menus and selection in agreement.                                   *)
LEMMA AgreesStep == FormAgrees /\ [Next]_vars => FormAgrees'
<1> SUFFICES ASSUME FormAgrees, [Next]_vars PROVE FormAgrees'
    OBVIOUS
<1> USE DEF FormAgrees, MenusAgree, CheckedHolds, Accepted, Place
<1>1. CASE CountriesLoaded
  BY <1>1, NoStates DEF CountriesLoaded
<1>2. ASSUME NEW c \in countries \cup {NULL}, CountryChanged(c) PROVE FormAgrees'
  BY <1>2 DEF CountryChanged, countries
<1>3. ASSUME NEW s \in states \cup {NULL}, StateChanged(s) PROVE FormAgrees'
  BY <1>3 DEF StateChanged
<1>4. ASSUME NEW x \in cities \cup {NULL}, CityChanged(x) PROVE FormAgrees'
  BY <1>4 DEF CityChanged
<1>5. CASE RegisterClicked
  BY <1>5 DEF RegisterClicked, menus
<1>6. CASE TermsCancelled
  BY <1>6 DEF TermsCancelled, menus
<1>7. CASE TermsAgreed
  BY <1>7 DEF TermsAgreed, menus
<1>8. CASE UserRegistered
  BY <1>8 DEF UserRegistered, menus
<1>9. CASE Reopened
  BY <1>9, NoStates DEF Reopened
<1>10. CASE UNCHANGED vars
  BY <1>10 DEF vars
<1> QED
  BY <1>1, <1>2, <1>3, <1>4, <1>5, <1>6, <1>7, <1>8, <1>9, <1>10 DEF Next

(* The menus, the selection and what was checked agree in every state.      *)
THEOREM FormAlwaysAgrees == Spec => []FormAgrees
  BY AgreesInit, AgreesStep, PTL DEF Spec

(* A complete selection from menus that agree is a place of the file.       *)
LEMMA AcceptedExists == MenusAgree /\ Accepted => Place \in Places
<1> SUFFICES ASSUME MenusAgree, Accepted PROVE Place \in Places
    OBVIOUS
<1>1. city \in getCities(country, state)
  BY DEF MenusAgree, Accepted
<1>2. PICK q \in Places : q.country = country /\ q.state = state /\ q.city = city
  BY <1>1 DEF getCities
<1> QED
  BY <1>2, PlacesAreNamed DEF Place

(* The place given to registerClient or registerWorker exists.              *)
THEOREM SentExists == Spec => []PlaceExists
<1>1. FormAgrees => PlaceExists
  BY AcceptedExists DEF FormAgrees, CheckedHolds, PlaceExists
<1> QED
  BY <1>1, FormAlwaysAgrees, PTL

(* The place read after the await is the one btnRegisterClicked checked.     *)
THEOREM SentChecked == Spec => []SentIsChecked
<1>1. FormAgrees => SentIsChecked
  BY DEF FormAgrees, CheckedHolds, SentIsChecked
<1> QED
  BY <1>1, FormAlwaysAgrees, PTL
=============================================================================
