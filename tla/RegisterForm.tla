---------------------------- MODULE RegisterForm ----------------------------
(***************************************************************************)
(* The place in the form of SimpleRegister.dart: three menus that fill     *)
(* each other from locations.json, the check of the button, the terms, and *)
(* the place that is sent once the account was created, which is read from *)
(* the form only then.                                                     *)
(*                                                                         *)
(* locations.json is read once; rootBundle keeps the string, and from then *)
(* on the awaits of the menus end before the next tap: a choice and the    *)
(* menu it fills are one step.                                             *)
(***************************************************************************)
CONSTANTS
    Places,     \* locations.json: records of a country, a state and a city
    NULL        \* the first entry of each menu, "selecione ..."

ASSUME PlacesAreNamed ==
    \A p \in Places :
        /\ p = [country |-> p.country, state |-> p.state, city |-> p.city]
        /\ NULL \notin {p.country, p.state, p.city}

VARIABLES
    loaded,     \* the countries are in their menu
    country, state, city,   \* what is selected
    states, cities,         \* the entries of the two menus that change
    phase,      \* "form", "terms" (the dialog is open) or "loading"
    checked,    \* the place that btnRegisterClicked accepted, or NULL
    sent        \* the place given to registerClient or registerWorker

vars == <<loaded, country, state, city, states, cities, phase, checked, sent>>
menus == <<loaded, country, state, city, states, cities>>

-----------------------------------------------------------------------------
(* LocationController.dart *)

getCountries == {p.country : p \in Places}
getStates(c) == {p.state : p \in {q \in Places : q.country = c}}
getCities(c, s) ==
    {p.city : p \in {q \in Places : q.country = c /\ q.state = s}}

(* The menu of the countries, and what the form says.                      *)
countries == IF loaded THEN getCountries ELSE {}
Place == [country |-> country, state |-> state, city |-> city]

-----------------------------------------------------------------------------
(* SimpleRegister.dart *)

Init ==
    /\ loaded = FALSE
    /\ country = NULL /\ state = NULL /\ city = NULL
    /\ states = {} /\ cities = {}
    /\ phase = "form" /\ checked = NULL /\ sent = NULL

(* _loadCountriesMenu after its await *)
CountriesLoaded ==
    /\ ~loaded
    /\ loaded' = TRUE
    /\ country' = NULL /\ state' = NULL /\ city' = NULL
    /\ UNCHANGED <<states, cities, phase, checked, sent>>

(* A mutant of the next action: the selected state is not reset.           *)
KeepsOldState(c) ==
    /\ phase = "form"
    /\ country' = c /\ city' = NULL
    /\ states' = getStates(c)
    /\ UNCHANGED <<loaded, state, cities, phase, checked, sent>>

(* changedCountryDropDownItem and _loadStatesMenu: the menu of the cities  *)
(* keeps the cities of the old state.                                      *)
CountryChanged(c) ==
    /\ phase = "form"
    /\ country' = c /\ state' = NULL /\ city' = NULL
    /\ states' = getStates(c)
    /\ UNCHANGED <<loaded, cities, phase, checked, sent>>

(* changedStateDropDownItem and _loadCitiesMenu *)
StateChanged(s) ==
    /\ phase = "form"
    /\ state' = s /\ city' = NULL
    /\ cities' = getCities(country, s)
    /\ UNCHANGED <<loaded, country, states, phase, checked, sent>>

(* A mutant of the next action: the form can be used while it is sent.     *)
ChangesAnytime(x) ==
    /\ city' = x
    /\ UNCHANGED <<loaded, country, state, states, cities, phase, checked, sent>>

(* changedCityDropDownItem *)
CityChanged(x) ==
    /\ phase = "form"
    /\ city' = x
    /\ UNCHANGED <<loaded, country, state, states, cities, phase, checked, sent>>

(* btnRegisterClicked: the last checks, and the dialog.                    *)
Accepted == country # NULL /\ state # NULL /\ city # NULL

RegisterClicked ==
    /\ phase = "form" /\ Accepted
    /\ phase' = "terms" /\ checked' = Place
    /\ UNCHANGED <<menus, sent>>

TermsCancelled ==
    /\ phase = "terms"
    /\ phase' = "form" /\ checked' = NULL
    /\ UNCHANGED <<menus, sent>>

(* agree(): the form is not on the screen any more.                        *)
TermsAgreed ==
    /\ phase = "terms"
    /\ phase' = "loading"
    /\ UNCHANGED <<menus, checked, sent>>

(* registerUser() succeeded: the form's variables are read now.            *)
UserRegistered ==
    /\ phase = "loading" /\ sent = NULL
    /\ sent' = Place
    /\ UNCHANGED <<menus, phase, checked>>

(* The page is left and opened anew.                                       *)
Reopened ==
    /\ loaded' = FALSE
    /\ country' = NULL /\ state' = NULL /\ city' = NULL
    /\ states' = {} /\ cities' = {}
    /\ phase' = "form" /\ checked' = NULL /\ sent' = NULL

Next ==
    \/ CountriesLoaded
    \/ \E c \in countries \cup {NULL} : CountryChanged(c)
    \/ \E s \in states \cup {NULL} : StateChanged(s)
    \/ \E x \in cities \cup {NULL} : CityChanged(x)
    \/ RegisterClicked
    \/ TermsCancelled
    \/ TermsAgreed
    \/ UserRegistered
    \/ Reopened

Spec == Init /\ [][Next]_vars

-----------------------------------------------------------------------------
(* Properties *)

(* The place sent is one place of locations.json: its city is in its       *)
(* state, and that in its country, although the menus may offer cities of  *)
(* a state that is not selected any more.                                  *)
PlaceExists == sent # NULL => sent \in Places

(* The place sent is the one that btnRegisterClicked accepted, although it *)
(* is read from the form again after the await of registerUser().          *)
SentIsChecked == sent # NULL => sent = checked

(* Why: the menu of the states is that of the country, and while a state   *)
(* is selected the menu of the cities is that of the state.                *)
MenusAgree ==
    /\ ~loaded => country = NULL
    /\ states = getStates(country)
    /\ state \in states \cup {NULL}
    /\ state # NULL => /\ cities = getCities(country, state)
                      /\ city \in cities \cup {NULL}

(* And nothing changes from the check to the reading.                      *)
CheckedHolds ==
    /\ phase \in {"form", "terms", "loading"}
    /\ phase # "form" => checked = Place /\ Accepted
    /\ sent # NULL => phase = "loading" /\ sent = Place

FormAgrees == MenusAgree /\ CheckedHolds
=============================================================================
