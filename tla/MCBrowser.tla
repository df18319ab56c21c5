------------------------------ MODULE MCBrowser ------------------------------
(***************************************************************************)
(* What runs in browsers: the tabs and their sessions, and the pages.  They *)
(* share no state here, so they are explored one after the other and not in *)
(* product: part, fixed at the start, names the one that moves; the other   *)
(* rests where it began.                                                    *)
(***************************************************************************)
EXTENDS Sessions, WebPages, TLC

CONSTANTS
    j1,         \* the browser of tab t1, and of every tab while the pages are explored
    t1          \* the tab that is explored on its own

VARIABLE part

MCModes == {<<TRUE, TRUE>>, <<TRUE, FALSE>>, <<FALSE, FALSE>>}
AllPages == DOMAIN Pages

BrowserInit ==
    /\ part \in {"sessions", "overlap", "pages"}
    /\ Init /\ WebInit
    /\ calm <=> part # "overlap"
    /\ jar[t1] = j1         \* the browsers are interchangeable
    /\ part \in {"overlap", "pages"} => jar = [t \in Tabs |-> j1]
    /\ part = "pages" => kept
    /\ part # "pages" => page = "Users" /\ patient

\* All but one tab stay closed.
OneTab == \A t \in Tabs \ {t1} : shown[t] = "loading" /\ rstep[t] = "idle"

\* With replies lost in two browsers, nobody impersonates.
Customers == kept \/ jar = [t \in Tabs |-> j1] \/ \A t \in Tabs : access[t] # "target"

\* Only a patient user opens the panel of a second row.
OneRow == patient \/ \A s \in Slots : subject[s] # "e2"

BrowserNext ==
    \/ part = "sessions" /\ Next /\ Customers' /\ UNCHANGED <<part, wvars>>
    \/ part = "overlap" /\ Next /\ OneTab' /\ UNCHANGED <<part, wvars>>
    \/ part = "pages" /\ WebNext /\ OneRow' /\ UNCHANGED <<part, vars>>

BrowserSpec == BrowserInit /\ [][BrowserNext]_<<part, vars, wvars>> /\ Fairness
=============================================================================
