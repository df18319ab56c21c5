---------------------------- MODULE WebPages_proof ----------------------------
(***************************************************************************)
(* Proofs about the pages of the web client: for any set of the modelled    *)
(* pages, any rows, any number of handlers under way and any number of      *)
(* writes, PageInv and PageIsTrue hold in every state of WebSpec.           *)
(*                                                                          *)
(* The code enters in two ways.  What a page's handlers do is a table, and  *)
(* the lemmas on the tables show that every entry has the shape the proof   *)
(* needs: a handler that writes loads the rows afterwards, closes its       *)
(* dialog before its next call, and reports its failures.  What the browser *)
(* does between two calls is a function, RunTo, and the lemmas on it say    *)
(* what it leaves of the page.  The steps then preserve WebIInv.            *)
(***************************************************************************)
EXTENDS WebPages, WellFoundedInduction, FiniteSetTheorems, TLAPS

-----------------------------------------------------------------------------
(* The inductive invariant *)

\* The dialogs of the pages, and what a panel is open for.
Dialogs == {"form", "imported", "addToList", "createList", "htmlImport", "preview", "create",
            "edit", "reset", "insights", "relaunch", "created", "resetResult"}
Covers == Entities \union {"new", "none"}       \* what the panel may be open for

\* The pages a user may see.
Ui == [open : SUBSET Dialogs, panel : Covers \union {"closed"}, shown : Covers \union {"nothing"},
       error : SUBSET {"page", "panel"}, busy : SUBSET Flags, rows : Nat, of : {0, 1},
       gone : BOOLEAN]

\* A slot whose handler is under way.
Active(s) == handler[s] # "none"

\* A slot that is not in use rests; one that is awaits a call of its handler.
Slot(s) ==
    IF handler[s] = "none" THEN at[s] = 1 /\ got[s] = 0 /\ answer[s] = "waiting"
    ELSE at[s] \in 1 .. Len(Steps(s)) /\ Steps(s)[at[s]][1] = "ask" /\ got[s] <= version

\* The types, and each slot as it is between two calls.
Shape ==
    /\ page \in DOMAIN Pages /\ patient \in BOOLEAN /\ view \in {0, 1}
    /\ version \in 1 .. MaxWrites + 1 /\ ui \in Ui /\ ui.rows <= version
    /\ handler \in [Slots -> {"none"} \union Loads \union DOMAIN Page.does]
    /\ at \in [Slots -> Nat] /\ subject \in [Slots -> Covers] /\ closure \in [Slots -> {0, 1}]
    /\ answer \in [Slots -> {"waiting", "ok"}] /\ got \in [Slots -> Nat]
    /\ failed \in BOOLEAN /\ written \subseteq ui.open
    /\ \A s \in Slots : Slot(s)

\* The flag a slot holds.
FlagOf(s) == IF Active(s) THEN Body(s).flag ELSE "none"

\* A flag belongs to one handler under way, or to none and is off.
Taken ==
    /\ \A s, t \in Slots : FlagOf(s) = FlagOf(t) /\ FlagOf(s) # "none" => s = t
    /\ \A f \in Flags : f \in ui.busy <=> \E s \in Slots : FlagOf(s) = f

TwoCalls == {"Campaigns", "Credits"}    \* pages that open with two calls

\* A page that opens with one call has no effect that makes another one.
OnlyLoad == page \notin TwoCalls => \A s \in Slots : handler[s] \in Loads => handler[s] = "load"

\* With a patient user one handler is under way.
OneHandler == patient /\ page \notin TwoCalls =>
    \A s, t \in Slots : Active(s) /\ Active(t) => s = t

\* A call that is still to be answered, or asked.
Awaits(s, call) == \E k \in at[s] .. Len(Steps(s)) : Steps(s)[k] = Ask(call)

\* What is still to be shown in the panel is what the panel is open for.
OwnPanel == patient /\ page = "Organizations" =>
    /\ ui.shown \in {"nothing", ui.panel}
    /\ \A s \in Slots : Active(s) /\ Awaits(s, "loadDetail") => subject[s] = ui.panel

\* The pages of which RowsAreTrue and FailureIsSaid say nothing.
LeftOut == {"Lists", "Credits", "Campaigns", "Organizations"}
Unsaid == {"Contacts", "Lists", "Credits", "Campaigns", "Templates"}
\* The rows are those of the database, or a failure is shown.
Fresh == ui.error # {} \/ (ui.rows = version /\ (Page.onView = "load" => ui.of = view))

\* The rows are what the database has, or the page is about to load them.
RowsComing == patient /\ page \notin LeftOut =>
    /\ \A s \in Slots : Active(s) => closure[s] = view
    /\ \A s \in Slots : Active(s) /\ Call(s) = "load" /\ answer[s] = "ok" => got[s] = version
    /\ Fresh \/ \E s \in Slots : Active(s) /\ Awaits(s, "load")

\* A failure that was shown is not taken back before the user asks for something else.
FailureStays == patient /\ page \notin Unsaid /\ failed =>
    /\ ui.error # {}
    /\ \A s \in Slots : Active(s) => handler[s] = "load" /\ "panel" \in ui.error

\* Only a list made from a selection of contacts may have been written by a dialog still open.
WrittenOK == written \subseteq {"createList"}

WebIInv ==
    /\ Shape /\ Taken /\ OnlyLoad /\ OneHandler /\ OwnPanel /\ RowsComing /\ FailureStays
    /\ WrittenOK

-----------------------------------------------------------------------------
(* What the proof needs of a handler *)

\* A step does one of seven things, to a dialog, to the panel, or to the page.
StepOK(step) ==
    /\ step = <<step[1], step[2]>>
    /\ step[1] \in {"ask", "open", "close", "panel", "show", "launch", "leave"}
    /\ step[1] = "open" => step[2] \in Dialogs
    /\ step[1] = "panel" => step[2] \in {"row", "closed", "new"}
    /\ step[1] = "show" => step[2] \in {"row", "new"}

\* A handler is a sequence of such steps.
BodyOK(b) ==
    /\ b.flag \in Flags \union {"none"} /\ b.catch \in {"page", "panel", "nobody"}
    /\ Len(b.steps) \in Nat \ {0}
    /\ \A k \in 1 .. Len(b.steps) : StepOK(b.steps[k])

\* What a handler that was answered a write does next: it closes the dialog it is in.
Saves(b, place) == \A k \in 1 .. Len(b.steps) :
    /\ b.steps[k] \in {Ask("write"), Ask("post")} =>
        /\ k < Len(b.steps)
        /\ b.steps[k + 1] = Close(place)
    /\ b.steps[k] # Open(place)

\* A handler that writes loads the rows later, and reports its failures.
Reloads(b) ==
    /\ b.steps[Len(b.steps)] # Launch
    /\ \A k \in 1 .. Len(b.steps) :
        /\ \A call \in Loads : b.steps[k] = Ask(call) => call = "load"
        /\ b.steps[k] = Ask("load") => b.catch # "nobody"
        /\ b.steps[k] = Ask("write") => \E m \in k + 1 .. Len(b.steps) : b.steps[m] = Ask("load")

\* A handler that goes on after a failure has one thing left to do at most, to load the rows
\* behind the panel in which the failure is shown.
Says(b) ==
    /\ b.catch # "nobody"
    /\ \A k \in 1 .. Len(b.steps), call \in Loads : b.steps[k] = Ask(call) =>
        \/ k = Len(b.steps)
        \/ call = "loadDetail" /\ k + 1 = Len(b.steps) /\ b.steps[k + 1] = Launch

\* The panel is opened by a row's handler, as its first step; what it shows comes from the call.
Details(b, place) == \A k \in 1 .. Len(b.steps) :
    /\ b.steps[k][1] # "show"
    /\ b.steps[k][1] = "panel" => k = 1 /\ place = "row" /\ b.steps[1] = Panel("row")
    /\ b.steps[k] = Ask("loadDetail") =>
        place = "detail" \/ (place = "row" /\ b.steps[1] = Panel("row") /\ k = 2)

\* The rules a handler keeps.
Handled(p, h, b, button) ==
    /\ h \notin Loads \union {"none"} /\ BodyOK(b) /\ b.flag \in {"none", button[2]}
    /\ button[1] \in Dialogs \ {"createList"} => Saves(b, button[1])
    /\ p \notin LeftOut => Reloads(b)
    /\ p \notin Unsaid => Says(b)
    /\ p = "Organizations" => Details(b, button[1])

-----------------------------------------------------------------------------
(* The tables of the pages *)

USE DEF Ask, Open, Close, Panel, Show, Launch, Leave, In, InRow, InHeader, InPanel

\* The predicates above, of a handler in a dialog.
InDialog(b, d) == BodyOK(b) /\ Saves(b, d) /\ Reloads(b) /\ Says(b)

\* Two steps.
LEMMA Two == ASSUME NEW a, NEW b
             PROVE  Len(<<a, b>>) = 2 /\ <<a, b>>[1] = a /\ <<a, b>>[2] = b /\ 1 .. 2 = {1, 2}
OBVIOUS

\* A handler that opens a dialog keeps every rule, unless its button is in that dialog.
LEMMA OpensIs ==
  ASSUME NEW d \in Dialogs, NEW place
  PROVE  /\ BodyOK(Opens(d)) /\ Reloads(Opens(d)) /\ Says(Opens(d)) /\ Details(Opens(d), place)
         /\ Opens(d).flag = "none" /\ (place # d => Saves(Opens(d), place))
BY DEF Opens, Does, BodyOK, StepOK, Saves, Reloads, Says, Details, Loads, Dialogs

\* So does one that writes a row and loads the rows again.
LEMMA RowActionIs ==
  BodyOK(RowAction) /\ Reloads(RowAction) /\ Says(RowAction) /\ RowAction.flag = "none"
BY DEF RowAction, Does, BodyOK, StepOK, Saves, Reloads, Says, Loads

\* So does the submit handler of a form, in the dialog it closes.
LEMMA SubmitIs ==
  ASSUME NEW d \in Dialogs, NEW f \in Flags
  PROVE  InDialog(Submit(d, f), d) /\ Submit(d, f).flag = f
<1> DEFINE s == Submit(d, f).steps
<1>1. Submit(d, f).flag = f /\ Submit(d, f).catch = "page"
  BY DEF Submit, Does
<1>2. Len(s) = 3 /\ s[1] = Ask("write") /\ s[2] = Close(d) /\ s[3] = Ask("load")
  BY DEF Submit, Does
<1>3. 1 .. 3 = {1, 2, 3}
  OBVIOUS
<1> HIDE DEF s
<1>4. BodyOK(Submit(d, f))
  BY <1>1, <1>2, <1>3 DEF BodyOK, StepOK, s
<1>5. Saves(Submit(d, f), d)
  BY <1>1, <1>2, <1>3 DEF Saves, s
<1>6. Reloads(Submit(d, f))
  BY <1>1, <1>2, <1>3 DEF Reloads, s, Loads
<1>7. Says(Submit(d, f))
  BY <1>1, <1>2, <1>3 DEF Says, s, Loads
<1> QED BY <1>1, <1>4, <1>5, <1>6, <1>7 DEF InDialog

\* A download reads and nothing else.
LEMMA DownloadIs ==
  /\ BodyOK(Download) /\ Reloads(Download) /\ Download.flag = "none"
  /\ \A d \in Dialogs : Saves(Download, d)
<1>1. Download.flag = "none" /\ Download.catch = "nobody"
  BY DEF Download, Does
<1>2. Len(Download.steps) = 1 /\ Download.steps[1] = Ask("read") /\ 1 .. 1 = {1}
  BY DEF Download, Does
<1> HIDE DEF Download
<1> QED BY <1>1, <1>2 DEF BodyOK, StepOK, Saves, Reloads, Loads, Dialogs, Flags

\* Most handlers open a dialog, submit one, or act on a row.
Common(b, button) ==
    \/ b = RowAction /\ button = InRow
    \/ \E d \in Dialogs : b = Opens(d) /\ button[1] # d
    \/ \E d \in Dialogs, f \in Flags : b = Submit(d, f) /\ button = In(d, f)

\* These have the shape the proof needs, on every page without a detail of its own.
LEMMA CommonIs ==
  ASSUME NEW p, p # "Organizations", NEW h, h \notin Loads \union {"none"}, NEW b, NEW button,
         Common(b, button)
  PROVE  Handled(p, h, b, button)
<1>1. CASE b = RowAction /\ button = InRow
  BY <1>1, RowActionIs DEF Handled, Dialogs
<1>2. ASSUME NEW d \in Dialogs, b = Opens(d), button[1] # d PROVE Handled(p, h, b, button)
  BY <1>2, OpensIs DEF Handled
<1>3. ASSUME NEW d \in Dialogs, NEW f \in Flags, b = Submit(d, f), button = In(d, f)
      PROVE Handled(p, h, b, button)
  BY <1>3, SubmitIs DEF Handled, InDialog
<1> QED BY <1>1, <1>2, <1>3 DEF Common

\* ContactsPage.tsx: every handler has the shape, with a button that is disabled by its flag.
LEMMA ContactsHandled ==
  ASSUME NEW does, NEW buttons, does = Merged(ContactsRows, ContactsLists),
         buttons = Merged(ContactsButtons, ContactsDialogs)
  PROVE  \A h \in DOMAIN does : Handled("Contacts", h, does[h], buttons[h])
<1> SUFFICES ASSUME NEW h \in DOMAIN does PROVE Handled("Contacts", h, does[h], buttons[h])
  OBVIOUS
<1>0. h \notin Loads \union {"none"}
  BY DEF ContactsRows, ContactsLists, Merged, Loads
<1>1. CASE h = "handleImport"
  <2> DEFINE b == does[h]
  <2>1. b.flag = "none" /\ b.catch = "page" /\ buttons[h] = InHeader
    BY <1>1 DEF ContactsRows, ContactsLists, ContactsButtons, ContactsDialogs, Merged, Does
  <2>2. /\ Len(b.steps) = 3 /\ 1 .. 3 = {1, 2, 3}
        /\ b.steps[1] = Ask("write") /\ b.steps[2] = Open("imported") /\ b.steps[3] = Ask("load")
    BY <1>1 DEF ContactsRows, ContactsLists, ContactsButtons, ContactsDialogs, Merged, Does
  <2> HIDE DEF b
  <2> USE DEF Ask, Open, Close, Panel, Show, Launch, Leave,
             In, InRow, InHeader, InPanel
  <2>3. BodyOK(b)
    BY <2>1, <2>2 DEF BodyOK, StepOK, Flags, Dialogs
  <2>4. buttons[h][1] \in Dialogs \ {"createList"} => Saves(b, buttons[h][1])
    BY <2>1, <2>2 DEF Saves, Dialogs
  <2>5. "Contacts" \notin LeftOut => Reloads(b)
    BY <2>1, <2>2 DEF Reloads, LeftOut, Loads
  <2>6. "Contacts" \notin Unsaid => Says(b)
    BY <2>1, <2>2 DEF Says, Unsaid, Loads
  <2>7. b.flag \in {"none", buttons[h][2]}
    BY <2>1
  <2> QED BY <1>0, <2>3, <2>4, <2>5, <2>6, <2>7 DEF Handled, b
<1>2. CASE h = "openAddToList"
  <2> DEFINE b == does[h]
  <2>1. b.flag = "none" /\ b.catch = "page" /\ buttons[h] = InHeader
    BY <1>2 DEF ContactsLists, ContactsRows, ContactsButtons, ContactsDialogs, Merged, Does
  <2>2. /\ Len(b.steps) = 2 /\ 1 .. 2 = {1, 2}
        /\ b.steps[1] = Open("addToList") /\ b.steps[2] = Ask("read")
    BY <1>2 DEF ContactsLists, ContactsRows, ContactsButtons, ContactsDialogs, Merged, Does
  <2> HIDE DEF b
  <2> USE DEF Ask, Open, Close, Panel, Show, Launch, Leave,
             In, InRow, InHeader, InPanel
  <2>3. BodyOK(b)
    BY <2>1, <2>2 DEF BodyOK, StepOK, Flags, Dialogs
  <2>4. buttons[h][1] \in Dialogs \ {"createList"} => Saves(b, buttons[h][1])
    BY <2>1, <2>2 DEF Saves, Dialogs
  <2>5. "Contacts" \notin LeftOut => Reloads(b)
    BY <2>1, <2>2 DEF Reloads, LeftOut, Loads
  <2>6. "Contacts" \notin Unsaid => Says(b)
    BY <2>1, <2>2 DEF Says, Unsaid, Loads
  <2>7. b.flag \in {"none", buttons[h][2]}
    BY <2>1
  <2> QED BY <1>0, <2>3, <2>4, <2>5, <2>6, <2>7 DEF Handled, b
<1>3. CASE h = "submitAddToList"
  <2> DEFINE b == does[h]
  <2>1. b.flag = "listSaving" /\ b.catch = "page" /\ buttons[h] = In("addToList", "listSaving")
    BY <1>3 DEF ContactsLists, ContactsRows, ContactsButtons, ContactsDialogs, Merged, Does
  <2>2. /\ Len(b.steps) = 2 /\ 1 .. 2 = {1, 2}
        /\ b.steps[1] = Ask("post") /\ b.steps[2] = Close("addToList")
    BY <1>3 DEF ContactsLists, ContactsRows, ContactsButtons, ContactsDialogs, Merged, Does
  <2> HIDE DEF b
  <2> USE DEF Ask, Open, Close, Panel, Show, Launch, Leave,
             In, InRow, InHeader, InPanel
  <2>3. BodyOK(b)
    BY <2>1, <2>2 DEF BodyOK, StepOK, Flags, Dialogs
  <2>4. buttons[h][1] \in Dialogs \ {"createList"} => Saves(b, buttons[h][1])
    BY <2>1, <2>2 DEF Saves, Dialogs
  <2>5. "Contacts" \notin LeftOut => Reloads(b)
    BY <2>1, <2>2 DEF Reloads, LeftOut, Loads
  <2>6. "Contacts" \notin Unsaid => Says(b)
    BY <2>1, <2>2 DEF Says, Unsaid, Loads
  <2>7. b.flag \in {"none", buttons[h][2]}
    BY <2>1
  <2> QED BY <1>0, <2>3, <2>4, <2>5, <2>6, <2>7 DEF Handled, b
<1>4. CASE h = "submitCreateList"
  <2> DEFINE b == does[h]
  <2>1. b.flag = "listSaving" /\ b.catch = "page" /\ buttons[h] = In("createList", "listSaving")
    BY <1>4 DEF ContactsLists, ContactsRows, ContactsButtons, ContactsDialogs, Merged, Does
  <2>2. /\ Len(b.steps) = 3 /\ 1 .. 3 = {1, 2, 3}
        /\ b.steps[1] = Ask("post") /\ b.steps[2] = Ask("post") /\ b.steps[3] = Close("createList")
    BY <1>4 DEF ContactsLists, ContactsRows, ContactsButtons, ContactsDialogs, Merged, Does
  <2> HIDE DEF b
  <2> USE DEF Ask, Open, Close, Panel, Show, Launch, Leave,
             In, InRow, InHeader, InPanel
  <2>3. BodyOK(b)
    BY <2>1, <2>2 DEF BodyOK, StepOK, Flags, Dialogs
  <2>4. buttons[h][1] \in Dialogs \ {"createList"} => Saves(b, buttons[h][1])
    BY <2>1, <2>2 DEF Saves, Dialogs
  <2>5. "Contacts" \notin LeftOut => Reloads(b)
    BY <2>1, <2>2 DEF Reloads, LeftOut, Loads
  <2>6. "Contacts" \notin Unsaid => Says(b)
    BY <2>1, <2>2 DEF Says, Unsaid, Loads
  <2>7. b.flag \in {"none", buttons[h][2]}
    BY <2>1
  <2> QED BY <1>0, <2>3, <2>4, <2>5, <2>6, <2>7 DEF Handled, b
<1>6. CASE h \in {"template", "exportCsv"}
  <2>1. does[h] = Download /\ buttons[h] = InHeader
    BY <1>6 DEF ContactsRows, ContactsLists, ContactsButtons, ContactsDialogs, Merged
  <2> QED BY <1>0, <2>1, DownloadIs DEF Handled, Unsaid, Dialogs
<1>5. CASE h \notin {"handleImport", "openAddToList", "submitAddToList", "submitCreateList",
                     "template", "exportCsv"}
  <2>1. h \in {"openCreate", "openCreateList", "openEdit", "handleDelete", "toggleOptOut",
               "handleSubmit"}
    BY <1>5 DEF ContactsRows, ContactsLists, ContactsButtons, ContactsDialogs, Merged
  <2>2. CASE h = "openCreate"
    <3>1. does[h] = Opens("form") /\ buttons[h] = InHeader
      BY <2>2 DEF ContactsRows, ContactsLists, ContactsButtons, ContactsDialogs, Merged
    <3> QED BY <1>0, <3>1, CommonIs DEF Common, Dialogs, Flags
  <2>3. CASE h = "openCreateList"
    <3>1. does[h] = Opens("createList") /\ buttons[h] = InHeader
      BY <2>3 DEF ContactsRows, ContactsLists, ContactsButtons, ContactsDialogs, Merged
    <3> QED BY <1>0, <3>1, CommonIs DEF Common, Dialogs, Flags
  <2>4. CASE h = "openEdit"
    <3>1. does[h] = Opens("form") /\ buttons[h] = InRow
      BY <2>4 DEF ContactsRows, ContactsLists, ContactsButtons, ContactsDialogs, Merged
    <3> QED BY <1>0, <3>1, CommonIs DEF Common, Dialogs, Flags
  <2>5. CASE h \in {"handleDelete", "toggleOptOut"}
    <3>1. does[h] = RowAction /\ buttons[h] = InRow
      BY <2>5 DEF ContactsRows, ContactsLists, ContactsButtons, ContactsDialogs, Merged
    <3> QED BY <1>0, <3>1, CommonIs DEF Common, Dialogs, Flags
  <2>6. CASE h = "handleSubmit"
    <3>1. does[h] = Submit("form", "saving") /\ buttons[h] = In("form", "saving")
      BY <2>6 DEF ContactsRows, ContactsLists, ContactsButtons, ContactsDialogs, Merged
    <3> QED BY <1>0, <3>1, CommonIs DEF Common, Dialogs, Flags
  <2> QED BY <2>1, <2>2, <2>3, <2>4, <2>5, <2>6
<1> QED BY <1>1, <1>2, <1>3, <1>4, <1>5, <1>6

\* ListsPage.tsx: the same; the handlers of its panel neither catch nor reload.
LEMMA ListsHandled ==
  ASSUME NEW does, NEW buttons, does = Merged(ListsRows, ListsMembers), buttons = ListsButtons
  PROVE  \A h \in DOMAIN does : Handled("Lists", h, does[h], buttons[h])
<1> SUFFICES ASSUME NEW h \in DOMAIN does PROVE Handled("Lists", h, does[h], buttons[h])
  OBVIOUS
<1>0. h \notin Loads \union {"none"}
  BY DEF ListsRows, ListsMembers, Merged, Loads
<1>1. CASE h = "openMembers"
  <2> DEFINE b == does[h]
  <2>1. b.flag = "none" /\ b.catch = "nobody" /\ buttons[h] = InRow
    BY <1>1 DEF ListsMembers, ListsRows, ListsButtons, Merged, Does
  <2>2. /\ Len(b.steps) = 3 /\ 1 .. 3 = {1, 2, 3}
        /\ b.steps[1] = Panel("row") /\ b.steps[2] = Ask("detail") /\ b.steps[3] = Show("row")
    BY <1>1 DEF ListsMembers, ListsRows, ListsButtons, Merged, Does
  <2> HIDE DEF b
  <2> USE DEF Ask, Open, Close, Panel, Show, Launch, Leave,
             In, InRow, InHeader, InPanel
  <2>3. BodyOK(b)
    BY <2>1, <2>2 DEF BodyOK, StepOK, Flags, Dialogs
  <2>4. buttons[h][1] \in Dialogs \ {"createList"} => Saves(b, buttons[h][1])
    BY <2>1, <2>2 DEF Saves, Dialogs
  <2>5. "Lists" \notin LeftOut => Reloads(b)
    BY <2>1, <2>2 DEF Reloads, LeftOut, Loads
  <2>6. "Lists" \notin Unsaid => Says(b)
    BY <2>1, <2>2 DEF Says, Unsaid, Loads
  <2>7. b.flag \in {"none", buttons[h][2]}
    BY <2>1
  <2> QED BY <1>0, <2>3, <2>4, <2>5, <2>6, <2>7 DEF Handled, b
<1>2. CASE h = "handleSearchContacts"
  <2> DEFINE b == does[h]
  <2>1. b.flag = "none" /\ b.catch = "nobody" /\ buttons[h] = InPanel
    BY <1>2 DEF ListsMembers, ListsRows, ListsButtons, Merged, Does
  <2>2. /\ Len(b.steps) = 1 /\ 1 .. 1 = {1}
        /\ b.steps[1] = Ask("read")
    BY <1>2 DEF ListsMembers, ListsRows, ListsButtons, Merged, Does
  <2> HIDE DEF b
  <2> USE DEF Ask, Open, Close, Panel, Show, Launch, Leave,
             In, InRow, InHeader, InPanel
  <2>3. BodyOK(b)
    BY <2>1, <2>2 DEF BodyOK, StepOK, Flags, Dialogs
  <2>4. buttons[h][1] \in Dialogs \ {"createList"} => Saves(b, buttons[h][1])
    BY <2>1, <2>2 DEF Saves, Dialogs
  <2>5. "Lists" \notin LeftOut => Reloads(b)
    BY <2>1, <2>2 DEF Reloads, LeftOut, Loads
  <2>6. "Lists" \notin Unsaid => Says(b)
    BY <2>1, <2>2 DEF Says, Unsaid, Loads
  <2>7. b.flag \in {"none", buttons[h][2]}
    BY <2>1
  <2> QED BY <1>0, <2>3, <2>4, <2>5, <2>6, <2>7 DEF Handled, b
<1>3. CASE h = "addMember"
  <2> DEFINE b == does[h]
  <2>1. b.flag = "none" /\ b.catch = "nobody" /\ buttons[h] = InPanel
    BY <1>3 DEF ListsMembers, ListsRows, ListsButtons, Merged, Does
  <2>2. /\ Len(b.steps) = 4 /\ 1 .. 4 = {1, 2, 3, 4}
        /\ b.steps[1] = Ask("write") /\ b.steps[2] = Ask("detail") /\ b.steps[3] = Show("row")
        /\ b.steps[4] = Ask("load")
    BY <1>3 DEF ListsMembers, ListsRows, ListsButtons, Merged, Does
  <2> HIDE DEF b
  <2> USE DEF Ask, Open, Close, Panel, Show, Launch, Leave,
             In, InRow, InHeader, InPanel
  <2>3. BodyOK(b)
    BY <2>1, <2>2 DEF BodyOK, StepOK, Flags, Dialogs
  <2>4. buttons[h][1] \in Dialogs \ {"createList"} => Saves(b, buttons[h][1])
    BY <2>1, <2>2 DEF Saves, Dialogs
  <2>5. "Lists" \notin LeftOut => Reloads(b)
    BY <2>1, <2>2 DEF Reloads, LeftOut, Loads
  <2>6. "Lists" \notin Unsaid => Says(b)
    BY <2>1, <2>2 DEF Says, Unsaid, Loads
  <2>7. b.flag \in {"none", buttons[h][2]}
    BY <2>1
  <2> QED BY <1>0, <2>3, <2>4, <2>5, <2>6, <2>7 DEF Handled, b
<1>4. CASE h = "removeMember"
  <2> DEFINE b == does[h]
  <2>1. b.flag = "none" /\ b.catch = "nobody" /\ buttons[h] = InPanel
    BY <1>4 DEF ListsMembers, ListsRows, ListsButtons, Merged, Does
  <2>2. /\ Len(b.steps) = 4 /\ 1 .. 4 = {1, 2, 3, 4}
        /\ b.steps[1] = Ask("write") /\ b.steps[2] = Ask("detail") /\ b.steps[3] = Show("row")
        /\ b.steps[4] = Ask("load")
    BY <1>4 DEF ListsMembers, ListsRows, ListsButtons, Merged, Does
  <2> HIDE DEF b
  <2> USE DEF Ask, Open, Close, Panel, Show, Launch, Leave,
             In, InRow, InHeader, InPanel
  <2>3. BodyOK(b)
    BY <2>1, <2>2 DEF BodyOK, StepOK, Flags, Dialogs
  <2>4. buttons[h][1] \in Dialogs \ {"createList"} => Saves(b, buttons[h][1])
    BY <2>1, <2>2 DEF Saves, Dialogs
  <2>5. "Lists" \notin LeftOut => Reloads(b)
    BY <2>1, <2>2 DEF Reloads, LeftOut, Loads
  <2>6. "Lists" \notin Unsaid => Says(b)
    BY <2>1, <2>2 DEF Says, Unsaid, Loads
  <2>7. b.flag \in {"none", buttons[h][2]}
    BY <2>1
  <2> QED BY <1>0, <2>3, <2>4, <2>5, <2>6, <2>7 DEF Handled, b
<1>5. CASE h \notin {"openMembers", "handleSearchContacts", "addMember", "removeMember"}
  <2>1. Common(does[h], buttons[h])
    BY <1>5 DEF ListsRows, ListsMembers, ListsButtons, Merged, Common, Dialogs, Flags
  <2> QED BY <1>0, <2>1, CommonIs
<1> QED BY <1>1, <1>2, <1>3, <1>4, <1>5

\* TemplatesPage.tsx: the same; the preview does not catch.
LEMMA TemplatesHandled ==
  ASSUME NEW does, NEW buttons, does = TemplatesRows, buttons = TemplatesButtons
  PROVE  \A h \in DOMAIN does : Handled("Templates", h, does[h], buttons[h])
<1> SUFFICES ASSUME NEW h \in DOMAIN does PROVE Handled("Templates", h, does[h], buttons[h])
  OBVIOUS
<1>0. h \notin Loads \union {"none"}
  BY DEF TemplatesRows, Loads
<1>1. CASE h = "handleMediaUpload"
  <2> DEFINE b == does[h]
  <2>1. b.flag = "uploadingMedia" /\ b.catch = "page" /\ buttons[h] = In("form", "uploadingMedia")
    BY <1>1 DEF TemplatesRows, TemplatesButtons, Does
  <2>2. /\ Len(b.steps) = 1 /\ 1 .. 1 = {1}
        /\ b.steps[1] = Ask("upload")
    BY <1>1 DEF TemplatesRows, TemplatesButtons, Does
  <2> HIDE DEF b
  <2> USE DEF Ask, Open, Close, Panel, Show, Launch, Leave,
             In, InRow, InHeader, InPanel
  <2>3. BodyOK(b)
    BY <2>1, <2>2 DEF BodyOK, StepOK, Flags, Dialogs
  <2>4. buttons[h][1] \in Dialogs \ {"createList"} => Saves(b, buttons[h][1])
    BY <2>1, <2>2 DEF Saves, Dialogs
  <2>5. "Templates" \notin LeftOut => Reloads(b)
    BY <2>1, <2>2 DEF Reloads, LeftOut, Loads
  <2>6. "Templates" \notin Unsaid => Says(b)
    BY <2>1, <2>2 DEF Says, Unsaid, Loads
  <2>7. b.flag \in {"none", buttons[h][2]}
    BY <2>1
  <2> QED BY <1>0, <2>3, <2>4, <2>5, <2>6, <2>7 DEF Handled, b
<1>2. CASE h = "applyHtmlImport"
  <2> DEFINE b == does[h]
  <2>1. b.flag = "none" /\ b.catch = "page" /\ buttons[h] = In("htmlImport", "none")
    BY <1>2 DEF TemplatesRows, TemplatesButtons, Does
  <2>2. /\ Len(b.steps) = 1 /\ 1 .. 1 = {1}
        /\ b.steps[1] = Close("htmlImport")
    BY <1>2 DEF TemplatesRows, TemplatesButtons, Does
  <2> HIDE DEF b
  <2> USE DEF Ask, Open, Close, Panel, Show, Launch, Leave,
             In, InRow, InHeader, InPanel
  <2>3. BodyOK(b)
    BY <2>1, <2>2 DEF BodyOK, StepOK, Flags, Dialogs
  <2>4. buttons[h][1] \in Dialogs \ {"createList"} => Saves(b, buttons[h][1])
    BY <2>1, <2>2 DEF Saves, Dialogs
  <2>5. "Templates" \notin LeftOut => Reloads(b)
    BY <2>1, <2>2 DEF Reloads, LeftOut, Loads
  <2>6. "Templates" \notin Unsaid => Says(b)
    BY <2>1, <2>2 DEF Says, Unsaid, Loads
  <2>7. b.flag \in {"none", buttons[h][2]}
    BY <2>1
  <2> QED BY <1>0, <2>3, <2>4, <2>5, <2>6, <2>7 DEF Handled, b
<1>3. CASE h = "runPreview"
  <2> DEFINE b == does[h]
  <2>1. b.flag = "none" /\ b.catch = "nobody" /\ buttons[h] = In("preview", "none")
    BY <1>3 DEF TemplatesRows, TemplatesButtons, Does
  <2>2. /\ Len(b.steps) = 1 /\ 1 .. 1 = {1}
        /\ b.steps[1] = Ask("read")
    BY <1>3 DEF TemplatesRows, TemplatesButtons, Does
  <2> HIDE DEF b
  <2> USE DEF Ask, Open, Close, Panel, Show, Launch, Leave,
             In, InRow, InHeader, InPanel
  <2>3. BodyOK(b)
    BY <2>1, <2>2 DEF BodyOK, StepOK, Flags, Dialogs
  <2>4. buttons[h][1] \in Dialogs \ {"createList"} => Saves(b, buttons[h][1])
    BY <2>1, <2>2 DEF Saves, Dialogs
  <2>5. "Templates" \notin LeftOut => Reloads(b)
    BY <2>1, <2>2 DEF Reloads, LeftOut, Loads
  <2>6. "Templates" \notin Unsaid => Says(b)
    BY <2>1, <2>2 DEF Says, Unsaid, Loads
  <2>7. b.flag \in {"none", buttons[h][2]}
    BY <2>1
  <2> QED BY <1>0, <2>3, <2>4, <2>5, <2>6, <2>7 DEF Handled, b
<1>4. CASE h \notin {"handleMediaUpload", "applyHtmlImport", "runPreview"}
  <2>1. Common(does[h], buttons[h])
    BY <1>4 DEF TemplatesRows, TemplatesButtons, Common, Dialogs, Flags
  <2> QED BY <1>0, <2>1, CommonIs
<1> QED BY <1>1, <1>2, <1>3, <1>4

HIDE DEF Ask, Open, Close, Panel, Show, Launch, Leave, In, InRow, InHeader, InPanel

\* UsersPage.tsx: the same.
LEMMA UsersHandled ==
  ASSUME NEW does, NEW buttons, does = UsersRows, buttons = UsersButtons
  PROVE  \A h \in DOMAIN does : Handled("Users", h, does[h], buttons[h])
<1> SUFFICES ASSUME NEW h \in DOMAIN does PROVE Handled("Users", h, does[h], buttons[h])
  OBVIOUS
<1>0. h \notin Loads \union {"none"}
  BY DEF UsersRows, Loads
<1>1. CASE h = "handleResetPassword"
  <2> DEFINE b == does[h]
  <2>1. b.flag = "saving" /\ b.catch = "page" /\ buttons[h] = In("reset", "saving")
    BY <1>1 DEF UsersRows, UsersButtons, Does
  <2>2. /\ Len(b.steps) = 2 /\ 1 .. 2 = {1, 2}
        /\ b.steps[1] = Ask("post") /\ b.steps[2] = Close("reset")
    BY <1>1 DEF UsersRows, UsersButtons, Does
  <2> HIDE DEF b
  <2> USE DEF Ask, Open, Close, Panel, Show, Launch, Leave,
             In, InRow, InHeader, InPanel
  <2>3. BodyOK(b)
    BY <2>1, <2>2 DEF BodyOK, StepOK, Flags, Dialogs
  <2>4. buttons[h][1] \in Dialogs \ {"createList"} => Saves(b, buttons[h][1])
    BY <2>1, <2>2 DEF Saves, Dialogs
  <2>5. "Users" \notin LeftOut => Reloads(b)
    BY <2>1, <2>2 DEF Reloads, LeftOut, Loads
  <2>6. "Users" \notin Unsaid => Says(b)
    BY <2>1, <2>2 DEF Says, Unsaid, Loads
  <2>7. b.flag \in {"none", buttons[h][2]}
    BY <2>1
  <2> QED BY <1>0, <2>3, <2>4, <2>5, <2>6, <2>7 DEF Handled, b
<1>2. CASE h \notin {"handleResetPassword"}
  <2>1. Common(does[h], buttons[h])
    BY <1>2 DEF UsersRows, UsersButtons, Common, In, InRow, InHeader, InPanel, Dialogs, Flags
  <2> QED BY <1>0, <2>1, CommonIs
<1> QED BY <1>1, <1>2

\* AutomationsPage.tsx: the same.
LEMMA AutomationsHandled ==
  ASSUME NEW does, NEW buttons, does = AutomationsRows, buttons = AutomationsButtons
  PROVE  \A h \in DOMAIN does : Handled("Automations", h, does[h], buttons[h])
<1> SUFFICES ASSUME NEW h \in DOMAIN does PROVE Handled("Automations", h, does[h], buttons[h])
  OBVIOUS
<1>0. h \notin Loads \union {"none"}
  BY DEF AutomationsRows, Loads
<1>1. CASE h \notin {}
  <2>1. Common(does[h], buttons[h])
    BY <1>1 DEF AutomationsRows, AutomationsButtons, Common, In, InRow, InHeader, InPanel, Dialogs,
                Flags
  <2> QED BY <1>0, <2>1, CommonIs
<1> QED BY <1>1

\* CampaignsPage.tsx: the same; opening a campaign and its preview do not catch.
LEMMA CampaignsHandled ==
  ASSUME NEW does, NEW buttons, does = Merged(Merged(CampaignsSettings, CampaignsRows),
         CampaignsHeader),
         buttons = Merged(Merged(CampaignsButtons, CampaignsPanel),
                          Merged(CampaignsForm, CampaignsRelaunch))
  PROVE  \A h \in DOMAIN does : Handled("Campaigns", h, does[h], buttons[h])
<1> SUFFICES ASSUME NEW h \in DOMAIN does PROVE Handled("Campaigns", h, does[h], buttons[h])
  OBVIOUS
<1>0. h \notin Loads \union {"none"}
  BY DEF CampaignsSettings, CampaignsRows, CampaignsHeader, Merged, Loads
<1>1. CASE h = "saveSendingSettings"
  <2> DEFINE b == does[h]
  <2>1. b.flag = "settingsSaving" /\ b.catch = "page" /\ buttons[h] = <<"header", "settingsSaving">>
    BY <1>1 DEF CampaignsSettings, CampaignsRows, CampaignsHeader, CampaignsButtons,
                CampaignsPanel, CampaignsForm, CampaignsRelaunch, Merged, Does
  <2>2. /\ Len(b.steps) = 1 /\ 1 .. 1 = {1}
        /\ b.steps[1] = Ask("post")
    BY <1>1 DEF CampaignsSettings, CampaignsRows, CampaignsHeader, CampaignsButtons,
                CampaignsPanel, CampaignsForm, CampaignsRelaunch, Merged, Does
  <2> HIDE DEF b
  <2> USE DEF Ask, Open, Close, Panel, Show, Launch, Leave,
             In, InRow, InHeader, InPanel
  <2>3. BodyOK(b)
    BY <2>1, <2>2 DEF BodyOK, StepOK, Flags, Dialogs
  <2>4. buttons[h][1] \in Dialogs \ {"createList"} => Saves(b, buttons[h][1])
    BY <2>1, <2>2 DEF Saves, Dialogs
  <2>5. "Campaigns" \notin LeftOut => Reloads(b)
    BY <2>1, <2>2 DEF Reloads, LeftOut, Loads
  <2>6. "Campaigns" \notin Unsaid => Says(b)
    BY <2>1, <2>2 DEF Says, Unsaid, Loads
  <2>7. b.flag \in {"none", buttons[h][2]}
    BY <2>1
  <2> QED BY <1>0, <2>3, <2>4, <2>5, <2>6, <2>7 DEF Handled, b
<1>2. CASE h = "openCreate"
  <2> DEFINE b == does[h]
  <2>1. b.flag = "none" /\ b.catch = "page" /\ buttons[h] = InHeader
    BY <1>2 DEF CampaignsRows, CampaignsSettings, CampaignsHeader, CampaignsButtons,
                CampaignsPanel, CampaignsForm, CampaignsRelaunch, Merged, Does
  <2>2. /\ Len(b.steps) = 2 /\ 1 .. 2 = {1, 2}
        /\ b.steps[1] = Open("form") /\ b.steps[2] = Ask("read")
    BY <1>2 DEF CampaignsRows, CampaignsSettings, CampaignsHeader, CampaignsButtons,
                CampaignsPanel, CampaignsForm, CampaignsRelaunch, Merged, Does
  <2> HIDE DEF b
  <2> USE DEF Ask, Open, Close, Panel, Show, Launch, Leave,
             In, InRow, InHeader, InPanel
  <2>3. BodyOK(b)
    BY <2>1, <2>2 DEF BodyOK, StepOK, Flags, Dialogs
  <2>4. buttons[h][1] \in Dialogs \ {"createList"} => Saves(b, buttons[h][1])
    BY <2>1, <2>2 DEF Saves, Dialogs
  <2>5. "Campaigns" \notin LeftOut => Reloads(b)
    BY <2>1, <2>2 DEF Reloads, LeftOut, Loads
  <2>6. "Campaigns" \notin Unsaid => Says(b)
    BY <2>1, <2>2 DEF Says, Unsaid, Loads
  <2>7. b.flag \in {"none", buttons[h][2]}
    BY <2>1
  <2> QED BY <1>0, <2>3, <2>4, <2>5, <2>6, <2>7 DEF Handled, b
<1>3. CASE h = "openDetail"
  <2> DEFINE b == does[h]
  <2>1. b.flag = "none" /\ b.catch = "nobody" /\ buttons[h] = InRow
    BY <1>3 DEF CampaignsRows, CampaignsSettings, CampaignsHeader, CampaignsButtons,
                CampaignsPanel, CampaignsForm, CampaignsRelaunch, Merged, Does
  <2>2. /\ Len(b.steps) = 3 /\ 1 .. 3 = {1, 2, 3}
        /\ b.steps[1] = Panel("row") /\ b.steps[2] = Ask("detail") /\ b.steps[3] = Show("row")
    BY <1>3 DEF CampaignsRows, CampaignsSettings, CampaignsHeader, CampaignsButtons,
                CampaignsPanel, CampaignsForm, CampaignsRelaunch, Merged, Does
  <2> HIDE DEF b
  <2> USE DEF Ask, Open, Close, Panel, Show, Launch, Leave,
             In, InRow, InHeader, InPanel
  <2>3. BodyOK(b)
    BY <2>1, <2>2 DEF BodyOK, StepOK, Flags, Dialogs
  <2>4. buttons[h][1] \in Dialogs \ {"createList"} => Saves(b, buttons[h][1])
    BY <2>1, <2>2 DEF Saves, Dialogs
  <2>5. "Campaigns" \notin LeftOut => Reloads(b)
    BY <2>1, <2>2 DEF Reloads, LeftOut, Loads
  <2>6. "Campaigns" \notin Unsaid => Says(b)
    BY <2>1, <2>2 DEF Says, Unsaid, Loads
  <2>7. b.flag \in {"none", buttons[h][2]}
    BY <2>1
  <2> QED BY <1>0, <2>3, <2>4, <2>5, <2>6, <2>7 DEF Handled, b
<1>4. CASE h = "runPreview"
  <2> DEFINE b == does[h]
  <2>1. b.flag = "none" /\ b.catch = "nobody" /\ buttons[h] = InPanel
    BY <1>4 DEF CampaignsRows, CampaignsSettings, CampaignsHeader, CampaignsButtons,
                CampaignsPanel, CampaignsForm, CampaignsRelaunch, Merged, Does
  <2>2. /\ Len(b.steps) = 1 /\ 1 .. 1 = {1}
        /\ b.steps[1] = Ask("read")
    BY <1>4 DEF CampaignsRows, CampaignsSettings, CampaignsHeader, CampaignsButtons,
                CampaignsPanel, CampaignsForm, CampaignsRelaunch, Merged, Does
  <2> HIDE DEF b
  <2> USE DEF Ask, Open, Close, Panel, Show, Launch, Leave,
             In, InRow, InHeader, InPanel
  <2>3. BodyOK(b)
    BY <2>1, <2>2 DEF BodyOK, StepOK, Flags, Dialogs
  <2>4. buttons[h][1] \in Dialogs \ {"createList"} => Saves(b, buttons[h][1])
    BY <2>1, <2>2 DEF Saves, Dialogs
  <2>5. "Campaigns" \notin LeftOut => Reloads(b)
    BY <2>1, <2>2 DEF Reloads, LeftOut, Loads
  <2>6. "Campaigns" \notin Unsaid => Says(b)
    BY <2>1, <2>2 DEF Says, Unsaid, Loads
  <2>7. b.flag \in {"none", buttons[h][2]}
    BY <2>1
  <2> QED BY <1>0, <2>3, <2>4, <2>5, <2>6, <2>7 DEF Handled, b
<1>5. CASE h = "addFromList"
  <2> DEFINE b == does[h]
  <2>1. b.flag = "none" /\ b.catch = "page" /\ buttons[h] = InPanel
    BY <1>5 DEF CampaignsRows, CampaignsSettings, CampaignsHeader, CampaignsButtons,
                CampaignsPanel, CampaignsForm, CampaignsRelaunch, Merged, Does
  <2>2. /\ Len(b.steps) = 5 /\ 1 .. 5 = {1, 2, 3, 4, 5}
        /\ b.steps[1] = Ask("write") /\ b.steps[2] = Ask("detail") /\ b.steps[3] = Panel("row")
        /\ b.steps[4] = Show("row") /\ b.steps[5] = Ask("load")
    BY <1>5 DEF CampaignsRows, CampaignsSettings, CampaignsHeader, CampaignsButtons,
                CampaignsPanel, CampaignsForm, CampaignsRelaunch, Merged, Does
  <2> HIDE DEF b
  <2> USE DEF Ask, Open, Close, Panel, Show, Launch, Leave,
             In, InRow, InHeader, InPanel
  <2>3. BodyOK(b)
    BY <2>1, <2>2 DEF BodyOK, StepOK, Flags, Dialogs
  <2>4. buttons[h][1] \in Dialogs \ {"createList"} => Saves(b, buttons[h][1])
    BY <2>1, <2>2 DEF Saves, Dialogs
  <2>5. "Campaigns" \notin LeftOut => Reloads(b)
    BY <2>1, <2>2 DEF Reloads, LeftOut, Loads
  <2>6. "Campaigns" \notin Unsaid => Says(b)
    BY <2>1, <2>2 DEF Says, Unsaid, Loads
  <2>7. b.flag \in {"none", buttons[h][2]}
    BY <2>1
  <2> QED BY <1>0, <2>3, <2>4, <2>5, <2>6, <2>7 DEF Handled, b
<1>6. CASE h = "openInsights"
  <2> DEFINE b == does[h]
  <2>1. b.flag = "none" /\ b.catch = "page" /\ buttons[h] = InRow
    BY <1>6 DEF CampaignsRows, CampaignsSettings, CampaignsHeader, CampaignsButtons,
                CampaignsPanel, CampaignsForm, CampaignsRelaunch, Merged, Does
  <2>2. /\ Len(b.steps) = 2 /\ 1 .. 2 = {1, 2}
        /\ b.steps[1] = Open("insights") /\ b.steps[2] = Ask("read")
    BY <1>6 DEF CampaignsRows, CampaignsSettings, CampaignsHeader, CampaignsButtons,
                CampaignsPanel, CampaignsForm, CampaignsRelaunch, Merged, Does
  <2> HIDE DEF b
  <2> USE DEF Ask, Open, Close, Panel, Show, Launch, Leave,
             In, InRow, InHeader, InPanel
  <2>3. BodyOK(b)
    BY <2>1, <2>2 DEF BodyOK, StepOK, Flags, Dialogs
  <2>4. buttons[h][1] \in Dialogs \ {"createList"} => Saves(b, buttons[h][1])
    BY <2>1, <2>2 DEF Saves, Dialogs
  <2>5. "Campaigns" \notin LeftOut => Reloads(b)
    BY <2>1, <2>2 DEF Reloads, LeftOut, Loads
  <2>6. "Campaigns" \notin Unsaid => Says(b)
    BY <2>1, <2>2 DEF Says, Unsaid, Loads
  <2>7. b.flag \in {"none", buttons[h][2]}
    BY <2>1
  <2> QED BY <1>0, <2>3, <2>4, <2>5, <2>6, <2>7 DEF Handled, b
<1>7. CASE h = "doAction"
  <2> DEFINE b == does[h]
  <2>1. b.flag = "none" /\ b.catch = "page" /\ buttons[h] = InPanel
    BY <1>7 DEF CampaignsRows, CampaignsSettings, CampaignsHeader, CampaignsButtons,
                CampaignsPanel, CampaignsForm, CampaignsRelaunch, Merged, Does
  <2>2. /\ Len(b.steps) = 5 /\ 1 .. 5 = {1, 2, 3, 4, 5}
        /\ b.steps[1] = Ask("write") /\ b.steps[2] = Ask("detail") /\ b.steps[3] = Panel("row")
        /\ b.steps[4] = Show("row") /\ b.steps[5] = Ask("load")
    BY <1>7 DEF CampaignsRows, CampaignsSettings, CampaignsHeader, CampaignsButtons,
                CampaignsPanel, CampaignsForm, CampaignsRelaunch, Merged, Does
  <2> HIDE DEF b
  <2> USE DEF Ask, Open, Close, Panel, Show, Launch, Leave,
             In, InRow, InHeader, InPanel
  <2>3. BodyOK(b)
    BY <2>1, <2>2 DEF BodyOK, StepOK, Flags, Dialogs
  <2>4. buttons[h][1] \in Dialogs \ {"createList"} => Saves(b, buttons[h][1])
    BY <2>1, <2>2 DEF Saves, Dialogs
  <2>5. "Campaigns" \notin LeftOut => Reloads(b)
    BY <2>1, <2>2 DEF Reloads, LeftOut, Loads
  <2>6. "Campaigns" \notin Unsaid => Says(b)
    BY <2>1, <2>2 DEF Says, Unsaid, Loads
  <2>7. b.flag \in {"none", buttons[h][2]}
    BY <2>1
  <2> QED BY <1>0, <2>3, <2>4, <2>5, <2>6, <2>7 DEF Handled, b
<1>8. CASE h = "deleteCampaign"
  <2> DEFINE b == does[h]
  <2>1. b.flag = "none" /\ b.catch = "page" /\ buttons[h] = InPanel
    BY <1>8 DEF CampaignsRows, CampaignsSettings, CampaignsHeader, CampaignsButtons,
                CampaignsPanel, CampaignsForm, CampaignsRelaunch, Merged, Does
  <2>2. /\ Len(b.steps) = 3 /\ 1 .. 3 = {1, 2, 3}
        /\ b.steps[1] = Ask("write") /\ b.steps[2] = Panel("closed") /\ b.steps[3] = Ask("load")
    BY <1>8 DEF CampaignsRows, CampaignsSettings, CampaignsHeader, CampaignsButtons,
                CampaignsPanel, CampaignsForm, CampaignsRelaunch, Merged, Does
  <2> HIDE DEF b
  <2> USE DEF Ask, Open, Close, Panel, Show, Launch, Leave,
             In, InRow, InHeader, InPanel
  <2>3. BodyOK(b)
    BY <2>1, <2>2 DEF BodyOK, StepOK, Flags, Dialogs
  <2>4. buttons[h][1] \in Dialogs \ {"createList"} => Saves(b, buttons[h][1])
    BY <2>1, <2>2 DEF Saves, Dialogs
  <2>5. "Campaigns" \notin LeftOut => Reloads(b)
    BY <2>1, <2>2 DEF Reloads, LeftOut, Loads
  <2>6. "Campaigns" \notin Unsaid => Says(b)
    BY <2>1, <2>2 DEF Says, Unsaid, Loads
  <2>7. b.flag \in {"none", buttons[h][2]}
    BY <2>1
  <2> QED BY <1>0, <2>3, <2>4, <2>5, <2>6, <2>7 DEF Handled, b
<1>9. CASE h = "submitRelaunch"
  <2> DEFINE b == does[h]
  <2>1. b.flag = "relaunching" /\ b.catch = "page" /\ buttons[h] = In("relaunch", "relaunching")
    BY <1>9 DEF CampaignsRows, CampaignsSettings, CampaignsHeader, CampaignsButtons,
                CampaignsPanel, CampaignsForm, CampaignsRelaunch, Merged, Does
  <2>2. /\ Len(b.steps) = 7 /\ 1 .. 7 = {1, 2, 3, 4, 5, 6, 7}
        /\ b.steps[1] = Ask("write") /\ b.steps[2] = Close("relaunch")
        /\ b.steps[3] = Panel("closed") /\ b.steps[4] = Ask("load") /\ b.steps[5] = Panel("new")
        /\ b.steps[6] = Ask("detail") /\ b.steps[7] = Show("new")
    BY <1>9 DEF CampaignsRows, CampaignsSettings, CampaignsHeader, CampaignsButtons,
                CampaignsPanel, CampaignsForm, CampaignsRelaunch, Merged, Does
  <2> HIDE DEF b
  <2> USE DEF Ask, Open, Close, Panel, Show, Launch, Leave,
             In, InRow, InHeader, InPanel
  <2>3. BodyOK(b)
    BY <2>1, <2>2 DEF BodyOK, StepOK, Flags, Dialogs
  <2>4. buttons[h][1] \in Dialogs \ {"createList"} => Saves(b, buttons[h][1])
    BY <2>1, <2>2 DEF Saves, Dialogs
  <2>5. "Campaigns" \notin LeftOut => Reloads(b)
    BY <2>1, <2>2 DEF Reloads, LeftOut, Loads
  <2>6. "Campaigns" \notin Unsaid => Says(b)
    BY <2>1, <2>2 DEF Says, Unsaid, Loads
  <2>7. b.flag \in {"none", buttons[h][2]}
    BY <2>1
  <2> QED BY <1>0, <2>3, <2>4, <2>5, <2>6, <2>7 DEF Handled, b
<1>10. CASE h = "emergencyStop"
  <2> DEFINE b == does[h]
  <2>1. b.flag = "none" /\ b.catch = "nobody" /\ buttons[h] = InHeader
    BY <1>10 DEF CampaignsHeader, CampaignsSettings, CampaignsRows, CampaignsButtons,
                 CampaignsPanel, CampaignsForm, CampaignsRelaunch, Merged, Does
  <2>2. /\ Len(b.steps) = 2 /\ 1 .. 2 = {1, 2}
        /\ b.steps[1] = Ask("write") /\ b.steps[2] = Ask("load")
    BY <1>10 DEF CampaignsHeader, CampaignsSettings, CampaignsRows, CampaignsButtons,
                 CampaignsPanel, CampaignsForm, CampaignsRelaunch, Merged, Does
  <2> HIDE DEF b
  <2> USE DEF Ask, Open, Close, Panel, Show, Launch, Leave,
             In, InRow, InHeader, InPanel
  <2>3. BodyOK(b)
    BY <2>1, <2>2 DEF BodyOK, StepOK, Flags, Dialogs
  <2>4. buttons[h][1] \in Dialogs \ {"createList"} => Saves(b, buttons[h][1])
    BY <2>1, <2>2 DEF Saves, Dialogs
  <2>5. "Campaigns" \notin LeftOut => Reloads(b)
    BY <2>1, <2>2 DEF Reloads, LeftOut, Loads
  <2>6. "Campaigns" \notin Unsaid => Says(b)
    BY <2>1, <2>2 DEF Says, Unsaid, Loads
  <2>7. b.flag \in {"none", buttons[h][2]}
    BY <2>1
  <2> QED BY <1>0, <2>3, <2>4, <2>5, <2>6, <2>7 DEF Handled, b
<1>12. CASE h = "downloadReport"
  <2>1. does[h] = Download /\ buttons[h] = In("insights", "none")
    BY <1>12 DEF CampaignsHeader, CampaignsSettings, CampaignsRows, CampaignsButtons,
                 CampaignsPanel, CampaignsForm, CampaignsRelaunch, Merged
  <2> QED BY <1>0, <2>1, DownloadIs DEF Handled, Unsaid, Dialogs
<1>11. CASE h \notin {"saveSendingSettings", "openCreate", "openDetail", "runPreview",
                      "addFromList", "openInsights", "doAction", "deleteCampaign",
                      "submitRelaunch", "emergencyStop", "downloadReport"}
  <2>1. h \in {"openRelaunch", "openRelaunchOfRow", "handleSubmit"}
    BY <1>11 DEF CampaignsSettings, CampaignsRows, CampaignsHeader, CampaignsButtons,
                 CampaignsPanel, CampaignsForm, CampaignsRelaunch, Merged
  <2>2. CASE h = "openRelaunch"
    <3>1. does[h] = Opens("relaunch") /\ buttons[h] = InPanel
      BY <2>2 DEF CampaignsSettings, CampaignsRows, CampaignsHeader, CampaignsButtons,
                  CampaignsPanel, CampaignsForm, CampaignsRelaunch, Merged
    <3> QED BY <1>0, <3>1, CommonIs DEF Common, In, InRow, InHeader, InPanel, Dialogs, Flags
  <2>3. CASE h = "openRelaunchOfRow"
    <3>1. does[h] = Opens("relaunch") /\ buttons[h] = InRow
      BY <2>3 DEF CampaignsSettings, CampaignsRows, CampaignsHeader, CampaignsButtons,
                  CampaignsPanel, CampaignsForm, CampaignsRelaunch, Merged
    <3> QED BY <1>0, <3>1, CommonIs DEF Common, In, InRow, InHeader, InPanel, Dialogs, Flags
  <2>4. CASE h = "handleSubmit"
    <3>1. does[h] = Submit("form", "saving") /\ buttons[h] = In("form", "saving")
      BY <2>4 DEF CampaignsSettings, CampaignsRows, CampaignsHeader, CampaignsButtons,
                  CampaignsPanel, CampaignsForm, CampaignsRelaunch, Merged
    <3> QED BY <1>0, <3>1, CommonIs DEF Common, In, InRow, InHeader, InPanel, Dialogs, Flags
  <2> QED BY <2>1, <2>2, <2>3, <2>4
<1> QED BY <1>1, <1>2, <1>3, <1>4, <1>5, <1>6, <1>7, <1>8, <1>9, <1>10, <1>11, <1>12

\* PlansPage.tsx: the same.
LEMMA PlansHandled ==
  ASSUME NEW does, NEW buttons, does = PlansRows, buttons = PlansButtons
  PROVE  \A h \in DOMAIN does : Handled("Plans", h, does[h], buttons[h])
<1> SUFFICES ASSUME NEW h \in DOMAIN does PROVE Handled("Plans", h, does[h], buttons[h])
  OBVIOUS
<1>0. h \notin Loads \union {"none"}
  BY DEF PlansRows, Loads
<1>1. CASE h \notin {}
  <2>1. Common(does[h], buttons[h])
    BY <1>1 DEF PlansRows, PlansButtons, Common, In, InRow, InHeader, InPanel, Dialogs, Flags
  <2> QED BY <1>0, <2>1, CommonIs
<1> QED BY <1>1

\* RolesPage.tsx: the same.
LEMMA RolesHandled ==
  ASSUME NEW does, NEW buttons, does = RolesRows, buttons = RolesButtons
  PROVE  \A h \in DOMAIN does : Handled("Roles", h, does[h], buttons[h])
<1> SUFFICES ASSUME NEW h \in DOMAIN does PROVE Handled("Roles", h, does[h], buttons[h])
  OBVIOUS
<1>0. h \notin Loads \union {"none"}
  BY DEF RolesRows, Loads
<1>1. CASE h \notin {}
  <2>1. Common(does[h], buttons[h])
    BY <1>1 DEF RolesRows, RolesButtons, Common, In, InRow, InHeader, InPanel, Dialogs, Flags
  <2> QED BY <1>0, <2>1, CommonIs
<1> QED BY <1>1

\* SettingsPage.tsx: the same.
LEMMA SettingsHandled ==
  ASSUME NEW does, NEW buttons, does = SettingsRows, buttons = SettingsButtons
  PROVE  \A h \in DOMAIN does : Handled("Settings", h, does[h], buttons[h])
<1> SUFFICES ASSUME NEW h \in DOMAIN does PROVE Handled("Settings", h, does[h], buttons[h])
  OBVIOUS
<1>0. h \notin Loads \union {"none"}
  BY DEF SettingsRows, Loads
<1>1. CASE h = "saveBranding"
  <2> DEFINE b == does[h]
  <2>1. b.flag = "brandingSaving" /\ b.catch = "page" /\ buttons[h] = <<"header", "brandingSaving">>
    BY <1>1 DEF SettingsRows, SettingsButtons, Does
  <2>2. /\ Len(b.steps) = 2 /\ 1 .. 2 = {1, 2}
        /\ b.steps[1] = Ask("write") /\ b.steps[2] = Ask("load")
    BY <1>1 DEF SettingsRows, SettingsButtons, Does
  <2> HIDE DEF b
  <2> USE DEF Ask, Open, Close, Panel, Show, Launch, Leave,
             In, InRow, InHeader, InPanel
  <2>3. BodyOK(b)
    BY <2>1, <2>2 DEF BodyOK, StepOK, Flags, Dialogs
  <2>4. buttons[h][1] \in Dialogs \ {"createList"} => Saves(b, buttons[h][1])
    BY <2>1, <2>2 DEF Saves, Dialogs
  <2>5. "Settings" \notin LeftOut => Reloads(b)
    BY <2>1, <2>2 DEF Reloads, LeftOut, Loads
  <2>6. "Settings" \notin Unsaid => Says(b)
    BY <2>1, <2>2 DEF Says, Unsaid, Loads
  <2>7. b.flag \in {"none", buttons[h][2]}
    BY <2>1
  <2> QED BY <1>0, <2>3, <2>4, <2>5, <2>6, <2>7 DEF Handled, b
<1>2. CASE h = "handleSubmit"
  <2> DEFINE b == does[h]
  <2>1. b.flag = "saving" /\ b.catch = "page" /\ buttons[h] = In("form", "saving")
    BY <1>2 DEF SettingsRows, SettingsButtons, Does
  <2>2. /\ Len(b.steps) = 4 /\ 1 .. 4 = {1, 2, 3, 4}
        /\ b.steps[1] = Ask("parse") /\ b.steps[2] = Ask("write") /\ b.steps[3] = Close("form")
        /\ b.steps[4] = Ask("load")
    BY <1>2 DEF SettingsRows, SettingsButtons, Does
  <2> HIDE DEF b
  <2> USE DEF Ask, Open, Close, Panel, Show, Launch, Leave,
             In, InRow, InHeader, InPanel
  <2>3. BodyOK(b)
    BY <2>1, <2>2 DEF BodyOK, StepOK, Flags, Dialogs
  <2>4. buttons[h][1] \in Dialogs \ {"createList"} => Saves(b, buttons[h][1])
    BY <2>1, <2>2 DEF Saves, Dialogs
  <2>5. "Settings" \notin LeftOut => Reloads(b)
    BY <2>1, <2>2 DEF Reloads, LeftOut, Loads
  <2>6. "Settings" \notin Unsaid => Says(b)
    BY <2>1, <2>2 DEF Says, Unsaid, Loads
  <2>7. b.flag \in {"none", buttons[h][2]}
    BY <2>1
  <2> QED BY <1>0, <2>3, <2>4, <2>5, <2>6, <2>7 DEF Handled, b
<1>3. CASE h \notin {"saveBranding", "handleSubmit"}
  <2>1. Common(does[h], buttons[h])
    BY <1>3 DEF SettingsRows, SettingsButtons, Common, In, InRow, InHeader, InPanel, Dialogs, Flags
  <2> QED BY <1>0, <2>1, CommonIs
<1> QED BY <1>1, <1>2, <1>3

\* OrganizationsPage.tsx: the same, and its detail is loaded for the row it is opened for.
LEMMA OrganizationsHandled ==
  ASSUME NEW does, NEW buttons, does = Merged(OrganizationsRows, OrganizationDetail),
         buttons = Merged(OrganizationsButtons, OrganizationDetailButtons)
  PROVE  \A h \in DOMAIN does : Handled("Organizations", h, does[h], buttons[h])
<1> SUFFICES ASSUME NEW h \in DOMAIN does PROVE Handled("Organizations", h, does[h], buttons[h])
  OBVIOUS
<1>0. h \notin Loads \union {"none"}
  BY DEF OrganizationsRows, OrganizationDetail, Merged, Loads
<1>1. CASE h = "handleCreate"
  <2> DEFINE b == does[h]
  <2>1. b.flag = "saving" /\ b.catch = "page" /\ buttons[h] = In("form", "saving")
    BY <1>1 DEF OrganizationsRows, OrganizationDetail, OrganizationsButtons,
                OrganizationDetailButtons, Merged, Does
  <2>2. /\ Len(b.steps) = 4 /\ 1 .. 4 = {1, 2, 3, 4}
        /\ b.steps[1] = Ask("write") /\ b.steps[2] = Close("form")
        /\ b.steps[3] = Open("created") /\ b.steps[4] = Ask("load")
    BY <1>1 DEF OrganizationsRows, OrganizationDetail, OrganizationsButtons,
                OrganizationDetailButtons, Merged, Does
  <2> HIDE DEF b
  <2> USE DEF Ask, Open, Close, Panel, Show, Launch, Leave,
             In, InRow, InHeader, InPanel
  <2>3. BodyOK(b)
    BY <2>1, <2>2 DEF BodyOK, StepOK, Flags, Dialogs
  <2>4. buttons[h][1] \in Dialogs \ {"createList"} => Saves(b, buttons[h][1])
    BY <2>1, <2>2 DEF Saves, Dialogs
  <2>5. Says(b)
    BY <2>1, <2>2 DEF Says, Loads
  <2>6. Details(b, buttons[h][1])
    BY <2>1, <2>2 DEF Details
  <2>7. b.flag \in {"none", buttons[h][2]}
    BY <2>1
  <2> QED BY <1>0, <2>3, <2>4, <2>5, <2>6, <2>7 DEF Handled, LeftOut, b
<1>2. CASE h = "handleImpersonate"
  <2> DEFINE b == does[h]
  <2>1. b.flag = "none" /\ b.catch = "page" /\ buttons[h] = InRow
    BY <1>2 DEF OrganizationsRows, OrganizationDetail, OrganizationsButtons,
                OrganizationDetailButtons, Merged, Does
  <2>2. /\ Len(b.steps) = 3 /\ 1 .. 3 = {1, 2, 3}
        /\ b.steps[1] = Ask("post") /\ b.steps[2] = Ask("read") /\ b.steps[3] = Leave
    BY <1>2 DEF OrganizationsRows, OrganizationDetail, OrganizationsButtons,
                OrganizationDetailButtons, Merged, Does
  <2> HIDE DEF b
  <2> USE DEF Ask, Open, Close, Panel, Show, Launch, Leave,
             In, InRow, InHeader, InPanel
  <2>3. BodyOK(b)
    BY <2>1, <2>2 DEF BodyOK, StepOK, Flags, Dialogs
  <2>4. buttons[h][1] \in Dialogs \ {"createList"} => Saves(b, buttons[h][1])
    BY <2>1, <2>2 DEF Saves, Dialogs
  <2>5. Says(b)
    BY <2>1, <2>2 DEF Says, Loads
  <2>6. Details(b, buttons[h][1])
    BY <2>1, <2>2 DEF Details
  <2>7. b.flag \in {"none", buttons[h][2]}
    BY <2>1
  <2> QED BY <1>0, <2>3, <2>4, <2>5, <2>6, <2>7 DEF Handled, LeftOut, b
<1>3. CASE h = "openDetail"
  <2> DEFINE b == does[h]
  <2>1. b.flag = "none" /\ b.catch = "page" /\ buttons[h] = InRow
    BY <1>3 DEF OrganizationsRows, OrganizationDetail, OrganizationsButtons,
                OrganizationDetailButtons, Merged, Does
  <2>2. /\ Len(b.steps) = 2 /\ 1 .. 2 = {1, 2}
        /\ b.steps[1] = Panel("row") /\ b.steps[2] = Ask("loadDetail")
    BY <1>3 DEF OrganizationsRows, OrganizationDetail, OrganizationsButtons,
                OrganizationDetailButtons, Merged, Does
  <2> HIDE DEF b
  <2> USE DEF Ask, Open, Close, Panel, Show, Launch, Leave,
             In, InRow, InHeader, InPanel
  <2>3. BodyOK(b)
    BY <2>1, <2>2 DEF BodyOK, StepOK, Flags, Dialogs
  <2>4. buttons[h][1] \in Dialogs \ {"createList"} => Saves(b, buttons[h][1])
    BY <2>1, <2>2 DEF Saves, Dialogs
  <2>5. Says(b)
    BY <2>1, <2>2 DEF Says, Loads
  <2>6. Details(b, buttons[h][1])
    BY <2>1, <2>2 DEF Details
  <2>7. b.flag \in {"none", buttons[h][2]}
    BY <2>1
  <2> QED BY <1>0, <2>3, <2>4, <2>5, <2>6, <2>7 DEF Handled, LeftOut, b
<1>4. CASE h \in {"handleSaveDetails", "handleToggleStatus", "handleToggleService",
                  "handleSaveModules", "handleAdjustCredits"}
  <2> DEFINE b == does[h]
  <2>1. b.flag = "busy" /\ b.catch = "panel" /\ buttons[h] = <<"detail", "busy">>
    BY <1>4 DEF OrganizationsRows, OrganizationDetail, OrganizationsButtons,
                OrganizationDetailButtons, Merged, Refreshing, Does
  <2>2. /\ Len(b.steps) = 3 /\ 1 .. 3 = {1, 2, 3}
        /\ b.steps[1] = Ask("write") /\ b.steps[2] = Ask("loadDetail") /\ b.steps[3] = Launch
    BY <1>4 DEF OrganizationsRows, OrganizationDetail, OrganizationsButtons,
                OrganizationDetailButtons, Merged, Refreshing, Does
  <2> HIDE DEF b
  <2> USE DEF Ask, Open, Close, Panel, Show, Launch, Leave,
             In, InRow, InHeader, InPanel
  <2>3. BodyOK(b)
    BY <2>1, <2>2 DEF BodyOK, StepOK, Flags, Dialogs
  <2>4. buttons[h][1] \in Dialogs \ {"createList"} => Saves(b, buttons[h][1])
    BY <2>1, <2>2 DEF Saves, Dialogs
  <2>5. Says(b)
    BY <2>1, <2>2 DEF Says, Loads
  <2>6. Details(b, buttons[h][1])
    BY <2>1, <2>2 DEF Details
  <2>7. b.flag \in {"none", buttons[h][2]}
    BY <2>1
  <2> QED BY <1>0, <2>3, <2>4, <2>5, <2>6, <2>7 DEF Handled, LeftOut, b
<1>5. CASE h = "handleResetPassword"
  <2> DEFINE b == does[h]
  <2>1. b.flag = "busy" /\ b.catch = "panel" /\ buttons[h] = In("reset", "busy")
    BY <1>5 DEF OrganizationsRows, OrganizationDetail, OrganizationsButtons,
                OrganizationDetailButtons, Merged, Does
  <2>2. /\ Len(b.steps) = 3 /\ 1 .. 3 = {1, 2, 3}
        /\ b.steps[1] = Ask("post") /\ b.steps[2] = Close("reset")
        /\ b.steps[3] = Open("resetResult")
    BY <1>5 DEF OrganizationsRows, OrganizationDetail, OrganizationsButtons,
                OrganizationDetailButtons, Merged, Does
  <2> HIDE DEF b
  <2> USE DEF Ask, Open, Close, Panel, Show, Launch, Leave,
             In, InRow, InHeader, InPanel
  <2>3. BodyOK(b)
    BY <2>1, <2>2 DEF BodyOK, StepOK, Flags, Dialogs
  <2>4. buttons[h][1] \in Dialogs \ {"createList"} => Saves(b, buttons[h][1])
    BY <2>1, <2>2 DEF Saves, Dialogs
  <2>5. Says(b)
    BY <2>1, <2>2 DEF Says, Loads
  <2>6. Details(b, buttons[h][1])
    BY <2>1, <2>2 DEF Details
  <2>7. b.flag \in {"none", buttons[h][2]}
    BY <2>1
  <2> QED BY <1>0, <2>3, <2>4, <2>5, <2>6, <2>7 DEF Handled, LeftOut, b
<1>6. CASE h = "onImpersonate"
  <2> DEFINE b == does[h]
  <2>1. b.flag = "none" /\ b.catch = "page" /\ buttons[h] = <<"detail", "none">>
    BY <1>6 DEF OrganizationsRows, OrganizationDetail, OrganizationsButtons,
                OrganizationDetailButtons, Merged, Does
  <2>2. /\ Len(b.steps) = 3 /\ 1 .. 3 = {1, 2, 3}
        /\ b.steps[1] = Ask("post") /\ b.steps[2] = Ask("read") /\ b.steps[3] = Leave
    BY <1>6 DEF OrganizationsRows, OrganizationDetail, OrganizationsButtons,
                OrganizationDetailButtons, Merged, Does
  <2> HIDE DEF b
  <2> USE DEF Ask, Open, Close, Panel, Show, Launch, Leave,
             In, InRow, InHeader, InPanel
  <2>3. BodyOK(b)
    BY <2>1, <2>2 DEF BodyOK, StepOK, Flags, Dialogs
  <2>4. buttons[h][1] \in Dialogs \ {"createList"} => Saves(b, buttons[h][1])
    BY <2>1, <2>2 DEF Saves, Dialogs
  <2>5. Says(b)
    BY <2>1, <2>2 DEF Says, Loads
  <2>6. Details(b, buttons[h][1])
    BY <2>1, <2>2 DEF Details
  <2>7. b.flag \in {"none", buttons[h][2]}
    BY <2>1
  <2> QED BY <1>0, <2>3, <2>4, <2>5, <2>6, <2>7 DEF Handled, LeftOut, b
<1>7. CASE h \in {"openCreate", "openReset"}
  <2>1. PICK d \in Dialogs : does[h] = Opens(d) /\ buttons[h][1] # d
    BY <1>7 DEF OrganizationsRows, OrganizationDetail, OrganizationsButtons,
                OrganizationDetailButtons, Merged, InHeader, Dialogs
  <2> QED BY <1>0, <2>1, OpensIs DEF Handled
<1>8. h \in {"handleCreate", "handleImpersonate", "openDetail", "handleSaveDetails",
             "handleToggleStatus", "handleToggleService", "handleSaveModules",
             "handleAdjustCredits", "handleResetPassword", "onImpersonate", "openCreate",
             "openReset"}
  BY DEF OrganizationsRows, OrganizationDetail, OrganizationsButtons, OrganizationDetailButtons,
         Merged
<1> QED BY <1>1, <1>2, <1>3, <1>4, <1>5, <1>6, <1>7, <1>8

-----------------------------------------------------------------------------
(* A handler between two of its calls *)

\* What the steps of b between its i-th and its j-th, for row e, leave of page u in page v.
RunFacts(u, v, b, i, j, e) ==
    /\ v \in Ui /\ v.busy = u.busy /\ v.rows = u.rows /\ v.of = u.of /\ v.error = u.error
    /\ (\A k \in i + 1 .. j - 1 : b.steps[k][1] # "panel") => v.panel = u.panel
    /\ (\A k \in i + 1 .. j - 1 : b.steps[k][1] # "show") => v.shown = u.shown
    /\ \A k \in i + 1 .. j - 1 :
        b.steps[k] = Panel("row") /\ (\A m \in i + 1 .. j - 1 : m # k => b.steps[m][1] # "panel")
            => v.panel = e
    /\ \A d \in Dialogs : \A k \in i + 1 .. j - 1 :
        b.steps[k] = Close(d) /\ (\A m \in i + 1 .. j - 1 : b.steps[m] # Open(d)) => d \notin v.open

\* A nonempty set of numbers has a least one (the library has induction only, which the provers
\* cannot use: this follows from the well-foundedness of strict inclusion).
LEMMA LeastExists ==
  ASSUME NEW S \in SUBSET Nat, S # {}
  PROVE  \E n \in S : \A k \in S : n <= k
<1> DEFINE Below(n) == {k \in S : k < n}
           R == StrictSubsetOrdering(Nat)
<1>1. \A n \in S : Below(n) \in FiniteSubsetsOf(Nat)
  <2> SUFFICES ASSUME NEW n \in S PROVE IsFiniteSet(Below(n))
    BY DEF FiniteSubsetsOf
  <2> QED BY FS_BoundedSetOfNaturals, \A k \in Below(n) : k <= n
<1>2. PICK n \in S : \A m \in S : <<Below(m), Below(n)>> \notin R
  <2> DEFINE T == {Below(m) : m \in S}
  <2>1. IsWellFoundedOn(R, FiniteSubsetsOf(Nat))
    BY FS_StrictSubsetOrderingWellFounded
  <2>2. T \subseteq FiniteSubsetsOf(Nat) /\ T # {}
    BY <1>1
  <2> HIDE DEF R, T
  <2>3. \E x \in T : \A y \in T : <<y, x>> \notin R
    BY <2>1, <2>2, WFMin
  <2> QED BY <2>3 DEF T
<1>3. \A k \in S : n <= k
  <2> SUFFICES ASSUME NEW k \in S, k < n PROVE FALSE
    OBVIOUS
  <2>0. k \in Nat /\ n \in Nat
    OBVIOUS
  <2>1. k \in Below(n) /\ k \notin Below(k)
    BY <2>0
  <2>3. \A m \in Below(k) : m \in Below(n)
    <3> SUFFICES ASSUME NEW m \in S, m < k PROVE m < n
      OBVIOUS
    <3> QED BY <2>0, m \in Nat
  <2>2. Below(k) \in SUBSET Nat /\ Below(n) \in SUBSET Nat
    OBVIOUS
  <2> QED BY <1>2, <2>1, <2>2, <2>3 DEF StrictSubsetOrdering
<1> QED BY <1>3

\* A nonempty bounded set of numbers has a greatest one, which is what Max chooses.
LEMMA GreatestExists ==
  ASSUME NEW n \in Nat, NEW S \in SUBSET (0 .. n), S # {}
  PROVE  Max(S) \in S /\ \A k \in S : k <= Max(S)
<1> DEFINE R == {n - k : k \in S}
<1>1. R \in SUBSET Nat /\ R # {}
  <2>1. \A k \in S : n - k \in Nat
    OBVIOUS
  <2> QED BY <2>1
<1>2. PICK m \in R : \A k \in R : m <= k
  BY <1>1, LeastExists
<1>3. PICK x \in S : m = n - x
  BY <1>2
<1>4. \A y \in S : x >= y
  <2> TAKE y \in S
  <2>1. n - y \in R
    OBVIOUS
  <2>2. x \in 0 .. n /\ y \in 0 .. n
    OBVIOUS
  <2> QED BY <1>2, <1>3, <2>1, <2>2
<1> HIDE DEF R
<1> QED BY <1>4 DEF Max

\* NextAsk is the next step that asks, or the one after the last.
LEMMA NextAskIs ==
  ASSUME NEW b, BodyOK(b), NEW i \in 0 .. Len(b.steps), NEW j, j = NextAsk(b.steps, i)
  PROVE  /\ j \in i + 1 .. Len(b.steps) + 1
         /\ j <= Len(b.steps) => b.steps[j][1] = "ask"
         /\ \A k \in i + 1 .. j - 1 : b.steps[k][1] # "ask"
<1> DEFINE asks == {k \in i + 1 .. Len(b.steps) : b.steps[k][1] = "ask"}
<1>0. Len(b.steps) \in Nat
  BY DEF BodyOK
<1>1. CASE asks = {}
  <2>1. j = Len(b.steps) + 1
    BY <1>1 DEF NextAsk
  <2> QED BY <1>0, <1>1, <2>1
<1>2. CASE asks # {}
  <2>1. asks \in SUBSET Nat
    BY <1>0
  <2>2. \E n \in asks : \A k \in asks : n <= k
    BY <1>2, <2>1, LeastExists
  <2>3. j = CHOOSE n \in asks : \A k \in asks : n <= k
    BY <1>2 DEF NextAsk
  <2>4. j \in asks /\ \A k \in asks : j <= k
    BY <2>2, <2>3
  <2>5. ASSUME NEW k \in i + 1 .. j - 1 PROVE b.steps[k][1] # "ask"
    BY <1>0, <2>4
  <2> QED BY <1>0, <2>4, <2>5
<1> QED BY <1>1, <1>2

\* RunTo yields a page for which this is so.
LEMMA RunToIs ==
  ASSUME NEW u \in Ui, NEW b, BodyOK(b), NEW i \in Nat, NEW j \in 1 .. Len(b.steps) + 1,
         NEW e \in Covers
  PROVE  RunFacts(u, RunTo(u, b, i, j, e), b, i, j, e)
<1> DEFINE do(verb) == {k \in i + 1 .. j - 1 : b.steps[k][1] = verb}
           it(k) == IF b.steps[k][2] = "row" THEN e ELSE b.steps[k][2]
           closed(d, k) == \E m \in do("close") : k < m /\ it(m) = d
           last(verb, was) == IF do(verb) = {} THEN was ELSE it(Max(do(verb)))
           open == {d \in u.open : ~closed(d, i)}
                   \union {it(k) : k \in {n \in do("open") : ~closed(it(n), n)}}
           panel == last("panel", u.panel)
           shown == last("show", u.shown)
           gone == u.gone \/ do("leave") # {}
<1> DEFINE v == RunTo(u, b, i, j, e)
<1>0. v = [u EXCEPT !.open = open, !.panel = panel, !.shown = shown, !.gone = gone]
  BY DEF RunTo
<1>1. \A k \in i + 1 .. j - 1 : k \in 1 .. Len(b.steps) /\ StepOK(b.steps[k])
  BY DEF BodyOK
<1>2. \A verb : do(verb) # {} => Max(do(verb)) \in do(verb)
  <2> TAKE verb
  <2>1. do(verb) \in SUBSET (0 .. Len(b.steps)) /\ Len(b.steps) \in Nat
    BY <1>1 DEF BodyOK
  <2> QED BY <2>1, GreatestExists
<1>3. open \in SUBSET Dialogs
  <2>1. \A k \in do("open") : it(k) \in Dialogs
    BY <1>1 DEF StepOK, Dialogs
  <2>2. u.open \in SUBSET Dialogs
    BY DEF Ui
  <2> QED BY <2>1, <2>2
<1>4. panel \in Covers \union {"closed"}
  <2>1. \A k \in do("panel") : it(k) \in Covers \union {"closed"}
    BY <1>1 DEF StepOK, Covers
  <2>2. u.panel \in Covers \union {"closed"}
    BY DEF Ui
  <2> QED BY <1>2, <2>1, <2>2
<1>5. shown \in Covers \union {"nothing"}
  <2>1. \A k \in do("show") : it(k) \in Covers \union {"nothing"}
    BY <1>1 DEF StepOK, Covers
  <2>2. u.shown \in Covers \union {"nothing"}
    BY DEF Ui
  <2> QED BY <1>2, <2>1, <2>2
<1>6. gone \in BOOLEAN
  OBVIOUS
<1>7. (\A k \in i + 1 .. j - 1 : b.steps[k][1] # "panel") => panel = u.panel
  OBVIOUS
<1>8. (\A k \in i + 1 .. j - 1 : b.steps[k][1] # "show") => shown = u.shown
  OBVIOUS
<1>9. ASSUME NEW k \in i + 1 .. j - 1, b.steps[k] = Panel("row"),
             \A m \in i + 1 .. j - 1 : m # k => b.steps[m][1] # "panel"
      PROVE  panel = e
  <2>1. do("panel") = {k} /\ it(k) = e
    BY <1>9 DEF Panel
  <2> QED BY <1>2, <2>1
<1>10. ASSUME NEW d \in Dialogs, NEW k \in i + 1 .. j - 1, b.steps[k] = Close(d),
              \A m \in i + 1 .. j - 1 : b.steps[m] # Open(d)
       PROVE  d \notin open
  <2>1. closed(d, i)
    BY <1>10 DEF Close, Dialogs
  <2>2. \A m \in do("open") : it(m) # d
    BY <1>1, <1>10 DEF StepOK, Open, Dialogs
  <2> QED BY <2>1, <2>2
<1> HIDE DEF open, panel, shown, gone
<1>11. v \in Ui
  BY <1>0, <1>3, <1>4, <1>5, <1>6 DEF Ui
<1>12. v.busy = u.busy /\ v.rows = u.rows /\ v.of = u.of /\ v.error = u.error
  BY <1>0 DEF Ui
<1>13. v.open = open /\ v.panel = panel /\ v.shown = shown
  BY <1>0 DEF Ui
<1> QED BY <1>7, <1>8, <1>9, <1>10, <1>11, <1>12, <1>13 DEF RunFacts

-----------------------------------------------------------------------------
(* The pages, and the handlers under way *)

\* The rules hold of every handler of the page.
PagesOK == \A h \in DOMAIN Page.does : Handled(page, h, Page.does[h], Page.buttons[h])

\* Every page keeps the rules.
LEMMA AllHandled == page \in DOMAIN Pages => PagesOK
<1> SUFFICES ASSUME page \in DOMAIN Pages PROVE PagesOK
  OBVIOUS
<1>1. page \in {"Contacts", "Lists", "Templates", "Users", "Automations", "Campaigns", "Plans",
                "Roles", "Settings", "Organizations", "Credits", "AuditLogs", "AdminDashboard",
                "Analytics"}
  BY DEF Pages
<1> USE DEF PagesOK, Page, Pages, Plain, PageOf
<1>2. CASE page = "Contacts"
  BY <1>2, ContactsHandled DEF ContactsPage
<1>3. CASE page = "Lists"
  BY <1>3, ListsHandled
<1>4. CASE page = "Templates"
  BY <1>4, TemplatesHandled
<1>5. CASE page = "Users"
  BY <1>5, UsersHandled
<1>6. CASE page = "Automations"
  BY <1>6, AutomationsHandled
<1>7. CASE page = "Campaigns"
  BY <1>7, CampaignsHandled DEF CampaignsPage
<1>8. CASE page = "Plans"
  BY <1>8, PlansHandled
<1>9. CASE page = "Roles"
  BY <1>9, RolesHandled
<1>10. CASE page = "Settings"
  BY <1>10, SettingsHandled
<1>11. CASE page = "Organizations"
  BY <1>11, OrganizationsHandled DEF OrganizationsPage
<1>12. CASE page \in {"Credits", "AuditLogs", "AdminDashboard", "Analytics"}
  BY <1>12 DEF CreditsPage, AuditLogsPage, AdminDashboardPage, AnalyticsPage, Reading
<1> QED BY <1>1, <1>2, <1>3, <1>4, <1>5, <1>6, <1>7, <1>8, <1>9, <1>10, <1>11, <1>12

\* What the effects of a page call: one load, but for two pages; the search reloads the rows.
LEMMA Openings ==
  page \in DOMAIN Pages =>
    /\ DOMAIN Page.mount \in {{1}, {1, 2}} /\ \A s \in DOMAIN Page.mount : Page.mount[s] \in Loads
    /\ Page.onView \in {"none"} \union Loads
    /\ page \notin TwoCalls => DOMAIN Page.mount = {1} /\ Page.mount[1] = "load"
    /\ page # "Credits" => Page.onView \in {"none", "load"}
    /\ page = "Organizations" => Page.clears
<1> SUFFICES ASSUME page \in DOMAIN Pages
             PROVE  /\ DOMAIN Page.mount \in {{1}, {1, 2}}
                    /\ \A s \in DOMAIN Page.mount : Page.mount[s] \in Loads
                    /\ Page.onView \in {"none"} \union Loads
                    /\ page \notin TwoCalls => DOMAIN Page.mount = {1} /\ Page.mount[1] = "load"
                    /\ page # "Credits" => Page.onView \in {"none", "load"}
                    /\ page = "Organizations" => Page.clears
  OBVIOUS
<1>1. CASE page = "Campaigns"
  BY <1>1 DEF Page, Pages, CampaignsPage, PageOf, Loads, TwoCalls
<1>2. CASE page = "Credits"
  BY <1>2 DEF Page, Pages, CreditsPage, Reading, PageOf, Loads, TwoCalls
<1>3. CASE page = "Organizations"
  BY <1>3 DEF Page, Pages, OrganizationsPage, PageOf, Loads, TwoCalls
<1>4. CASE page \notin {"Campaigns", "Credits", "Organizations"}
  <2>1. Page.mount = <<"load">> /\ Page.onView \in {"none", "load"}
    BY <1>4 DEF Page, Pages, ContactsPage, AuditLogsPage, AdminDashboardPage, AnalyticsPage,
                Plain, Reading, PageOf
  <2> QED BY <1>4, <2>1 DEF Loads, TwoCalls
<1> QED BY <1>1, <1>2, <1>3, <1>4

\* The body of a slot is an effect's load or an entry of the page's table.
LEMMA BodyIs ==
  ASSUME Shape, NEW s \in Slots, Active(s)
  PROVE  /\ BodyOK(Body(s))
         /\ handler[s] \in Loads => Body(s) = Does("none", <<Ask(handler[s])>>, "nobody")
         /\ handler[s] \notin Loads =>
                /\ handler[s] \in DOMAIN Page.does /\ Body(s) = Page.does[handler[s]]
                /\ Handled(page, handler[s], Body(s), Page.buttons[handler[s]])
<1>1. CASE handler[s] \in Loads
  <2>1. Body(s) = Does("none", <<Ask(handler[s])>>, "nobody")
    BY <1>1 DEF Body
  <2>2. BodyOK(Body(s))
    BY <2>1 DEF BodyOK, StepOK, Does, Ask
  <2> QED BY <1>1, <2>1, <2>2
<1>2. CASE handler[s] \notin Loads
  <2>1. handler[s] \in DOMAIN Page.does /\ Body(s) = Page.does[handler[s]]
    BY <1>2 DEF Body, Shape, Active
  <2>2. Handled(page, handler[s], Body(s), Page.buttons[handler[s]])
    BY <2>1, AllHandled DEF Shape, PagesOK
  <2> QED BY <1>2, <2>1, <2>2 DEF Handled
<1> QED BY <1>1, <1>2

\* The handler of s awaits its step j.
Moves(s, j) ==
    /\ at' = [at EXCEPT ![s] = j] /\ answer' = [answer EXCEPT ![s] = "waiting"]
    /\ got' = [got EXCEPT ![s] = 0] /\ UNCHANGED <<handler, subject, closure>>
\* The handler of s goes on, from page u to page v: it ends or awaits its step j.
Onward(s, u, v, j) ==
    /\ j \in at[s] + 1 .. Len(Steps(s)) + 1
    /\ \A k \in at[s] + 1 .. j - 1 : Steps(s)[k][1] # "ask"
    /\ RunFacts(u, v, Body(s), at[s], j, subject[s])
    /\ \/ /\ j = Len(Steps(s)) + 1 /\ ui' = [v EXCEPT !.busy = @ \ {Body(s).flag}]
          /\ \/ Steps(s)[Len(Steps(s))] # Launch /\ Becomes(s, "none")
             \/ Steps(s)[Len(Steps(s))] = Launch /\ Becomes(s, "load")
       \/ j <= Len(Steps(s)) /\ Steps(s)[j][1] = "ask" /\ ui' = v /\ Moves(s, j)

\* GoOn goes on.
LEMMA GoOnIs ==
  ASSUME Shape, NEW s \in Slots, Active(s), NEW u \in Ui, GoOn(s, u, at[s])
  PROVE  \E v, j : Onward(s, u, v, j)
<1> DEFINE i == at[s]
           j == NextAsk(Steps(s), i)
           v == RunTo(u, Body(s), i, j, subject[s])
<1>1. BodyOK(Body(s)) /\ Steps(s) = Body(s).steps /\ Len(Steps(s)) \in Nat
  BY BodyIs DEF Steps, BodyOK
<1>2. i \in 1 .. Len(Steps(s))
  BY DEF Shape, Slot, Active
<1>3. /\ j \in i + 1 .. Len(Steps(s)) + 1 /\ (j <= Len(Steps(s)) => Steps(s)[j][1] = "ask")
      /\ \A k \in i + 1 .. j - 1 : Steps(s)[k][1] # "ask"
  BY <1>1, <1>2, NextAskIs
<1>4. RunFacts(u, v, Body(s), i, j, subject[s])
  <2>1. subject[s] \in Covers /\ j \in 1 .. Len(Body(s).steps) + 1 /\ i \in Nat
    BY <1>1, <1>2, <1>3 DEF Shape
  <2> QED BY <1>1, <2>1, RunToIs
<1>5. CASE j > Len(Steps(s))
  <2>1. j = Len(Steps(s)) + 1
    BY <1>1, <1>3, <1>5
  <2>2. /\ Becomes(s, IF Steps(s)[Len(Steps(s))] = Launch THEN "load" ELSE "none")
        /\ ui' = [v EXCEPT !.busy = @ \ {Body(s).flag}]
    BY <1>5 DEF GoOn, Last
  <2> QED BY <1>3, <1>4, <2>1, <2>2 DEF Onward
<1>6. CASE ~(j > Len(Steps(s)))
  <2>1. ui' = v /\ Moves(s, j)
    BY <1>6 DEF GoOn, Moves
  <2>2. j <= Len(Steps(s))
    BY <1>1, <1>3, <1>6
  <2> QED BY <1>3, <1>4, <2>1, <2>2 DEF Onward
<1> QED BY <1>5, <1>6

\* The page with the flag of h on.
Opening(h) == [ui EXCEPT !.busy = @ \union ({Page.does[h].flag} \ {"none"})]
\* A click on h for row e takes slot s and leaves page v.
Clicked(h, e, s, v, j) ==
    LET b == Page.does[h] IN
    /\ Quiet /\ Clickable(h) /\ e \in Subjects(h)
    /\ s \in Slots /\ handler[s] = "none" /\ e \in Covers
    /\ Handled(page, h, b, Page.buttons[h])
    /\ j \in 1 .. Len(b.steps) + 1 /\ \A k \in 1 .. j - 1 : b.steps[k][1] # "ask"
    /\ Opening(h) \in Ui /\ RunFacts(Opening(h), v, b, 0, j, e)
    /\ \/ j = Len(b.steps) + 1 /\ ui' = [v EXCEPT !.busy = @ \ {b.flag}] /\ UNCHANGED wslots
       \/ /\ j <= Len(b.steps) /\ b.steps[j][1] = "ask" /\ ui' = v
          /\ handler' = [handler EXCEPT ![s] = h] /\ at' = [at EXCEPT ![s] = j]
          /\ subject' = [subject EXCEPT ![s] = e] /\ closure' = [closure EXCEPT ![s] = view]
          /\ UNCHANGED <<answer, got>>
    /\ written' \subseteq written /\ written' \subseteq ui'.open /\ failed' = FALSE
    /\ UNCHANGED <<page, patient, view, version>>

\* A click takes a slot that is free.
LEMMA NextSlotIs == ASSUME Vacant # {} PROVE NextSlot \in Slots /\ handler[NextSlot] = "none"
<1>1. Vacant \in SUBSET Nat
  BY WebPagesAssumption DEF Vacant
<1>2. NextSlot \in Vacant
  BY <1>1, LeastExists DEF NextSlot
<1> QED BY <1>2 DEF Vacant

\* A click is Clicked.
LEMMA ClickIs ==
  ASSUME Shape, NEW h \in DOMAIN Page.does, NEW e \in Subjects(h), Click(h, e)
  PROVE  \E v, j : Clicked(h, e, NextSlot, v, j)
<1> DEFINE b == Page.does[h]
           j == NextAsk(b.steps, 0)
           u == Opening(h)
           v == RunTo(u, b, 0, j, e)
<1>1. Handled(page, h, b, Page.buttons[h]) /\ BodyOK(b) /\ Len(b.steps) \in Nat
  BY AllHandled DEF Shape, PagesOK, Handled, BodyOK
<1>2. e \in Covers
  BY DEF Subjects, Covers, Shape, Ui
<1>3. u \in Ui
  <2>1. b.flag \in Flags \union {"none"}
    BY <1>1 DEF BodyOK
  <2>2. ui.busy \union ({b.flag} \ {"none"}) \in SUBSET Flags
    BY <2>1 DEF Shape, Ui
  <2>3. u = [ui EXCEPT !.busy = ui.busy \union ({b.flag} \ {"none"})]
    BY DEF Opening
  <2> QED BY <2>2, <2>3 DEF Shape, Ui
<1>4. /\ j \in 1 .. Len(b.steps) + 1 /\ (j <= Len(b.steps) => b.steps[j][1] = "ask")
      /\ \A k \in 1 .. j - 1 : b.steps[k][1] # "ask"
  <2>1. 0 \in 0 .. Len(b.steps) /\ 0 + 1 = 1
    BY <1>1
  <2> HIDE DEF j
  <2>2. /\ j \in 0 + 1 .. Len(b.steps) + 1 /\ (j <= Len(b.steps) => b.steps[j][1] = "ask")
        /\ \A k \in 0 + 1 .. j - 1 : b.steps[k][1] # "ask"
    BY <1>1, <2>1, NextAskIs DEF j
  <2> QED BY <2>1, <2>2
<1>5. RunFacts(u, v, b, 0, j, e)
  BY <1>1, <1>2, <1>3, <1>4, RunToIs
<1>6. /\ Quiet /\ Clickable(h) /\ Vacant # {} /\ failed' = FALSE
      /\ UNCHANGED <<page, patient, view, version>>
  BY DEF Click
<1>7. NextSlot \in Slots /\ handler[NextSlot] = "none"
  BY <1>6, NextSlotIs
<1>8. /\ written' = (written \ {Place(h)}) \intersect ui.open \intersect v.open
      /\ IF j > Len(b.steps)
         THEN ui' = [v EXCEPT !.busy = @ \ {b.flag}] /\ UNCHANGED wslots
         ELSE /\ ui' = v
              /\ handler' = [handler EXCEPT ![NextSlot] = h] /\ at' = [at EXCEPT ![NextSlot] = j]
              /\ subject' = [subject EXCEPT ![NextSlot] = e]
              /\ closure' = [closure EXCEPT ![NextSlot] = view]
              /\ UNCHANGED <<answer, got>>
  BY DEF Click, Opening
<1>9. v \in Ui
  BY <1>5 DEF RunFacts
<1>10. ui'.open = v.open
  <2> HIDE DEF v, j, b
  <2> QED BY <1>8, <1>9 DEF Ui
<1>11. j > Len(b.steps) => j = Len(b.steps) + 1
  BY <1>1, <1>4
<1> HIDE DEF v, j, b, u
<1> QED BY <1>1, <1>2, <1>3, <1>4, <1>5, <1>6, <1>7, <1>8, <1>10, <1>11 DEF Clicked, b, u

-----------------------------------------------------------------------------
(* The shape of the slots *)

\* A page opens with its effects' calls under way.
LEMMA ShapeInit == WebInit => Shape
<1> SUFFICES ASSUME WebInit PROVE Shape
  OBVIOUS
<1>1. page \in DOMAIN Pages
  BY PageNamesAssumption DEF WebInit
<1>2. ui \in Ui /\ ui.rows = 0 /\ written = {} /\ version = 1
  BY DEF WebInit, Ui
<1>3. ASSUME NEW s \in Slots
      PROVE  /\ handler[s] \in {"none"} \union Loads /\ at[s] = 1 /\ got[s] = 0
             /\ answer[s] = "waiting"
  BY <1>1, <1>3, Openings DEF WebInit
<1>4. ASSUME NEW s \in Slots PROVE Slot(s)
  <2>1. CASE handler[s] = "none"
    BY <1>3, <2>1 DEF Slot
  <2>2. CASE handler[s] # "none"
    <3>1. Steps(s) = <<Ask(handler[s])>>
      BY <1>3, <2>2 DEF Steps, Body, Does
    <3> QED BY <1>2, <1>3, <2>2, <3>1 DEF Slot, Ask
  <2> QED BY <2>1, <2>2
<1>5. handler \in [Slots -> {"none"} \union Loads \union DOMAIN Page.does]
  <2>1. handler = [s \in Slots |-> handler[s]]
    BY DEF WebInit
  <2> QED BY <1>3, <2>1
<1>6. version \in 1 .. MaxWrites + 1 /\ ui.rows <= version
  BY <1>2, WebPagesAssumption
<1>7. /\ at \in [Slots -> Nat] /\ subject \in [Slots -> Covers] /\ closure \in [Slots -> {0, 1}]
      /\ answer \in [Slots -> {"waiting", "ok"}] /\ got \in [Slots -> Nat]
  BY DEF WebInit, Covers
<1>8. patient \in BOOLEAN /\ failed \in BOOLEAN /\ view \in {0, 1} /\ written \subseteq ui.open
  BY WebPagesAssumption DEF WebInit
<1> QED BY <1>1, <1>2, <1>4, <1>5, <1>6, <1>7, <1>8 DEF Shape

\* A slot that a step does not touch.
LEMMA Untouched ==
  ASSUME Shape, NEW s \in Slots, page' = page, handler'[s] = handler[s]
  PROVE  /\ Body(s)' = Body(s) /\ Steps(s)' = Steps(s) /\ Active(s)' = Active(s)
         /\ at'[s] = at[s] /\ answer'[s] = answer[s] /\ got'[s] = got[s] /\ version' = version
            => Slot(s)'
<1>1. Body(s)' = Body(s)
  BY DEF Body, Page
<1>2. Steps(s)' = Steps(s)
  BY <1>1 DEF Steps
<1> QED BY <1>1, <1>2 DEF Shape, Slot, Active

\* A slot whose handler ended rests, or loads the rows.
LEMMA RestsOrLoads ==
  ASSUME NEW s \in Slots, Shape, page' = page, NEW h \in {"none", "load"}, Becomes(s, h),
         version' = version
  PROVE  /\ \A t \in Slots : Slot(t)'
         /\ handler' \in [Slots -> {"none"} \union Loads \union DOMAIN Page'.does]
         /\ at' \in [Slots -> Nat] /\ subject' \in [Slots -> Covers]
         /\ closure' \in [Slots -> {0, 1}] /\ answer' \in [Slots -> {"waiting", "ok"}]
         /\ got' \in [Slots -> Nat]
<1>1. Page' = Page
  BY DEF Page
<1>2. /\ handler' \in [Slots -> {"none"} \union Loads \union DOMAIN Page'.does]
      /\ at' \in [Slots -> Nat] /\ subject' \in [Slots -> Covers]
      /\ closure' \in [Slots -> {0, 1}] /\ answer' \in [Slots -> {"waiting", "ok"}]
      /\ got' \in [Slots -> Nat]
  BY <1>1 DEF Becomes, Shape, Loads, Covers
<1>3. ASSUME NEW t \in Slots PROVE Slot(t)'
  <2>1. CASE t # s
    BY <2>1, Untouched DEF Becomes, Shape
  <2>2. CASE t = s /\ h = "none"
    BY <2>2 DEF Becomes, Shape, Slot
  <2>3. CASE t = s /\ h = "load"
    <3>1. handler'[s] = "load" /\ at'[s] = 1 /\ got'[s] = 0
      BY <2>3 DEF Becomes, Shape
    <3>2. Steps(s)' = <<Ask("load")>>
      BY <3>1 DEF Steps, Body, Loads, Does
    <3>3. 0 <= version'
      BY WebPagesAssumption DEF Shape
    <3> QED BY <2>3, <3>1, <3>2, <3>3 DEF Slot, Ask
  <2> QED BY <2>1, <2>2, <2>3
<1> QED BY <1>2, <1>3

\* A handler that goes on keeps the shape.
LEMMA OnwardShape ==
  ASSUME Shape, NEW s \in Slots, Active(s), NEW u \in Ui, NEW v, NEW j, Onward(s, u, v, j),
         u.rows <= version, written' \subseteq ui'.open, failed' \in BOOLEAN,
         UNCHANGED <<page, patient, view, version>>
  PROVE  Shape'
<1>1. v \in Ui /\ v.rows <= version
  BY DEF Onward, RunFacts
<1>2. ui' \in Ui /\ ui'.rows <= version'
  <2>1. v.busy \ {Body(s).flag} \in SUBSET Flags
    BY <1>1 DEF Ui
  <2> QED BY <1>1, <2>1 DEF Onward, Ui
<1>3. /\ \A t \in Slots : Slot(t)'
      /\ handler' \in [Slots -> {"none"} \union Loads \union DOMAIN Page'.does]
      /\ at' \in [Slots -> Nat] /\ subject' \in [Slots -> Covers]
      /\ closure' \in [Slots -> {0, 1}] /\ answer' \in [Slots -> {"waiting", "ok"}]
      /\ got' \in [Slots -> Nat]
  <2>1. CASE \E h \in {"none", "load"} : Becomes(s, h)
    BY <2>1, RestsOrLoads
  <2>2. CASE j <= Len(Steps(s)) /\ Steps(s)[j][1] = "ask" /\ Moves(s, j)
    <3>1. Page' = Page
      BY DEF Page
    <3>2. at[s] \in Nat /\ Len(Steps(s)) \in Nat /\ j \in 1 .. Len(Steps(s))
      BY <2>2, BodyIs DEF Shape, Onward, BodyOK, Steps
    <3>3. /\ handler' = handler /\ subject' = subject /\ closure' = closure
          /\ at' \in [Slots -> Nat] /\ answer' \in [Slots -> {"waiting", "ok"}]
          /\ got' \in [Slots -> Nat]
      BY <2>2, <3>2 DEF Moves, Shape
    <3>4. ASSUME NEW t \in Slots PROVE Slot(t)'
      <4>1. CASE t # s
        BY <2>2, <3>3, <4>1, Untouched DEF Moves, Shape
      <4>2. CASE t = s
        <5>1. at'[s] = j /\ got'[s] = 0 /\ handler'[s] # "none" /\ Steps(s)' = Steps(s)
          BY <2>2, <3>3, Untouched DEF Moves, Shape, Active
        <5>2. 0 <= version'
          BY WebPagesAssumption DEF Shape
        <5> QED BY <2>2, <3>2, <4>2, <5>1, <5>2 DEF Slot
      <4> QED BY <4>1, <4>2
    <3> QED BY <3>1, <3>3, <3>4 DEF Shape
  <2> QED BY <2>1, <2>2 DEF Onward
<1> QED BY <1>2, <1>3 DEF Shape

\* So does a click.
LEMMA ClickShape ==
  ASSUME Shape, NEW h \in DOMAIN Page.does, NEW e, NEW s, NEW v, NEW j, Clicked(h, e, s, v, j)
  PROVE  Shape'
<1> DEFINE b == Page.does[h]
<1>1. v \in Ui /\ v.rows <= version /\ BodyOK(b) /\ s \in Slots
  BY DEF Clicked, RunFacts, Opening, Shape, Ui, Handled
<1>2. ui' \in Ui /\ ui'.rows <= version' /\ failed' \in BOOLEAN /\ written' \subseteq ui'.open
  <2>1. v.busy \ {b.flag} \in SUBSET Flags
    BY <1>1 DEF Ui
  <2> QED BY <1>1, <2>1 DEF Clicked, Ui
<1>3. Page' = Page /\ page' = page /\ version' = version
  BY DEF Page, Clicked
<1>4. CASE UNCHANGED wslots
  <2>1. ASSUME NEW t \in Slots PROVE Slot(t)'
    BY <1>3, <1>4, Untouched DEF wslots, Shape
  <2> QED BY <1>2, <1>3, <1>4, <2>1 DEF Shape, Clicked, wslots
<1>5. CASE /\ j <= Len(b.steps) /\ b.steps[j][1] = "ask"
           /\ handler' = [handler EXCEPT ![s] = h] /\ at' = [at EXCEPT ![s] = j]
           /\ subject' = [subject EXCEPT ![s] = e] /\ closure' = [closure EXCEPT ![s] = view]
           /\ UNCHANGED <<answer, got>>
  <2>1. h \notin Loads \union {"none"} /\ j \in 1 .. Len(b.steps) /\ e \in Covers
    BY <1>1, <1>5 DEF Clicked, Handled, BodyOK
  <2>2. ASSUME NEW t \in Slots PROVE Slot(t)'
    <3>1. CASE t # s
      BY <1>3, <1>5, <3>1, Untouched DEF Shape
    <3>2. CASE t = s
      <4>1. handler'[s] = h /\ at'[s] = j /\ got'[s] = got[s]
        BY <1>1, <1>5 DEF Shape
      <4>2. Steps(s)' = b.steps
        BY <1>3, <2>1, <4>1 DEF Steps, Body
      <4>3. got[s] <= version'
        BY <1>1, <1>3, WebPagesAssumption DEF Shape, Slot, Clicked
      <4> QED BY <1>5, <2>1, <3>2, <4>1, <4>2, <4>3 DEF Slot
    <3> QED BY <3>1, <3>2
  <2>3. /\ handler' \in [Slots -> {"none"} \union Loads \union DOMAIN Page'.does]
        /\ at' \in [Slots -> Nat] /\ subject' \in [Slots -> Covers]
        /\ closure' \in [Slots -> {0, 1}] /\ answer' \in [Slots -> {"waiting", "ok"}]
        /\ got' \in [Slots -> Nat]
    BY <1>1, <1>3, <1>5, <2>1 DEF Shape
  <2> QED BY <1>2, <1>3, <2>2, <2>3 DEF Shape, Clicked
<1> QED BY <1>4, <1>5 DEF Clicked

-----------------------------------------------------------------------------
(* What the steps do *)

\* The page when the answer to s is taken in.
Landed(s) ==
    CASE Call(s) = "load" -> [ui EXCEPT !.rows = got[s], !.of = closure[s], !.error = @ \ {"page"}]
      [] Call(s) = "loadDetail" -> [ui EXCEPT !.shown = subject[s], !.error = @ \ {"panel"}]
      [] Call(s) = "loadReport" -> [ui EXCEPT !.error = @ \ {"page"}]
      [] OTHER -> ui

\* It is a page, with the rows, the detail, or neither, as the answer has them.
LEMMA LandedIs ==
  ASSUME Shape, NEW s \in Slots, Active(s), NEW u, u = Landed(s)
  PROVE  /\ u \in Ui /\ u.rows <= version /\ u.open = ui.open /\ u.busy = ui.busy
         /\ u.panel = ui.panel
         /\ Call(s) = "load" => /\ u.rows = got[s] /\ u.of = closure[s] /\ u.shown = ui.shown
                                /\ u.error = ui.error \ {"page"}
         /\ Call(s) = "loadDetail" => u.shown = subject[s] /\ u.error = ui.error \ {"panel"}
         /\ Call(s) \notin {"load", "loadDetail", "loadReport"} => u = ui
         /\ Call(s) # "loadDetail" => u.shown = ui.shown
<1>1. ui \in Ui /\ ui.rows <= version /\ got[s] \in Nat /\ got[s] <= version
      /\ closure[s] \in {0, 1} /\ subject[s] \in Covers
  BY DEF Shape, Slot, Active
<1>2. CASE Call(s) = "load"
  <2>1. u = [ui EXCEPT !.rows = got[s], !.of = closure[s], !.error = ui.error \ {"page"}]
    BY <1>2 DEF Landed
  <2>2. /\ u.rows = got[s] /\ u.of = closure[s] /\ u.error = ui.error \ {"page"}
        /\ u.open = ui.open /\ u.busy = ui.busy /\ u.panel = ui.panel /\ u.shown = ui.shown
    BY <1>1, <2>1 DEF Ui
  <2>3. u \in Ui
    <3>1. ui.error \ {"page"} \in SUBSET {"page", "panel"}
      BY <1>1 DEF Ui
    <3>2. got[s] \in Nat /\ closure[s] \in {0, 1}
      BY <1>1
    <3> QED BY <1>1, <2>1, <3>1, <3>2 DEF Ui
  <2> QED BY <1>1, <1>2, <2>2, <2>3
<1>3. CASE Call(s) = "loadDetail"
  <2>1. u = [ui EXCEPT !.shown = subject[s], !.error = ui.error \ {"panel"}]
    BY <1>3 DEF Landed
  <2> QED BY <1>1, <1>3, <2>1 DEF Ui
<1>4. CASE Call(s) = "loadReport"
  <2>1. u = [ui EXCEPT !.error = ui.error \ {"page"}]
    BY <1>4 DEF Landed
  <2> QED BY <1>1, <1>4, <2>1 DEF Ui
<1>5. CASE Call(s) \notin {"load", "loadDetail", "loadReport"}
  BY <1>1, <1>5 DEF Landed
<1> QED BY <1>2, <1>3, <1>4, <1>5

\* The page when a call with a try of its own fails.
Missed(s) == [ui EXCEPT !.error = @ \union {IF Call(s) = "loadDetail" THEN "panel" ELSE "page"}]

\* It is a page that says that something failed.
LEMMA MissedIs ==
  ASSUME Shape, NEW s \in Slots, NEW u, u = Missed(s)
  PROVE  /\ u \in Ui /\ u.rows <= version /\ u.open = ui.open /\ u.busy = ui.busy
         /\ u.panel = ui.panel /\ u.shown = ui.shown /\ u.rows = ui.rows /\ u.of = ui.of
         /\ u.error = ui.error \union {IF Call(s) = "loadDetail" THEN "panel" ELSE "page"}
BY DEF Shape, Ui, Missed

\* The page when another call fails: the handler ends.
Dropped(s) ==
    [ui EXCEPT !.error = @ \union ({Body(s).catch} \ {"nobody"}), !.busy = @ \ {Body(s).flag}]

\* It is a page with the flag off, that says so if the handler catches.
LEMMA DroppedIs ==
  ASSUME Shape, NEW s \in Slots, Active(s), NEW u, u = Dropped(s)
  PROVE  /\ u \in Ui /\ u.open = ui.open /\ u.busy = ui.busy \ {Body(s).flag}
         /\ u.panel = ui.panel /\ u.shown = ui.shown /\ u.rows = ui.rows /\ u.of = ui.of
         /\ u.error = ui.error \union ({Body(s).catch} \ {"nobody"})
<1>1. Body(s).catch \in {"page", "panel", "nobody"}
  BY BodyIs DEF BodyOK
<1> QED BY <1>1 DEF Shape, Ui, Dropped

\* The steps in terms of the above.
Succeeded(s, v, j) ==
    /\ answer[s] = "ok" \/ Call(s) \notin {"write", "load"}
    /\ Onward(s, Landed(s), v, j)
    /\ written' = (IF Call(s) \in Writes THEN written \union {Place(handler[s])} ELSE written)
                  \intersect ui'.open
    /\ UNCHANGED <<page, patient, view, version, failed>>
FailedLoad(s, v, j) ==
    /\ Call(s) \in Loads /\ Onward(s, Missed(s), v, j) /\ failed' = TRUE
    /\ written' = written \intersect ui'.open /\ UNCHANGED <<page, patient, view, version>>
FailedCall(s) ==
    /\ Call(s) \notin Loads /\ Becomes(s, "none") /\ ui' = Dropped(s) /\ failed' = TRUE
    /\ written' = written \intersect ui'.open /\ UNCHANGED <<page, patient, view, version>>

\* An answer is taken in.
LEMMA SucceedsIs ==
  ASSUME Shape, NEW s \in Slots, Succeeds(s)
  PROVE  Active(s) /\ \E v, j : Succeeded(s, v, j)
<1>1. Active(s) /\ GoOn(s, Landed(s), at[s])
  BY DEF Succeeds, Landed, Active
<1>2. Landed(s) \in Ui
  BY <1>1, LandedIs
<1>3. PICK v, j : Onward(s, Landed(s), v, j)
  BY <1>1, <1>2, GoOnIs
<1> QED BY <1>1, <1>3 DEF Succeeds, Succeeded

\* A failure ends the handler, or ends the call only if that has a try of its own.
LEMMA FailsIs ==
  ASSUME Shape, NEW s \in Slots, Fails(s)
  PROVE  Active(s) /\ (FailedCall(s) \/ \E v, j : FailedLoad(s, v, j))
<1>1. CASE Call(s) \in Loads
  <2>1. Active(s) /\ GoOn(s, Missed(s), at[s])
    BY <1>1 DEF Fails, Missed, Active
  <2>2. Missed(s) \in Ui
    BY MissedIs
  <2>3. PICK v, j : Onward(s, Missed(s), v, j)
    BY <2>1, <2>2, GoOnIs
  <2> QED BY <1>1, <2>1, <2>3 DEF Fails, FailedLoad
<1>2. CASE Call(s) \notin Loads
  BY <1>2 DEF Fails, FailedCall, Dropped, Active
<1> QED BY <1>1, <1>2

\* The API answers s.
Served(s) ==
    /\ Active(s) /\ answer[s] = "waiting"
    /\ \/ Call(s) = "write" /\ version' = version + 1 /\ got' = got
       \/ Call(s) = "load" /\ got' = [got EXCEPT ![s] = version] /\ version' = version
    /\ version' \in 1 .. MaxWrites + 1 /\ answer' = [answer EXCEPT ![s] = "ok"]
    /\ UNCHANGED <<page, patient, view, ui, handler, at, subject, closure, whistory>>

\* The API serves.
LEMMA ServeIs == ASSUME Shape, NEW s \in Slots, Serve(s) PROVE Served(s)
<1>1. version \in 1 .. MaxWrites + 1 /\ MaxWrites \in Nat
  BY WebPagesAssumption DEF Shape
<1> QED BY <1>1 DEF Serve, Served, Active

\* One of the slots is what a step is about.
Turned(s) ==
    /\ Page.onView # "none" /\ Quiet /\ ui.open = {} /\ ui.panel = "closed"
    /\ s \in Slots /\ handler[s] = "none" /\ view' = 1 - view
    /\ handler' = [handler EXCEPT ![s] = Page.onView] /\ closure' = [closure EXCEPT ![s] = 1 - view]
    /\ failed' = FALSE
    /\ UNCHANGED <<page, patient, version, ui, at, subject, answer, got, written>>

\* A new search or page number is a new load in a free slot.
LEMMA ChangeViewIs == ASSUME Shape, ChangeView PROVE \E s \in Slots : Turned(s)
<1>1. Vacant # {}
  BY DEF ChangeView
<1>2. NextSlot \in Slots /\ handler[NextSlot] = "none"
  BY <1>1, NextSlotIs
<1> QED BY <1>2 DEF ChangeView, Turned, Behind

\* Every step is one of these.
LEMMA StepsAre ==
  ASSUME Shape, [WebNext]_wvars
  PROVE  \/ \E h \in DOMAIN Page.does, e \in Covers : \E s, v, j : Clicked(h, e, s, v, j)
         \/ \E s \in Slots : Turned(s)
         \/ \E d \in ui.open : CloseDialog(d)
         \/ ClosePanel
         \/ \E s \in Slots : Served(s)
         \/ \E s \in Slots : Active(s) /\ \E v, j : Succeeded(s, v, j)
         \/ \E s \in Slots : Active(s) /\ \E v, j : FailedLoad(s, v, j)
         \/ \E s \in Slots : Active(s) /\ FailedCall(s)
         \/ UNCHANGED wvars
<1>1. ASSUME NEW h \in DOMAIN Page.does, NEW e \in Subjects(h), Click(h, e)
      PROVE  \E x \in Covers : \E s, v, j : Clicked(h, x, s, v, j)
  <2>1. PICK v, j : Clicked(h, e, NextSlot, v, j)
    BY <1>1, ClickIs
  <2>2. e \in Covers
    BY <2>1 DEF Clicked
  <2> QED BY <2>1, <2>2
<1>2. ASSUME NEW s \in Slots, Succeeds(s) PROVE Active(s) /\ \E v, j : Succeeded(s, v, j)
  BY <1>2, SucceedsIs
<1>3. ASSUME NEW s \in Slots, Fails(s)
      PROVE Active(s) /\ (FailedCall(s) \/ \E v, j : FailedLoad(s, v, j))
  BY <1>3, FailsIs
<1>4. ASSUME NEW s \in Slots, Serve(s) PROVE Served(s)
  BY <1>4, ServeIs
<1>5. ChangeView => \E s \in Slots : Turned(s)
  BY ChangeViewIs
<1> QED BY <1>1, <1>2, <1>3, <1>4, <1>5 DEF WebNext

\* What a step leaves of a slot.
Same(t) ==
    /\ handler'[t] = handler[t] /\ at'[t] = at[t] /\ subject'[t] = subject[t]
    /\ closure'[t] = closure[t] /\ answer'[t] = answer[t] /\ got'[t] = got[t]
OthersSame(s) == \A t \in Slots \ {s} : Same(t)

\* What a step leaves alone reads the same.
LEMMA SameIs ==
  ASSUME Shape, NEW t \in Slots, page' = page, Same(t)
  PROVE  /\ Body(t)' = Body(t) /\ Steps(t)' = Steps(t) /\ (Active(t)' <=> Active(t))
         /\ Call(t)' = Call(t) /\ FlagOf(t)' = FlagOf(t)
         /\ \A call : Awaits(t, call)' <=> Awaits(t, call)
<1>1. Body(t)' = Body(t) /\ Steps(t)' = Steps(t) /\ (Active(t)' <=> Active(t))
  BY Untouched DEF Same, Active
<1>2. Call(t)' = Call(t) /\ FlagOf(t)' = FlagOf(t)
  BY <1>1 DEF Same, Call, FlagOf
<1>3. \A call : Awaits(t, call)' <=> Awaits(t, call)
  BY <1>1 DEF Same, Awaits
<1> QED BY <1>1, <1>2, <1>3

\* Where a slot is after its handler went on.
Rests(s) == handler'[s] = "none"
Relaunches(s) ==
    /\ handler'[s] = "load" /\ at'[s] = 1 /\ closure'[s] = closure[s] /\ answer'[s] = "waiting"
Goes(s, j) ==
    /\ handler'[s] = handler[s] /\ at'[s] = j /\ subject'[s] = subject[s]
    /\ closure'[s] = closure[s] /\ answer'[s] = "waiting"

\* A handler that goes on is the only slot touched, and leaves the rest of the page alone.
LEMMA OnwardSlots ==
  ASSUME Shape, NEW s \in Slots, Active(s), NEW u \in Ui, NEW v, NEW j, Onward(s, u, v, j)
  PROVE  /\ OthersSame(s)
         /\ ui' \in Ui /\ v \in Ui
         /\ ui'.open = v.open /\ ui'.panel = v.panel /\ ui'.shown = v.shown
         /\ ui'.rows = u.rows /\ ui'.of = u.of /\ ui'.error = u.error
         /\ \/ /\ j = Len(Steps(s)) + 1 /\ ui'.busy = u.busy \ {Body(s).flag}
               /\ \/ Rests(s) /\ Steps(s)[Len(Steps(s))] # Launch
                  \/ Relaunches(s) /\ Steps(s)[Len(Steps(s))] = Launch
            \/ /\ j \in 1 .. Len(Steps(s)) /\ Steps(s)[j][1] = "ask" /\ Goes(s, j)
               /\ ui'.busy = u.busy
<1>1. v \in Ui /\ v.rows = u.rows /\ v.of = u.of /\ v.error = u.error /\ v.busy = u.busy
  BY DEF Onward, RunFacts
<1>2. CASE /\ j = Len(Steps(s)) + 1 /\ ui' = [v EXCEPT !.busy = @ \ {Body(s).flag}]
           /\ \/ Steps(s)[Len(Steps(s))] # Launch /\ Becomes(s, "none")
              \/ Steps(s)[Len(Steps(s))] = Launch /\ Becomes(s, "load")
  <2>1. v.busy \ {Body(s).flag} \in SUBSET Flags
    BY <1>1 DEF Ui
  <2>2. ui' \in Ui
    BY <1>1, <1>2, <2>1 DEF Ui
  <2>3. /\ ui'.open = v.open /\ ui'.panel = v.panel /\ ui'.shown = v.shown
        /\ ui'.rows = v.rows /\ ui'.of = v.of /\ ui'.error = v.error
        /\ ui'.busy = v.busy \ {Body(s).flag}
    BY <1>1, <1>2 DEF Ui
  <2>4. OthersSame(s)
    BY <1>2 DEF Becomes, OthersSame, Same, Shape
  <2>5. \/ Rests(s) /\ Steps(s)[Len(Steps(s))] # Launch
        \/ Relaunches(s) /\ Steps(s)[Len(Steps(s))] = Launch
    BY <1>2 DEF Becomes, Rests, Relaunches, Shape
  <2> QED BY <1>1, <1>2, <2>2, <2>3, <2>4, <2>5
<1>3. CASE j <= Len(Steps(s)) /\ Steps(s)[j][1] = "ask" /\ ui' = v /\ Moves(s, j)
  <2>1. j \in 1 .. Len(Steps(s))
    BY <1>3, BodyIs DEF Shape, Onward, BodyOK, Steps
  <2>2. OthersSame(s) /\ Goes(s, j)
    BY <1>3 DEF Moves, OthersSame, Same, Goes, Shape
  <2> QED BY <1>1, <1>3, <2>1, <2>2
<1> QED BY <1>2, <1>3 DEF Onward

\* So is the slot a click takes.
LEMMA ClickSlots ==
  ASSUME Shape, NEW h \in DOMAIN Page.does, NEW e, NEW s, NEW v, NEW j, Clicked(h, e, s, v, j)
  PROVE  /\ OthersSame(s) /\ BodyOK(Page.does[h]) /\ h \notin Loads \union {"none"}
         /\ ui'.open = v.open /\ ui'.panel = v.panel /\ ui'.shown = v.shown
         /\ ui'.rows = ui.rows /\ ui'.of = ui.of /\ ui'.error = ui.error
         /\ Opening(h).panel = ui.panel /\ Opening(h).shown = ui.shown
         /\ \/ /\ j = Len(Page.does[h].steps) + 1 /\ Same(s)
               /\ ui'.busy = (ui.busy \union ({Page.does[h].flag} \ {"none"}))
                             \ {Page.does[h].flag}
            \/ /\ j \in 1 .. Len(Page.does[h].steps) /\ Page.does[h].steps[j][1] = "ask"
               /\ handler'[s] = h /\ at'[s] = j /\ subject'[s] = e /\ closure'[s] = view
               /\ answer'[s] = "waiting" /\ Steps(s)' = Page.does[h].steps
               /\ Body(s)' = Page.does[h]
               /\ ui'.busy = ui.busy \union ({Page.does[h].flag} \ {"none"})
<1> DEFINE b == Page.does[h]
           u == Opening(h)
<1>1. /\ u.rows = ui.rows /\ u.of = ui.of /\ u.error = ui.error /\ u.panel = ui.panel
      /\ u.shown = ui.shown /\ u.busy = ui.busy \union ({b.flag} \ {"none"})
  BY DEF Opening, Shape, Ui
<1>2. v \in Ui /\ v.rows = u.rows /\ v.of = u.of /\ v.error = u.error /\ v.busy = u.busy
  BY DEF Clicked, RunFacts
<1>3. BodyOK(b) /\ h \notin Loads \union {"none"} /\ s \in Slots /\ handler[s] = "none"
  BY DEF Clicked, Handled
<1>4. CASE j = Len(b.steps) + 1 /\ ui' = [v EXCEPT !.busy = @ \ {b.flag}] /\ UNCHANGED wslots
  <2>1. /\ ui'.open = v.open /\ ui'.panel = v.panel /\ ui'.shown = v.shown
        /\ ui'.rows = v.rows /\ ui'.of = v.of /\ ui'.error = v.error
        /\ ui'.busy = v.busy \ {b.flag}
    <3> HIDE DEF b
    <3> QED BY <1>2, <1>4 DEF Ui
  <2>2. OthersSame(s) /\ Same(s)
    BY <1>4 DEF wslots, OthersSame, Same
  <2> QED BY <1>1, <1>2, <1>3, <1>4, <2>1, <2>2
<1>5. CASE /\ j <= Len(b.steps) /\ b.steps[j][1] = "ask" /\ ui' = v
           /\ handler' = [handler EXCEPT ![s] = h] /\ at' = [at EXCEPT ![s] = j]
           /\ subject' = [subject EXCEPT ![s] = e] /\ closure' = [closure EXCEPT ![s] = view]
           /\ UNCHANGED <<answer, got>>
  <2>1. OthersSame(s)
    BY <1>3, <1>5 DEF OthersSame, Same, Shape
  <2>2. /\ handler'[s] = h /\ at'[s] = j /\ subject'[s] = e /\ closure'[s] = view
        /\ answer'[s] = "waiting"
    BY <1>3, <1>5 DEF Shape, Slot
  <2>3. Body(s)' = b /\ Steps(s)' = b.steps
    BY <1>3, <2>2 DEF Body, Steps, Page, Clicked
  <2>4. j \in 1 .. Len(b.steps)
    BY <1>3, <1>5 DEF Clicked, BodyOK
  <2> QED BY <1>1, <1>2, <1>3, <1>5, <2>1, <2>2, <2>3, <2>4
<1> QED BY <1>4, <1>5 DEF Clicked

\* So is the slot of a call that failed.
LEMMA DroppedSlots ==
  ASSUME Shape, NEW s \in Slots, Active(s), FailedCall(s)
  PROVE  /\ OthersSame(s) /\ Rests(s) /\ ui' \in Ui /\ ui'.busy = ui.busy \ {Body(s).flag}
         /\ ui'.open = ui.open /\ ui'.panel = ui.panel /\ ui'.shown = ui.shown
         /\ ui'.rows = ui.rows /\ ui'.of = ui.of
         /\ ui'.error = ui.error \union ({Body(s).catch} \ {"nobody"})
<1>1. OthersSame(s) /\ Rests(s)
  BY DEF FailedCall, Becomes, OthersSame, Same, Rests, Shape
<1> QED BY <1>1, DroppedIs DEF FailedCall

\* When the user is patient, a click and a new view find no handler under way.
LEMMA QuietIs == ASSUME Quiet, patient PROVE \A t \in Slots : ~Active(t)
BY DEF Quiet, Vacant, Active

-----------------------------------------------------------------------------
(* The steps preserve the invariant *)

\* Every step keeps the shape.
LEMMA ShapeStep ==
  ASSUME Shape, [WebNext]_wvars
  PROVE  Shape'
<1>1. ASSUME NEW h \in DOMAIN Page.does, NEW e, NEW s, NEW v, NEW j, Clicked(h, e, s, v, j)
      PROVE  Shape'
  BY <1>1, ClickShape
<1>2. ASSUME NEW s \in Slots, Turned(s) PROVE Shape'
  <2>1. /\ Page' = Page /\ page' = page /\ version' = version
        /\ Page.onView \in Loads /\ s \in Slots
    BY <1>2, Openings DEF Page, Turned, Shape
  <2>2. ASSUME NEW t \in Slots PROVE Slot(t)'
    <3>1. CASE t # s
      BY <1>2, <2>1, <3>1, Untouched DEF Turned, Shape
    <3>2. CASE t = s
      <4>1. handler'[s] \in Loads /\ at'[s] = 1 /\ got'[s] = 0 /\ handler'[s] # "none"
        BY <1>2, <2>1 DEF Turned, Shape, Slot, Loads
      <4>2. Steps(s)' = <<Ask(handler'[s])>>
        BY <4>1 DEF Steps, Body, Does
      <4>3. 0 <= version'
        BY <2>1, WebPagesAssumption DEF Shape
      <4> QED BY <3>2, <4>1, <4>2, <4>3 DEF Slot, Ask
    <3> QED BY <3>1, <3>2
  <2>3. /\ handler' \in [Slots -> {"none"} \union Loads \union DOMAIN Page'.does]
        /\ view' \in {0, 1} /\ closure' \in [Slots -> {0, 1}]
    BY <1>2, <2>1 DEF Turned, Shape
  <2> QED BY <1>2, <2>1, <2>2, <2>3 DEF Turned, Shape
<1>3. ASSUME NEW d \in ui.open, CloseDialog(d) PROVE Shape'
  <2>1. ui' = [ui EXCEPT !.open = ui.open \ {d}] /\ written' = written \ {d}
    BY <1>3 DEF CloseDialog
  <2>2. ui' \in Ui /\ ui'.rows = ui.rows /\ written' \subseteq ui'.open
    BY <2>1 DEF Shape, Ui
  <2>3. \A t \in Slots : Slot(t)'
    BY <1>3, Untouched DEF CloseDialog, wslots, Shape
  <2> QED BY <1>3, <2>2, <2>3 DEF CloseDialog, wslots, Shape, Page
<1>4. ASSUME ClosePanel PROVE Shape'
  <2>1. ui' = [ui EXCEPT !.panel = "closed",
                         !.shown = IF Page.clears THEN "nothing" ELSE ui.shown]
    BY <1>4 DEF ClosePanel
  <2>2. ui' \in Ui /\ ui'.rows = ui.rows /\ ui'.open = ui.open
    BY <2>1 DEF Shape, Ui
  <2>3. \A t \in Slots : Slot(t)'
    BY <1>4, Untouched DEF ClosePanel, wslots, Shape
  <2> QED BY <1>4, <2>2, <2>3 DEF ClosePanel, wslots, whistory, Shape, Page
<1>5. ASSUME NEW s \in Slots, Served(s) PROVE Shape'
  <2>1. version \in Nat /\ version' \in Nat /\ version <= version' /\ Page' = Page
    BY <1>5, WebPagesAssumption DEF Served, Shape, Page
  <2>2. got' \in [Slots -> Nat] /\ \A t \in Slots : got[t] <= version => got'[t] <= version'
    BY <1>5, <2>1 DEF Served, Shape
  <2>3. ASSUME NEW t \in Slots PROVE Slot(t)'
    <3>1. Body(t)' = Body(t) /\ Steps(t)' = Steps(t) /\ handler'[t] = handler[t]
      BY <1>5, Untouched DEF Served
    <3>2. CASE handler[t] = "none"
      <4>1. t # s
        BY <1>5, <3>2 DEF Served, Active
      <4>2. got'[t] = got[t] /\ answer'[t] = answer[t] /\ at'[t] = at[t]
        BY <1>5, <4>1 DEF Served, Shape
      <4> QED BY <3>1, <3>2, <4>2 DEF Shape, Slot
    <3>3. CASE handler[t] # "none"
      BY <1>5, <2>2, <3>1, <3>3 DEF Shape, Slot, Served
    <3> QED BY <3>2, <3>3
  <2>4. ui'.rows <= version'
    BY <1>5, <2>1 DEF Served, Shape, Ui
  <2> QED BY <1>5, <2>1, <2>2, <2>3, <2>4 DEF Served, Shape, whistory
<1>6. ASSUME NEW s \in Slots, Active(s), NEW v, NEW j, Succeeded(s, v, j) PROVE Shape'
  <2>1. Landed(s) \in Ui /\ Landed(s).rows <= version
    BY <1>6, LandedIs
  <2> QED BY <1>6, <2>1, OnwardShape DEF Succeeded, Shape
<1>7. ASSUME NEW s \in Slots, Active(s), NEW v, NEW j, FailedLoad(s, v, j) PROVE Shape'
  <2>1. Missed(s) \in Ui /\ Missed(s).rows <= version
    BY <1>7, MissedIs
  <2> QED BY <1>7, <2>1, OnwardShape DEF FailedLoad
<1>8. ASSUME NEW s \in Slots, Active(s), FailedCall(s) PROVE Shape'
  <2>1. ui' \in Ui /\ ui'.rows = ui.rows
    BY <1>8, DroppedSlots
  <2>2. /\ \A t \in Slots : Slot(t)'
        /\ handler' \in [Slots -> {"none"} \union Loads \union DOMAIN Page'.does]
        /\ at' \in [Slots -> Nat] /\ subject' \in [Slots -> Covers]
        /\ closure' \in [Slots -> {0, 1}] /\ answer' \in [Slots -> {"waiting", "ok"}]
        /\ got' \in [Slots -> Nat]
    BY <1>8, RestsOrLoads DEF FailedCall
  <2> QED BY <1>8, <2>1, <2>2 DEF FailedCall, Shape
<1>9. CASE UNCHANGED wvars
  <2>1. \A t \in Slots : Slot(t)'
    BY <1>9, Untouched DEF wvars, wslots, Shape
  <2> QED BY <1>9, <2>1 DEF wvars, wslots, whistory, Shape, Page
<1> QED BY <1>1, <1>2, <1>3, <1>4, <1>5, <1>6, <1>7, <1>8, <1>9, StepsAre

\* The flag of a handler is a flag of its page, or it has none.
LEMMA FlagsAre ==
  ASSUME Shape, NEW s \in Slots
  PROVE  FlagOf(s) \in Flags \union {"none"}
BY BodyIs DEF FlagOf, BodyOK

\* A flag changes hands in one slot at a time: a step keeps Taken that leaves the slot its flag,
\* takes it with the flag going off, or gives it one that was off.
LEMMA TakenKept ==
  ASSUME Shape, Taken, NEW s \in Slots, \A t \in Slots \ {s} : FlagOf(t)' = FlagOf(t),
         \/ FlagOf(s)' = FlagOf(s) /\ ui'.busy = ui.busy
         \/ FlagOf(s)' = "none" /\ ui'.busy = ui.busy \ {FlagOf(s)}
         \/ /\ FlagOf(s) = "none" /\ FlagOf(s)' \notin ui.busy
            /\ FlagOf(s)' \in Flags \union {"none"}
            /\ ui'.busy = ui.busy \union ({FlagOf(s)'} \ {"none"})
  PROVE  Taken'
<1>0. "none" \notin Flags
  BY DEF Flags
<1>1. CASE FlagOf(s)' = FlagOf(s) /\ ui'.busy = ui.busy
  BY <1>1 DEF Taken
<1>2. CASE FlagOf(s)' = "none" /\ ui'.busy = ui.busy \ {FlagOf(s)}
  BY <1>0, <1>2 DEF Taken
<1>3. CASE /\ FlagOf(s) = "none" /\ FlagOf(s)' \notin ui.busy
           /\ FlagOf(s)' \in Flags \union {"none"}
           /\ ui'.busy = ui.busy \union ({FlagOf(s)'} \ {"none"})
  <2>1. \A t \in Slots \ {s} : FlagOf(t)' # FlagOf(s)' \/ FlagOf(s)' = "none"
    BY <1>3 DEF Taken
  <2>2. \A f \in Flags : f \in ui'.busy <=> f \in ui.busy \/ f = FlagOf(s)'
    BY <1>0, <1>3
  <2> QED BY <1>0, <1>3, <2>1, <2>2 DEF Taken
<1> QED BY <1>1, <1>2, <1>3

\* Every step keeps Taken: a button is disabled while its flag is on, and the finally block
\* turns off what the handler turned on.
LEMMA TakenStep ==
  ASSUME Shape, Taken, [WebNext]_wvars
  PROVE  Taken'
<1>1. ASSUME NEW s \in Slots, OthersSame(s), page' = page
      PROVE  \A t \in Slots \ {s} : FlagOf(t)' = FlagOf(t)
  BY <1>1, SameIs DEF OthersSame
<1>2. ASSUME page' = page, UNCHANGED wslots, ui'.busy = ui.busy PROVE Taken'
  <2>1. \A t \in Slots : FlagOf(t)' = FlagOf(t)
    BY <1>2, SameIs DEF wslots, Same
  <2> QED BY <1>2, <2>1 DEF Taken
<1>3. ASSUME NEW h \in DOMAIN Page.does, NEW e, NEW s, NEW v, NEW j, Clicked(h, e, s, v, j)
      PROVE  Taken'
  <2> DEFINE b == Page.does[h]
  <2>1. /\ s \in Slots /\ OthersSame(s) /\ page' = page /\ FlagOf(s) = "none"
        /\ b.flag \in {"none", Page.buttons[h][2]} /\ Page.buttons[h][2] \notin ui.busy
        /\ b.flag \in Flags \union {"none"} /\ ui.busy \subseteq Flags
    <3>1. s \in Slots /\ page' = page /\ handler[s] = "none" /\ Clickable(h)
          /\ Handled(page, h, b, Page.buttons[h])
      BY <1>3 DEF Clicked
    <3>2. OthersSame(s)
      BY <1>3, ClickSlots
    <3>3. FlagOf(s) = "none" /\ Page.buttons[h][2] \notin ui.busy
      BY <3>1 DEF FlagOf, Active, Clickable, Locked
    <3>4. b.flag \in {"none", Page.buttons[h][2]} /\ b.flag \in Flags \union {"none"}
      BY <3>1 DEF Handled, BodyOK
    <3>5. ui.busy \subseteq Flags
      BY DEF Shape, Ui
    <3> QED BY <3>1, <3>2, <3>3, <3>4, <3>5
  <2>2. b.flag \notin ui.busy
    BY <2>1 DEF Flags
  <2>3. CASE Same(s) /\ ui'.busy = (ui.busy \union ({b.flag} \ {"none"})) \ {b.flag}
    <3>1. FlagOf(s)' = FlagOf(s) /\ ui'.busy = ui.busy
      BY <2>1, <2>2, <2>3, SameIs
    <3> QED BY <1>1, <2>1, <3>1, TakenKept
  <2>4. CASE /\ handler'[s] = h /\ Body(s)' = b /\ ui'.busy = ui.busy \union ({b.flag} \ {"none"})
    <3>1. FlagOf(s)' = b.flag
      BY <1>3, <2>4, ClickSlots DEF FlagOf, Active
    <3> QED BY <1>1, <2>1, <2>2, <2>4, <3>1, TakenKept
  <2> QED BY <1>3, <2>3, <2>4, ClickSlots
<1>4. ASSUME NEW s \in Slots, Turned(s) PROVE Taken'
  <2>1. OthersSame(s) /\ page' = page /\ FlagOf(s) = "none" /\ ui' = ui
    BY <1>4 DEF Turned, OthersSame, Same, Shape, FlagOf, Active
  <2>2. handler'[s] \in Loads
    BY <1>4, Openings DEF Turned, Shape
  <2>3. FlagOf(s)' = "none"
    BY <2>2 DEF FlagOf, Body, Does
  <2> QED BY <1>1, <2>1, <2>3, TakenKept
<1>5. ASSUME NEW d \in ui.open, CloseDialog(d) PROVE Taken'
  <2>1. page' = page /\ UNCHANGED wslots /\ ui'.busy = ui.busy
    BY <1>5 DEF CloseDialog, Shape, Ui
  <2> QED BY <1>2, <2>1
<1>6. ASSUME ClosePanel PROVE Taken'
  <2>1. page' = page /\ UNCHANGED wslots /\ ui'.busy = ui.busy
    BY <1>6 DEF ClosePanel, Shape, Ui
  <2> QED BY <1>2, <2>1
<1>7. ASSUME NEW s \in Slots, Served(s) PROVE Taken'
  <2>1. \A t \in Slots : FlagOf(t)' = FlagOf(t)
    BY <1>7, Untouched DEF Served, FlagOf, Active
  <2> QED BY <1>7, <2>1 DEF Served, Taken
<1>8. ASSUME NEW s \in Slots, Active(s), NEW u \in Ui, NEW v, NEW j, Onward(s, u, v, j),
             u.busy = ui.busy, page' = page
      PROVE  Taken'
  <2>1. FlagOf(s) = Body(s).flag /\ OthersSame(s)
    BY <1>8, OnwardSlots DEF FlagOf
  <2>2. CASE (Rests(s) \/ Relaunches(s)) /\ ui'.busy = ui.busy \ {Body(s).flag}
    <3>1. FlagOf(s)' = "none"
      BY <2>2 DEF Rests, Relaunches, FlagOf, Active, Body, Does, Loads
    <3> QED BY <1>1, <1>8, <2>1, <2>2, <3>1, TakenKept
  <2>3. CASE Goes(s, j) /\ ui'.busy = ui.busy
    <3>1. FlagOf(s)' = FlagOf(s)
      BY <1>8, <2>3, Untouched DEF Goes, FlagOf
    <3> QED BY <1>1, <1>8, <2>1, <2>3, <3>1, TakenKept
  <2> QED BY <1>8, <2>2, <2>3, OnwardSlots
<1>9. ASSUME NEW s \in Slots, Active(s), NEW v, NEW j, Succeeded(s, v, j) PROVE Taken'
  <2>1. Landed(s) \in Ui /\ Landed(s).busy = ui.busy
    BY <1>9, LandedIs
  <2> QED BY <1>8, <1>9, <2>1 DEF Succeeded
<1>10. ASSUME NEW s \in Slots, Active(s), NEW v, NEW j, FailedLoad(s, v, j) PROVE Taken'
  <2>1. Missed(s) \in Ui /\ Missed(s).busy = ui.busy
    BY <1>10, MissedIs
  <2> QED BY <1>8, <1>10, <2>1 DEF FailedLoad
<1>11. ASSUME NEW s \in Slots, Active(s), FailedCall(s) PROVE Taken'
  <2>1. FlagOf(s) = Body(s).flag /\ OthersSame(s) /\ Rests(s) /\ page' = page
        /\ ui'.busy = ui.busy \ {Body(s).flag}
    BY <1>11, DroppedSlots DEF FlagOf, FailedCall
  <2>2. FlagOf(s)' = "none"
    BY <2>1 DEF Rests, FlagOf, Active
  <2> QED BY <1>1, <2>1, <2>2, TakenKept
<1>12. CASE UNCHANGED wvars
  BY <1>2, <1>12 DEF wvars
<1> QED BY <1>3, <1>4, <1>5, <1>6, <1>7, <1>9, <1>10, <1>11, <1>12, StepsAre

\* Every step keeps OnlyLoad.
LEMMA OnlyLoadStep ==
  ASSUME Shape, OnlyLoad, [WebNext]_wvars
  PROVE  OnlyLoad'
<1>1. page' = page /\ \A t \in Slots : handler'[t] = handler[t] \/ handler'[t] = "load"
                                       \/ handler'[t] \notin Loads \/ handler'[t] = Page.onView
  <2>1. ASSUME NEW h \in DOMAIN Page.does, NEW e, NEW s, NEW v, NEW j, Clicked(h, e, s, v, j)
        PROVE  /\ page' = page
               /\ \A t \in Slots : handler'[t] = handler[t] \/ handler'[t] \notin Loads
    <3>1. OthersSame(s) /\ h \notin Loads /\ (Same(s) \/ handler'[s] = h)
      BY <2>1, ClickSlots
    <3> QED BY <2>1, <3>1 DEF OthersSame, Same, Clicked
  <2>2. ASSUME NEW s \in Slots, Turned(s)
        PROVE  /\ page' = page
               /\ \A t \in Slots : handler'[t] = handler[t] \/ handler'[t] = Page.onView
    BY <2>2 DEF Turned, Shape
  <2>3. ASSUME NEW s \in Slots, Active(s), NEW u \in Ui, NEW v, NEW j, Onward(s, u, v, j)
        PROVE  \A t \in Slots : handler'[t] = handler[t] \/ handler'[t] \in {"none", "load"}
    BY <2>3, OnwardSlots DEF OthersSame, Same, Rests, Relaunches, Goes
  <2>4. ASSUME NEW s \in Slots, Active(s), FailedCall(s)
        PROVE  \A t \in Slots : handler'[t] = handler[t] \/ handler'[t] \in {"none", "load"}
    BY <2>4, DroppedSlots DEF OthersSame, Same, Rests
  <2>5. "none" \notin Loads
    BY DEF Loads
  <2>6. ASSUME NEW s \in Slots, Active(s), NEW v, NEW j, Succeeded(s, v, j)
        PROVE  /\ page' = page
               /\ \A t \in Slots : handler'[t] = handler[t] \/ handler'[t] \in {"none", "load"}
    BY <2>3, <2>6, LandedIs DEF Succeeded
  <2>7. ASSUME NEW s \in Slots, Active(s), NEW v, NEW j, FailedLoad(s, v, j)
        PROVE  /\ page' = page
               /\ \A t \in Slots : handler'[t] = handler[t] \/ handler'[t] \in {"none", "load"}
    BY <2>3, <2>7, MissedIs DEF FailedLoad
  <2>8. ASSUME \/ \E d \in ui.open : CloseDialog(d)
               \/ ClosePanel
               \/ \E s \in Slots : Served(s)
               \/ UNCHANGED wvars
        PROVE  page' = page /\ handler' = handler
    BY <2>8 DEF CloseDialog, ClosePanel, Served, wvars, wslots
  <2> QED BY <2>1, <2>2, <2>4, <2>5, <2>6, <2>7, <2>8, StepsAre DEF FailedCall
<1>2. page \notin TwoCalls => Page.onView \in {"none", "load"}
  BY Openings DEF Shape, TwoCalls
<1> QED BY <1>1, <1>2 DEF OnlyLoad, Loads

\* Every step keeps OneHandler: a patient user clicks when nothing is under way.
LEMMA OneHandlerStep ==
  ASSUME Shape, OneHandler, [WebNext]_wvars
  PROVE  OneHandler'
<1>1. ASSUME page' = page, patient' = patient,
             \A t \in Slots : Active(t)' => Active(t)
      PROVE  OneHandler'
  BY <1>1 DEF OneHandler
<1>2. ASSUME NEW s \in Slots, OthersSame(s), page' = page, patient' = patient, Quiet
      PROVE  OneHandler'
  BY <1>2, QuietIs DEF OneHandler, OthersSame, Same, Active
<1>3. ASSUME NEW h \in DOMAIN Page.does, NEW e, NEW s, NEW v, NEW j, Clicked(h, e, s, v, j)
      PROVE  OneHandler'
  <2>1. s \in Slots /\ page' = page /\ patient' = patient /\ Quiet
    BY <1>3 DEF Clicked
  <2>2. OthersSame(s)
    BY <1>3, ClickSlots
  <2> QED BY <1>2, <2>1, <2>2
<1>4. ASSUME NEW s \in Slots, Turned(s) PROVE OneHandler'
  BY <1>2, <1>4 DEF Turned, OthersSame, Same, Shape
<1>5. ASSUME NEW s \in Slots, Active(s), NEW u \in Ui, NEW v, NEW j, Onward(s, u, v, j)
      PROVE  \A t \in Slots : Active(t)' => Active(t)
  BY <1>5, OnwardSlots DEF OthersSame, Same, Active
<1>6. ASSUME NEW s \in Slots, Active(s), NEW v, NEW j, Succeeded(s, v, j) PROVE OneHandler'
  BY <1>1, <1>5, <1>6, LandedIs DEF Succeeded
<1>7. ASSUME NEW s \in Slots, Active(s), NEW v, NEW j, FailedLoad(s, v, j) PROVE OneHandler'
  BY <1>1, <1>5, <1>7, MissedIs DEF FailedLoad
<1>8. ASSUME NEW s \in Slots, Active(s), FailedCall(s) PROVE OneHandler'
  BY <1>1, <1>8, DroppedSlots DEF OthersSame, Same, Active, FailedCall
<1>9. ASSUME \/ \E d \in ui.open : CloseDialog(d)
             \/ ClosePanel
             \/ \E s \in Slots : Served(s)
             \/ UNCHANGED wvars
      PROVE  OneHandler'
  <2>1. page' = page /\ patient' = patient /\ handler' = handler
    BY <1>9 DEF CloseDialog, ClosePanel, Served, wvars, wslots
  <2> QED BY <1>1, <2>1 DEF Active
<1> QED BY <1>3, <1>4, <1>6, <1>7, <1>8, <1>9, StepsAre

\* What a handler still awaits it awaited before, but for the call just answered.
LEMMA AwaitsLess ==
  ASSUME Shape, NEW s \in Slots, Active(s), NEW u \in Ui, NEW v, NEW j, Onward(s, u, v, j),
         page' = page, Goes(s, j), j \in 1 .. Len(Steps(s)), NEW call
  PROVE  /\ Awaits(s, call)' => Awaits(s, call)
         /\ Awaits(s, call) /\ Steps(s)[at[s]] # Ask(call) => Awaits(s, call)'
<1>1. Steps(s)' = Steps(s) /\ at'[s] = j
  BY Untouched DEF Goes
<1>2. at[s] \in Nat /\ Len(Steps(s)) \in Nat /\ j \in at[s] + 1 .. Len(Steps(s)) + 1
  BY BodyIs DEF Shape, Onward, BodyOK, Steps
<1>3. Awaits(s, call)' => Awaits(s, call)
  <2> SUFFICES ASSUME NEW k \in j .. Len(Steps(s)), Steps(s)[k] = Ask(call)
               PROVE  k \in at[s] .. Len(Steps(s))
    BY <1>1 DEF Awaits
  <2> QED BY <1>2
<1>4. ASSUME NEW k \in at[s] .. Len(Steps(s)), Steps(s)[k] = Ask(call), k # at[s]
      PROVE  k \in j .. Len(Steps(s))
  <2>1. k \notin at[s] + 1 .. j - 1
    BY <1>4 DEF Onward, Ask
  <2> QED BY <1>2, <1>4, <2>1
<1> QED BY <1>1, <1>3, <1>4 DEF Awaits

\* The call that is awaited.
LEMMA CallIs ==
  ASSUME Shape, NEW s \in Slots, Active(s)
  PROVE  /\ at[s] \in 1 .. Len(Steps(s)) /\ Steps(s)[at[s]] = Ask(Call(s))
         /\ Awaits(s, Call(s))
         /\ handler[s] \in Loads => at[s] = 1 /\ Len(Steps(s)) = 1 /\ Call(s) = handler[s]
                                    /\ Steps(s)[1] = Ask(handler[s])
<1>1. at[s] \in 1 .. Len(Steps(s)) /\ Steps(s)[at[s]][1] = "ask" /\ BodyOK(Body(s))
  BY BodyIs DEF Shape, Slot, Active
<1>2. Steps(s)[at[s]] = Ask(Call(s)) /\ Len(Steps(s)) \in Nat
  BY <1>1 DEF BodyOK, StepOK, Ask, Call, Steps
<1>3. Awaits(s, Call(s))
  BY <1>1, <1>2 DEF Awaits
<1>4. ASSUME handler[s] \in Loads
      PROVE  at[s] = 1 /\ Len(Steps(s)) = 1 /\ Call(s) = handler[s] /\ Steps(s)[1] = Ask(handler[s])
  <2>1. Steps(s) = <<Ask(handler[s])>>
    BY <1>4, BodyIs DEF Steps, Does
  <2>2. at[s] = 1 /\ Len(Steps(s)) = 1 /\ Steps(s)[1] = Ask(handler[s])
    BY <1>1, <2>1
  <2> QED BY <1>2, <2>2 DEF Ask
<1> QED BY <1>1, <1>2, <1>3, <1>4

\* A load that nobody awaits is a load.
LEMMA RelaunchedAwaits ==
  ASSUME NEW s \in Slots, Relaunches(s), NEW call, Awaits(s, call)'
  PROVE  call = "load"
<1>1. Steps(s)' = <<Ask("load")>> /\ at'[s] = 1
  BY DEF Relaunches, Steps, Body, Does, Loads
<1> QED BY <1>1 DEF Awaits, Ask

\* Every step keeps WrittenOK: after a write and before its next call a handler closes its dialog.
LEMMA WrittenStep ==
  ASSUME Shape, WrittenOK, [WebNext]_wvars
  PROVE  WrittenOK'
<1>1. ASSUME NEW s \in Slots, Active(s), NEW v, NEW j, Succeeded(s, v, j) PROVE WrittenOK'
  <2>1. CASE Call(s) \notin Writes
    BY <1>1, <2>1 DEF Succeeded, WrittenOK
  <2>2. CASE Call(s) \in Writes
    <3> DEFINE p == Place(handler[s])
               b == Body(s)
               i == at[s]
    <3>1. handler[s] \notin Loads
      BY <1>1, <2>2, CallIs DEF Writes, Loads
    <3>2. Handled(page, handler[s], b, Page.buttons[handler[s]]) /\ BodyOK(b)
      BY <1>1, <3>1, BodyIs
    <3>3. i \in 1 .. Len(b.steps) /\ b.steps[i] \in {Ask("write"), Ask("post")}
      BY <1>1, <2>2, CallIs DEF Writes, Steps
    <3>4. Landed(s) \in Ui
      BY <1>1, LandedIs
    <3>5. v \in Ui /\ ui'.open = v.open
      BY <1>1, <3>4, OnwardSlots DEF Succeeded
    <3>6. written' = (written \union {p}) \intersect ui'.open
      BY <1>1, <2>2 DEF Succeeded
    <3>7. CASE p \notin Dialogs
      <4>1. p \notin ui'.open
        BY <3>5, <3>7 DEF Ui
      <4> QED BY <3>6, <4>1 DEF WrittenOK
    <3>8. CASE p = "createList"
      BY <3>6, <3>8 DEF WrittenOK
    <3>9. CASE p \in Dialogs \ {"createList"}
      <4>1. Saves(b, p)
        BY <3>2, <3>9 DEF Handled, Place
      <4>2. i + 1 \in 1 .. Len(b.steps) /\ b.steps[i + 1] = Close(p)
        BY <3>2, <3>3, <4>1 DEF Saves, BodyOK
      <4>3. j \in i + 1 .. Len(b.steps) + 1 /\ (j <= Len(b.steps) => b.steps[j][1] = "ask")
            /\ RunFacts(Landed(s), v, b, i, j, subject[s])
        BY <1>1, <3>2, <3>3 DEF Succeeded, Onward, Steps, BodyOK
      <4>4. j # i + 1
        BY <4>2, <4>3 DEF Close
      <4>5. i + 1 \in i + 1 .. j - 1
        BY <3>2, <3>3, <4>3, <4>4 DEF BodyOK
      <4>6. \A m \in i + 1 .. j - 1 : b.steps[m] # Open(p)
        <5> TAKE m \in i + 1 .. j - 1
        <5>1. m \in 1 .. Len(b.steps)
          BY <3>2, <3>3, <4>3 DEF BodyOK
        <5> QED BY <4>1, <5>1 DEF Saves
      <4>7. p \notin v.open
        <5>1. p \in Dialogs
          BY <3>9
        <5> HIDE DEF p, b, i
        <5> QED BY <4>2, <4>3, <4>5, <4>6, <5>1 DEF RunFacts
      <4> QED BY <3>5, <3>6, <4>7 DEF WrittenOK
    <3> QED BY <3>7, <3>8, <3>9
  <2> QED BY <2>1, <2>2
<1>2. ASSUME NEW h \in DOMAIN Page.does, NEW e, NEW s, NEW v, NEW j, Clicked(h, e, s, v, j)
      PROVE  WrittenOK'
  BY <1>2 DEF Clicked, WrittenOK
<1>3. ASSUME \/ \E s \in Slots : Turned(s)
             \/ \E d \in ui.open : CloseDialog(d)
             \/ ClosePanel
             \/ \E s \in Slots : Served(s)
             \/ \E s \in Slots : Active(s) /\ \E v, j : FailedLoad(s, v, j)
             \/ \E s \in Slots : Active(s) /\ FailedCall(s)
             \/ UNCHANGED wvars
      PROVE  WrittenOK'
  BY <1>3 DEF Turned, CloseDialog, ClosePanel, Served, FailedLoad, FailedCall, wvars, whistory,
              WrittenOK
<1> QED BY <1>1, <1>2, <1>3, StepsAre

\* Every step keeps OwnPanel: the detail is asked for the row the panel is opened for, the panel
\* is open until it is closed, and closing it drops the detail.
LEMMA OwnPanelStep ==
  ASSUME Shape, OnlyLoad, OwnPanel, [WebNext]_wvars
  PROVE  OwnPanel'
<1> SUFFICES ASSUME patient', page' = "Organizations" PROVE OwnPanel'
  BY DEF OwnPanel
<1> DEFINE Own == /\ ui.shown \in {"nothing", ui.panel}
                  /\ \A s \in Slots : Active(s) /\ Awaits(s, "loadDetail") => subject[s] = ui.panel
<1>1. patient' = patient /\ page' = page => Own /\ (OwnPanel' <=> Own')
  BY DEF OwnPanel
<1>2. patient' = patient /\ page' = page
  BY DEF WebNext, Click, ChangeView, CloseDialog, ClosePanel, Serve, Succeeds, Fails, wvars
<1>3. SUFFICES Own'
  BY <1>1, <1>2
<1>4. Own
  BY <1>1, <1>2
<1>5. \A call : call = "loadDetail" => call # "load" /\ call \in Loads
  BY DEF Loads
<1>6. ASSUME \A t \in Slots : ~Active(t), NEW s \in Slots, OthersSame(s),
             ui'.shown \in {"nothing", ui'.panel},
             Active(s)' /\ Awaits(s, "loadDetail")' => subject'[s] = ui'.panel
      PROVE  Own'
  BY <1>6 DEF OthersSame, Same, Active
<1>7. ASSUME NEW h \in DOMAIN Page.does, NEW e \in Covers, NEW s, NEW v, NEW j,
             Clicked(h, e, s, v, j)
      PROVE  Own'
  <2> DEFINE b == Page.does[h]
             p == Place(h)
             u == Opening(h)
  <2>1. /\ s \in Slots /\ Quiet /\ Clickable(h) /\ e \in Subjects(h)
        /\ j \in 1 .. Len(b.steps) + 1 /\ RunFacts(u, v, b, 0, j, e) /\ BodyOK(b)
        /\ Details(b, p)
    BY <1>2, <1>7 DEF Clicked, Handled, Place
  <2>2. \A t \in Slots : ~Active(t)
    BY <1>2, <2>1, QuietIs
  <2>3. OthersSame(s) /\ ui'.panel = v.panel /\ ui'.shown = v.shown
        /\ u.panel = ui.panel /\ u.shown = ui.shown
    BY <1>7, ClickSlots
  <2>4. 0 + 1 = 1 /\ j - 1 \in Nat /\ 1 .. j - 1 \subseteq 1 .. Len(b.steps) /\ Len(b.steps) \in Nat
    BY <2>1 DEF BodyOK
  <2>5. v.shown = ui.shown
    <3>1. \A k \in 1 .. j - 1 : b.steps[k][1] # "show"
      BY <2>1, <2>4 DEF Details
    <3> HIDE DEF b, u
    <3> QED BY <2>1, <2>3, <2>4, <3>1 DEF RunFacts
  <2>6. Active(s)' => \/ Same(s)
                      \/ /\ j \in 1 .. Len(b.steps) /\ b.steps[j][1] = "ask" /\ at'[s] = j
                         /\ subject'[s] = e /\ Steps(s)' = b.steps
    BY <1>7, ClickSlots
  <2>7. CASE p = "row" /\ b.steps[1] = Panel("row")
    <3>1. ui.panel = "closed" /\ ui.shown \in {"nothing", "closed"}
      BY <1>4, <2>1, <2>7 DEF Clickable, Behind
    <3>2. ui.shown = "nothing"
      BY <3>1, WebPagesAssumption DEF Shape, Ui, Covers
    <3>3. ASSUME Active(s)', Awaits(s, "loadDetail")' PROVE subject'[s] = ui'.panel
      <4>1. /\ j \in 1 .. Len(b.steps) /\ b.steps[j][1] = "ask" /\ subject'[s] = e
        BY <2>1, <2>2, <2>6, <3>3 DEF Same, Active
      <4>2. j # 1
        BY <2>7, <4>1 DEF Panel
      <4>3. 1 \in 1 .. j - 1
        BY <2>4, <4>1, <4>2
      <4>4. \A m \in 1 .. j - 1 : m # 1 => b.steps[m][1] # "panel"
        BY <2>1, <2>4 DEF Details
      <4>5. v.panel = e
        <5> HIDE DEF b, u
        <5> QED BY <2>1, <2>4, <2>7, <4>3, <4>4 DEF RunFacts
      <4> QED BY <2>3, <4>1, <4>5
    <3> QED BY <1>6, <2>1, <2>2, <2>3, <2>5, <3>2, <3>3
  <2>8. CASE ~(p = "row" /\ b.steps[1] = Panel("row"))
    <3>1. \A k \in 1 .. j - 1 : b.steps[k][1] # "panel"
      BY <2>1, <2>4, <2>8 DEF Details
    <3>2. v.panel = ui.panel
      <4> HIDE DEF b, u
      <4> QED BY <2>1, <2>3, <2>4, <3>1 DEF RunFacts
    <3>3. ASSUME Active(s)', Awaits(s, "loadDetail")' PROVE subject'[s] = ui'.panel
      <4>1. j \in 1 .. Len(b.steps) /\ subject'[s] = e /\ at'[s] = j /\ Steps(s)' = b.steps
        BY <2>1, <2>2, <2>6, <3>3 DEF Same, Active
      <4>2. PICK k \in j .. Len(b.steps) : b.steps[k] = Ask("loadDetail")
        BY <3>3, <4>1 DEF Awaits
      <4>3. k \in 1 .. Len(b.steps)
        BY <2>4, <4>1
      <4>4. p = "detail"
        BY <2>1, <2>8, <4>2, <4>3 DEF Details
      <4>5. e = ui.panel
        BY <2>1, <4>4 DEF Subjects
      <4> QED BY <2>3, <3>2, <4>1, <4>5
    <3> QED BY <1>4, <1>6, <2>1, <2>2, <2>3, <2>5, <3>2, <3>3
  <2> QED BY <2>7, <2>8
<1>8. ASSUME NEW s \in Slots, Turned(s) PROVE Own'
  <2>1. /\ \A t \in Slots : ~Active(t)
        /\ OthersSame(s) /\ ui' = ui
    BY <1>2, <1>8, QuietIs DEF Turned, OthersSame, Same, Shape
  <2>2. handler'[s] = "load"
    BY <1>2, <1>8, Openings DEF Turned, Shape
  <2>3. ~Awaits(s, "loadDetail")'
    <3>1. Steps(s)' = <<Ask("load")>> /\ at'[s] = 1
      BY <1>8, <2>1, <2>2 DEF Steps, Body, Does, Loads, Turned, Shape, Slot, Active
    <3> QED BY <3>1 DEF Awaits, Ask
  <2> QED BY <1>4, <1>6, <2>1, <2>3
<1>9. ASSUME UNCHANGED wslots,
             ui'.panel = ui.panel /\ ui'.shown = ui.shown
      PROVE  Own'
  <2>1. \A t \in Slots : Same(t)
    BY <1>9 DEF wslots, Same
  <2> QED BY <1>2, <1>4, <1>9, <2>1, SameIs DEF Same
<1>10. ASSUME NEW d \in ui.open, CloseDialog(d) PROVE Own'
  <2>1. ui'.panel = ui.panel /\ ui'.shown = ui.shown
    BY <1>10 DEF CloseDialog, Shape, Ui
  <2> QED BY <1>9, <1>10, <2>1 DEF CloseDialog
<1>11. ASSUME ClosePanel PROVE Own'
  <2>1. /\ \A t \in Slots : ~Active(t)
        /\ UNCHANGED wslots /\ Page.clears
    BY <1>2, <1>11, QuietIs, Openings DEF ClosePanel, Shape
  <2>2. ui'.shown = "nothing"
    BY <1>11, <2>1 DEF ClosePanel, Shape, Ui
  <2> QED BY <2>1, <2>2 DEF wslots, Active
<1>12. ASSUME NEW s \in Slots, Served(s) PROVE Own'
  <2>1. \A t \in Slots : Steps(t)' = Steps(t)
    BY <1>12, Untouched DEF Served
  <2> QED BY <1>4, <1>12, <2>1 DEF Served, Awaits, Active
<1>13. ASSUME NEW s \in Slots, Active(s), NEW u \in Ui, NEW v, NEW j, Onward(s, u, v, j),
              u.panel = ui.panel, u.shown \in {"nothing", ui.panel}
       PROVE  Own'
  <2>1. /\ OthersSame(s) /\ ui'.panel = v.panel /\ ui'.shown = v.shown
        /\ \/ Rests(s)
           \/ Relaunches(s)
           \/ j \in 1 .. Len(Steps(s)) /\ Goes(s, j)
    BY <1>13, OnwardSlots
  <2>2. \A k \in at[s] + 1 .. j - 1 : Steps(s)[k][1] \notin {"panel", "show"}
    <3>1. at[s] \in 1 .. Len(Steps(s)) /\ Len(Steps(s)) \in Nat
          /\ j \in at[s] + 1 .. Len(Steps(s)) + 1
      BY <1>13, CallIs, BodyIs DEF Onward, BodyOK, Steps
    <3>2. CASE handler[s] \in Loads
      BY <1>13, <3>1, <3>2, CallIs
    <3>3. CASE handler[s] \notin Loads
      <4>1. Details(Body(s), Page.buttons[handler[s]][1])
        BY <1>2, <1>13, <3>3, BodyIs DEF Handled
      <4>2. \A k \in at[s] + 1 .. j - 1 : k \in 1 .. Len(Steps(s)) /\ k # 1
        BY <3>1
      <4> QED BY <4>1, <4>2 DEF Details, Steps
    <3> QED BY <3>2, <3>3
  <2>3. v.panel = u.panel /\ v.shown = u.shown
    BY <1>13, <2>2 DEF Onward, RunFacts, Steps
  <2>4. ASSUME Active(s)', Awaits(s, "loadDetail")' PROVE subject'[s] = ui'.panel
    <3>1. j \in 1 .. Len(Steps(s)) /\ Goes(s, j)
      BY <2>1, <2>4, RelaunchedAwaits DEF Rests, Active
    <3>2. Awaits(s, "loadDetail")
      BY <1>2, <1>13, <2>4, <3>1, AwaitsLess
    <3> QED BY <1>4, <1>13, <2>1, <2>3, <3>1, <3>2 DEF Goes
  <2>5. ASSUME NEW t \in Slots \ {s}, Active(t)', Awaits(t, "loadDetail")'
        PROVE  subject'[t] = ui'.panel
    <3>1. Same(t) /\ Active(t) /\ Awaits(t, "loadDetail")
      BY <1>2, <2>1, <2>5, SameIs DEF OthersSame
    <3> QED BY <1>4, <1>13, <2>1, <2>3, <3>1 DEF Same
  <2> QED BY <1>13, <2>1, <2>3, <2>4, <2>5
<1>14. ASSUME NEW s \in Slots, Active(s), NEW v, NEW j, Succeeded(s, v, j) PROVE Own'
  <2> DEFINE u == Landed(s)
  <2>1. u \in Ui /\ u.panel = ui.panel
    BY <1>14, LandedIs
  <2>2. u.shown \in {"nothing", ui.panel}
    BY <1>4, <1>14, LandedIs, CallIs
  <2> HIDE DEF u
  <2>3. Onward(s, u, v, j)
    BY <1>14 DEF Succeeded, u
  <2> QED BY <1>13, <1>14, <2>1, <2>2, <2>3
<1>15. ASSUME NEW s \in Slots, Active(s), NEW v, NEW j, FailedLoad(s, v, j) PROVE Own'
  <2> DEFINE u == Missed(s)
  <2>1. u \in Ui /\ u.panel = ui.panel /\ u.shown = ui.shown
    BY <1>15, MissedIs
  <2> HIDE DEF u
  <2>2. Onward(s, u, v, j)
    BY <1>15 DEF FailedLoad, u
  <2> QED BY <1>4, <1>13, <1>15, <2>1, <2>2
<1>16. ASSUME NEW s \in Slots, Active(s), FailedCall(s) PROVE Own'
  <2>1. OthersSame(s) /\ Rests(s) /\ ui'.panel = ui.panel /\ ui'.shown = ui.shown
    BY <1>16, DroppedSlots
  <2>2. ASSUME NEW t \in Slots, Active(t)', Awaits(t, "loadDetail")'
        PROVE  subject'[t] = ui'.panel
    <3>1. t # s
      BY <2>1, <2>2 DEF Rests, Active
    <3>2. Same(t) /\ Active(t) /\ Awaits(t, "loadDetail")
      BY <1>2, <2>1, <2>2, <3>1, SameIs DEF OthersSame
    <3> QED BY <1>4, <2>1, <3>2 DEF Same
  <2> QED BY <1>4, <2>1, <2>2
<1>17. CASE UNCHANGED wvars
  BY <1>9, <1>17 DEF wvars
<1> HIDE DEF Own
<1> QED BY <1>7, <1>8, <1>10, <1>11, <1>12, <1>14, <1>15, <1>16, <1>17, StepsAre

\* Every step keeps RowsComing: who writes loads afterwards, with the view of now.
LEMMA RowsComingStep ==
  ASSUME Shape, OnlyLoad, OneHandler, RowsComing, [WebNext]_wvars
  PROVE  RowsComing'
<1> SUFFICES ASSUME patient', page' \notin LeftOut PROVE RowsComing'
  BY DEF RowsComing
<1> DEFINE View == \A s \in Slots : Active(s) => closure[s] = view
           Read == \A s \in Slots : Active(s) /\ Call(s) = "load" /\ answer[s] = "ok"
                                    => got[s] = version
           Coming == Fresh \/ \E s \in Slots : Active(s) /\ Awaits(s, "load")
<1>1. patient' = patient /\ page' = page /\ Page' = Page
  BY DEF WebNext, Click, ChangeView, CloseDialog, ClosePanel, Serve, Succeeds, Fails, wvars, Page
<1>2. View /\ Read /\ Coming
  BY <1>1 DEF RowsComing
<1>3. page \notin TwoCalls /\ page # "Credits"
  BY <1>1 DEF LeftOut, TwoCalls
<1>4. \A s, t \in Slots : Active(s) /\ Active(t) => s = t
  BY <1>1, <1>3 DEF OneHandler
<1>5. SUFFICES View' /\ Read' /\ Coming'
  BY DEF RowsComing
<1>6. ASSUME ui'.error = ui.error, ui'.rows = ui.rows, ui'.of = ui.of, version' = version,
             view' = view, Fresh
      PROVE  Fresh'
  BY <1>1, <1>6 DEF Fresh
<1>7. ASSUME ui'.error # {} PROVE Fresh'
  BY <1>7 DEF Fresh
<1>8. ASSUME \A t \in Slots : ~Active(t), NEW s \in Slots, OthersSame(s),
             Active(s)' => closure'[s] = view' /\ answer'[s] = "waiting",
             Fresh' \/ (Active(s)' /\ Awaits(s, "load")')
      PROVE  View' /\ Read' /\ Coming'
  <2>1. \A t \in Slots \ {s} : ~Active(t)'
    BY <1>8 DEF OthersSame, Same, Active
  <2> QED BY <1>8, <2>1
<1>9. ASSUME \A t \in Slots : ~Active(t) PROVE Fresh
  BY <1>2, <1>9
<1>10. ASSUME NEW h \in DOMAIN Page.does, NEW e, NEW s, NEW v, NEW j, Clicked(h, e, s, v, j)
       PROVE  View' /\ Read' /\ Coming'
  <2>1. s \in Slots /\ \A t \in Slots : ~Active(t)
    BY <1>1, <1>10, QuietIs DEF Clicked
  <2>2. Fresh'
    BY <1>6, <1>9, <1>10, <2>1, ClickSlots DEF Clicked
  <2>3. Active(s)' => closure'[s] = view' /\ answer'[s] = "waiting"
    <3>1. Same(s) => ~Active(s)'
      BY <2>1 DEF Same, Active
    <3>2. Same(s) \/ (closure'[s] = view /\ answer'[s] = "waiting")
      BY <1>10, ClickSlots
    <3>3. view' = view
      BY <1>10 DEF Clicked
    <3> QED BY <3>1, <3>2, <3>3
  <2>4. OthersSame(s)
    BY <1>10, ClickSlots
  <2> QED BY <1>8, <2>1, <2>2, <2>3, <2>4
<1>11. ASSUME NEW s \in Slots, Turned(s) PROVE View' /\ Read' /\ Coming'
  <2>1. /\ \A t \in Slots : ~Active(t)
        /\ OthersSame(s) /\ handler'[s] = Page.onView /\ closure'[s] = view'
        /\ answer'[s] = "waiting" /\ at'[s] = 1
    BY <1>1, <1>11, QuietIs DEF Turned, OthersSame, Same, Shape, Slot
  <2>2. handler'[s] = "load"
    BY <1>3, <1>11, <2>1, Openings DEF Turned, Shape
  <2>3. Active(s)' /\ Awaits(s, "load")'
    <3>1. Steps(s)' = <<Ask("load")>>
      BY <2>2 DEF Steps, Body, Does, Loads
    <3> QED BY <2>1, <2>2, <3>1 DEF Awaits, Active
  <2> QED BY <1>8, <2>1, <2>3
<1>12. ASSUME UNCHANGED wslots, version' = version, view' = view,
              ui'.error = ui.error, ui'.rows = ui.rows, ui'.of = ui.of
       PROVE  View' /\ Read' /\ Coming'
  <2>1. \A t \in Slots : Same(t)
    BY <1>12 DEF wslots, Same
  <2>2. \A t \in Slots : /\ (Active(t)' <=> Active(t)) /\ Call(t)' = Call(t)
                         /\ (Awaits(t, "load")' <=> Awaits(t, "load"))
    BY <1>1, <2>1, SameIs
  <2> QED BY <1>2, <1>6, <1>12, <2>1, <2>2 DEF Same
<1>13. ASSUME NEW d \in ui.open, CloseDialog(d) PROVE View' /\ Read' /\ Coming'
  <2>1. ui'.error = ui.error /\ ui'.rows = ui.rows /\ ui'.of = ui.of
    BY <1>13 DEF CloseDialog, Shape, Ui
  <2> QED BY <1>12, <1>13, <2>1 DEF CloseDialog
<1>14. ASSUME ClosePanel PROVE View' /\ Read' /\ Coming'
  <2>1. ui'.error = ui.error /\ ui'.rows = ui.rows /\ ui'.of = ui.of
    BY <1>14 DEF ClosePanel, Shape, Ui
  <2> QED BY <1>12, <1>14, <2>1 DEF ClosePanel
<1>15. ASSUME NEW s \in Slots, Served(s) PROVE View' /\ Read' /\ Coming'
  <2>1. \A t \in Slots : /\ (Active(t)' <=> Active(t)) /\ Steps(t)' = Steps(t)
                         /\ Call(t)' = Call(t) /\ (Awaits(t, "load")' <=> Awaits(t, "load"))
    BY <1>15, Untouched DEF Served, Awaits, Call, Active
  <2>2. View'
    BY <1>2, <1>15, <2>1 DEF Served
  <2>3. Read'
    <3>1. \A t \in Slots : Active(t)' => t = s
      BY <1>4, <1>15, <2>1 DEF Served
    <3>2. Call(s) = "load" => got'[s] = version'
      BY <1>15 DEF Served, Shape
    <3> QED BY <2>1, <3>1, <3>2
  <2>4. Coming'
    <3>1. CASE Call(s) = "write"
      <4>1. handler[s] \notin Loads /\ at[s] \in 1 .. Len(Steps(s))
            /\ Steps(s)[at[s]] = Ask("write")
        BY <1>15, <3>1, CallIs DEF Served, Loads
      <4>2. Reloads(Body(s)) /\ Steps(s) = Body(s).steps
        BY <1>1, <1>15, <4>1, BodyIs DEF Handled, Served, Steps
      <4>3. PICK m \in at[s] + 1 .. Len(Steps(s)) : Steps(s)[m] = Ask("load")
        BY <4>1, <4>2 DEF Reloads
      <4>4. m \in at[s] .. Len(Steps(s))
        BY <4>1, <4>3
      <4>5. Awaits(s, "load")
        BY <4>3, <4>4 DEF Awaits
      <4> QED BY <1>15, <2>1, <4>5 DEF Served
    <3>2. CASE Call(s) # "write"
      <4>1. version' = version /\ ui' = ui /\ view' = view
        BY <1>15, <3>2 DEF Served
      <4> QED BY <1>2, <1>6, <2>1, <4>1
    <3> QED BY <3>1, <3>2
  <2> QED BY <2>2, <2>3, <2>4
<1>16. ASSUME NEW s \in Slots, Active(s), NEW u \in Ui, NEW v, NEW j, Onward(s, u, v, j),
              version' = version, view' = view,
              \/ u.error # {}
              \/ u.rows = version /\ (Page.onView = "load" => u.of = view)
              \/ u = ui /\ Call(s) # "load"
       PROVE  View' /\ Read' /\ Coming'
  <2>1. /\ OthersSame(s)
        /\ ui'.rows = u.rows /\ ui'.of = u.of /\ ui'.error = u.error
        /\ \/ Rests(s) /\ j = Len(Steps(s)) + 1
           \/ Relaunches(s) /\ Steps(s)[Len(Steps(s))] = Launch
           \/ j \in 1 .. Len(Steps(s)) /\ Goes(s, j)
    BY <1>16, OnwardSlots
  <2>2. Steps(s)[Len(Steps(s))] # Launch
    <3>1. CASE handler[s] \in Loads
      BY <1>16, <3>1, CallIs DEF Ask, Launch
    <3>2. CASE handler[s] \notin Loads
      BY <1>1, <1>16, <3>2, BodyIs DEF Handled, Reloads, Steps
    <3> QED BY <3>1, <3>2
  <2>3. \A t \in Slots \ {s} : ~Active(t)'
    BY <1>4, <1>16, <2>1 DEF OthersSame, Same, Active
  <2>4. Active(s)' => closure'[s] = view' /\ answer'[s] = "waiting"
    BY <1>2, <1>16, <2>1, <2>2 DEF Rests, Goes, Active
  <2>5. Coming'
    <3>1. CASE u.error # {}
      BY <1>7, <2>1, <3>1
    <3>2. CASE u.rows = version /\ (Page.onView = "load" => u.of = view)
      BY <1>1, <1>16, <2>1, <3>2 DEF Fresh
    <3>3. CASE u = ui /\ Call(s) # "load"
      <4>1. CASE Fresh
        BY <1>6, <1>16, <2>1, <3>3, <4>1
      <4>2. CASE ~Fresh
        <5>1. Awaits(s, "load") /\ Steps(s)[at[s]] # Ask("load")
          BY <1>2, <1>4, <1>16, <3>3, <4>2, CallIs DEF Ask
        <5>2. PICK k \in at[s] .. Len(Steps(s)) : Steps(s)[k] = Ask("load")
          BY <5>1 DEF Awaits
        <5>3. at[s] \in 1 .. Len(Steps(s)) /\ Len(Steps(s)) \in Nat
          BY <1>16, CallIs, BodyIs DEF BodyOK, Steps
        <5>4. j # Len(Steps(s)) + 1
          <6> SUFFICES ASSUME j = Len(Steps(s)) + 1 PROVE FALSE
            OBVIOUS
          <6>1. k \in at[s] + 1 .. j - 1
            BY <5>1, <5>2, <5>3
          <6> QED BY <1>16, <5>2, <6>1 DEF Onward, Ask
        <5>5. j \in 1 .. Len(Steps(s)) /\ Goes(s, j)
          BY <2>1, <2>2, <5>4
        <5>6. Awaits(s, "load")' /\ Active(s)'
          BY <1>1, <1>16, <5>1, <5>5, AwaitsLess DEF Goes, Active
        <5> QED BY <5>6
      <4> QED BY <4>1, <4>2
    <3> QED BY <1>16, <3>1, <3>2, <3>3
  <2> QED BY <2>3, <2>4, <2>5
<1>17. ASSUME NEW s \in Slots, Active(s), NEW v, NEW j, Succeeded(s, v, j)
       PROVE  View' /\ Read' /\ Coming'
  <2> DEFINE u == Landed(s)
  <2>1. u \in Ui
    BY <1>17, LandedIs
  <2>2. Onward(s, u, v, j) /\ version' = version /\ view' = view
    BY <1>17 DEF Succeeded
  <2>3. CASE Call(s) = "load"
    <3>1. got[s] = version /\ closure[s] = view
      BY <1>2, <1>17, <2>3 DEF Succeeded
    <3>2. u.rows = version /\ u.of = view
      BY <1>17, <2>3, <3>1, LandedIs
    <3> HIDE DEF u
    <3> QED BY <1>16, <1>17, <2>1, <2>2, <3>2
  <2>4. CASE Call(s) # "load"
    <3>1. Call(s) \notin Loads
      <4>1. CASE handler[s] \in Loads
        BY <1>3, <1>17, <2>4, <4>1, CallIs DEF OnlyLoad
      <4>2. CASE handler[s] \notin Loads
        <5>1. Reloads(Body(s)) /\ Steps(s) = Body(s).steps
          BY <1>1, <1>17, <4>2, BodyIs DEF Handled, Steps
        <5> QED BY <1>17, <2>4, <5>1, CallIs DEF Reloads
      <4> QED BY <4>1, <4>2
    <3>2. u = ui
      BY <1>17, <3>1, LandedIs DEF Loads
    <3> HIDE DEF u
    <3> QED BY <1>16, <1>17, <2>1, <2>2, <2>4, <3>2
  <2> QED BY <2>3, <2>4
<1>18. ASSUME NEW s \in Slots, Active(s), NEW v, NEW j, FailedLoad(s, v, j)
       PROVE  View' /\ Read' /\ Coming'
  <2> DEFINE u == Missed(s)
  <2>1. u \in Ui /\ u.error # {}
    BY <1>18, MissedIs
  <2>2. Onward(s, u, v, j) /\ version' = version /\ view' = view
    BY <1>18 DEF FailedLoad
  <2> HIDE DEF u
  <2> QED BY <1>16, <1>18, <2>1, <2>2
<1>19. ASSUME NEW s \in Slots, Active(s), FailedCall(s) PROVE View' /\ Read' /\ Coming'
  <2>1. /\ OthersSame(s) /\ Rests(s) /\ ui'.rows = ui.rows /\ ui'.of = ui.of
        /\ ui'.error = ui.error \union ({Body(s).catch} \ {"nobody"})
    BY <1>19, DroppedSlots
  <2>2. \A t \in Slots : ~Active(t)'
    BY <1>4, <1>19, <2>1 DEF OthersSame, Same, Active, Rests
  <2>3. CASE Body(s).catch # "nobody"
    <3>1. ui'.error # {}
      BY <2>1, <2>3
    <3> QED BY <1>7, <2>2, <3>1
  <2>4. CASE Body(s).catch = "nobody"
    <3>1. handler[s] \notin Loads
      BY <1>19, CallIs DEF FailedCall
    <3>2. Reloads(Body(s)) /\ Steps(s) = Body(s).steps
      BY <1>1, <1>19, <3>1, BodyIs DEF Handled, Steps
    <3>3. ~Awaits(s, "load")
      <4> SUFFICES ASSUME NEW k \in at[s] .. Len(Steps(s)), Steps(s)[k] = Ask("load") PROVE FALSE
        BY DEF Awaits
      <4>1. k \in 1 .. Len(Body(s).steps)
        BY <1>19, <3>2, CallIs, BodyIs DEF BodyOK
      <4> QED BY <2>4, <3>2, <4>1 DEF Reloads
    <3>4. Fresh
      BY <1>2, <1>4, <1>19, <3>3
    <3>5. ui'.error = ui.error
      BY <2>1, <2>4
    <3> QED BY <1>6, <1>19, <2>1, <2>2, <3>4, <3>5 DEF FailedCall
  <2> QED BY <2>3, <2>4
<1>20. CASE UNCHANGED wvars
  BY <1>12, <1>20 DEF wvars
<1> HIDE DEF View, Read, Coming
<1> QED BY <1>10, <1>11, <1>13, <1>14, <1>15, <1>17, <1>18, <1>19, <1>20, StepsAre

\* Every step keeps FailureStays: what runs on after a failure is the load behind the panel in
\* which the failure is shown, and a load takes back what a load said only.
LEMMA FailureStaysStep ==
  ASSUME Shape, OneHandler, FailureStays, [WebNext]_wvars
  PROVE  FailureStays'
<1> SUFFICES ASSUME patient', page' \notin Unsaid PROVE FailureStays'
  BY DEF FailureStays
<1> DEFINE Stays == /\ ui.error # {}
                    /\ \A s \in Slots : Active(s) => handler[s] = "load" /\ "panel" \in ui.error
<1>1. patient' = patient /\ page' = page
  BY DEF WebNext, Click, ChangeView, CloseDialog, ClosePanel, Serve, Succeeds, Fails, wvars
<1>2. page \notin TwoCalls /\ (failed => Stays)
  BY <1>1 DEF Unsaid, TwoCalls, FailureStays
<1>3. \A s, t \in Slots : Active(s) /\ Active(t) => s = t
  BY <1>1, <1>2 DEF OneHandler
<1>4. (failed' => Stays') => FailureStays'
  BY DEF FailureStays
<1>5. ASSUME NEW h \in DOMAIN Page.does, NEW e, NEW s, NEW v, NEW j, Clicked(h, e, s, v, j)
      PROVE  failed' => Stays'
  BY <1>5 DEF Clicked
<1>6. ASSUME NEW s \in Slots, Turned(s) PROVE failed' => Stays'
  BY <1>6 DEF Turned
<1>7. ASSUME failed' = failed, ui'.error = ui.error, handler' = handler PROVE failed' => Stays'
  BY <1>2, <1>7 DEF Active
<1>8. ASSUME NEW d \in ui.open, CloseDialog(d) PROVE failed' => Stays'
  BY <1>7, <1>8 DEF CloseDialog, Shape, Ui, wslots
<1>9. ASSUME ClosePanel PROVE failed' => Stays'
  BY <1>7, <1>9 DEF ClosePanel, Shape, Ui, wslots, whistory
<1>10. ASSUME NEW s \in Slots, Served(s) PROVE failed' => Stays'
  BY <1>7, <1>10 DEF Served, whistory
<1>11. ASSUME NEW s \in Slots, Active(s), NEW v, NEW j, Succeeded(s, v, j)
       PROVE  failed' => Stays'
  <2> SUFFICES ASSUME failed PROVE Stays'
    BY <1>11 DEF Succeeded
  <2> DEFINE u == Landed(s)
  <2>1. handler[s] = "load" /\ "panel" \in ui.error
    BY <1>2, <1>11
  <2>2. /\ Call(s) = "load" /\ Len(Steps(s)) = 1 /\ at[s] = 1 /\ Steps(s)[1] # Launch
    BY <1>11, <2>1, CallIs DEF Loads, Ask, Launch
  <2>3. u \in Ui /\ u.error = ui.error \ {"page"}
    BY <1>11, <2>2, LandedIs
  <2> HIDE DEF u
  <2>4. Onward(s, u, v, j)
    BY <1>11 DEF Succeeded, u
  <2>5. j \in 2 .. 2
    BY <2>2, <2>4 DEF Onward
  <2>6. Rests(s) /\ OthersSame(s) /\ ui'.error = u.error
    BY <1>11, <2>2, <2>3, <2>4, <2>5, OnwardSlots
  <2>7. \A t \in Slots : ~Active(t)'
    BY <1>3, <1>11, <2>6 DEF Rests, OthersSame, Same, Active
  <2> QED BY <2>1, <2>3, <2>6, <2>7
<1>12. ASSUME NEW s \in Slots, Active(s), NEW v, NEW j, FailedLoad(s, v, j)
       PROVE  failed' => Stays'
  <2> DEFINE u == Missed(s)
  <2>1. /\ u \in Ui
        /\ u.error = ui.error \union {IF Call(s) = "loadDetail" THEN "panel" ELSE "page"}
    BY <1>12, MissedIs
  <2> HIDE DEF u
  <2>2. Onward(s, u, v, j) /\ Call(s) \in Loads
    BY <1>12 DEF FailedLoad, u
  <2>3. /\ OthersSame(s) /\ ui'.error = u.error
        /\ \/ Rests(s)
           \/ Relaunches(s) /\ Steps(s)[Len(Steps(s))] = Launch
           \/ j \in 1 .. Len(Steps(s)) /\ Steps(s)[j][1] = "ask"
    BY <1>12, <2>1, <2>2, OnwardSlots
  <2>4. \A t \in Slots \ {s} : ~Active(t)'
    BY <1>3, <1>12, <2>3 DEF OthersSame, Same, Active
  <2>5. /\ at[s] \in 1 .. Len(Steps(s)) /\ Len(Steps(s)) \in Nat
        /\ j \in at[s] + 1 .. Len(Steps(s)) + 1 /\ Steps(s)[at[s]] = Ask(Call(s))
    BY <1>12, <2>2, CallIs, BodyIs DEF Onward, BodyOK, Steps
  <2>6. \/ at[s] = Len(Steps(s))
        \/ /\ Call(s) = "loadDetail" /\ at[s] + 1 = Len(Steps(s))
           /\ Steps(s)[Len(Steps(s))] = Launch
    <3>1. CASE handler[s] \in Loads
      BY <1>12, <3>1, CallIs
    <3>2. CASE handler[s] \notin Loads
      <4>1. Says(Body(s)) /\ Steps(s) = Body(s).steps
        BY <1>1, <1>12, <3>2, BodyIs DEF Handled, Steps
      <4> QED BY <2>2, <2>5, <4>1 DEF Says
    <3> QED BY <3>1, <3>2
  <2>7. CASE at[s] = Len(Steps(s))
    <3>1. Steps(s)[Len(Steps(s))] # Launch /\ j \notin 1 .. Len(Steps(s))
      BY <2>5, <2>7 DEF Ask, Launch
    <3> QED BY <2>1, <2>3, <2>4, <3>1 DEF Rests, Active
  <2>8. CASE /\ Call(s) = "loadDetail" /\ at[s] + 1 = Len(Steps(s))
             /\ Steps(s)[Len(Steps(s))] = Launch
    <3>1. ~(j \in 1 .. Len(Steps(s)) /\ Steps(s)[j][1] = "ask")
      BY <2>5, <2>8 DEF Launch
    <3>2. "panel" \in ui'.error
      BY <2>1, <2>3, <2>8
    <3> QED BY <2>3, <2>4, <3>1, <3>2 DEF Rests, Relaunches, Active
  <2> QED BY <2>6, <2>7, <2>8
<1>13. ASSUME NEW s \in Slots, Active(s), FailedCall(s) PROVE failed' => Stays'
  <2>1. /\ OthersSame(s) /\ Rests(s)
        /\ ui'.error = ui.error \union ({Body(s).catch} \ {"nobody"})
    BY <1>13, DroppedSlots
  <2>2. \A t \in Slots : ~Active(t)'
    BY <1>3, <1>13, <2>1 DEF OthersSame, Same, Active, Rests
  <2>3. handler[s] \notin Loads
    BY <1>13, CallIs DEF FailedCall
  <2>4. Says(Body(s))
    BY <1>1, <1>13, <2>3, BodyIs DEF Handled
  <2>5. ui'.error # {}
    BY <2>1, <2>4 DEF Says
  <2> QED BY <2>2, <2>5
<1>14. ASSUME UNCHANGED wvars PROVE failed' => Stays'
  BY <1>7, <1>14 DEF wvars, wslots, whistory
<1> HIDE DEF Stays
<1> QED BY <1>4, <1>5, <1>6, <1>8, <1>9, <1>10, <1>11, <1>12, <1>13, <1>14, StepsAre

-----------------------------------------------------------------------------
(* The theorems *)

\* The invariant holds when a page opens.
LEMMA WebStarts == WebInit => WebIInv
<1> SUFFICES ASSUME WebInit PROVE WebIInv
  OBVIOUS
<1>1. Shape
  BY ShapeInit
<1>2. /\ DOMAIN Page.mount \in {{1}, {1, 2}} /\ \A s \in DOMAIN Page.mount : Page.mount[s] \in Loads
      /\ page \notin TwoCalls => DOMAIN Page.mount = {1} /\ Page.mount[1] = "load"
  BY <1>1, Openings DEF Shape
<1>3. \A s \in Slots : /\ handler[s] = IF s \in DOMAIN Page.mount THEN Page.mount[s] ELSE "none"
                       /\ at[s] = 1 /\ answer[s] = "waiting" /\ closure[s] = view
  BY DEF WebInit
<1>4. ui.busy = {} /\ ui.panel = "closed" /\ ui.shown = "nothing" /\ ~failed /\ written = {}
  BY DEF WebInit
<1>5. ASSUME NEW s \in Slots, Active(s)
      PROVE  handler[s] \in Loads /\ Steps(s) = <<Ask(handler[s])>> /\ FlagOf(s) = "none"
  <2>1. handler[s] \in Loads
    BY <1>2, <1>3, <1>5 DEF Active
  <2> QED BY <1>5, <2>1 DEF Steps, Body, Does, FlagOf
<1>6. Taken
  <2>1. \A s \in Slots : FlagOf(s) = "none"
    BY <1>5 DEF FlagOf
  <2> QED BY <1>4, <2>1 DEF Taken, Flags
<1>7. OneHandler /\ OnlyLoad
  BY <1>2, <1>3 DEF OneHandler, OnlyLoad, Active, Loads
<1>8. OwnPanel
  <2> SUFFICES ASSUME page = "Organizations", NEW s \in Slots, Active(s), Awaits(s, "loadDetail")
               PROVE  FALSE
    BY <1>4 DEF OwnPanel
  <2>1. handler[s] = "load"
    BY <1>2, <1>3 DEF Active, TwoCalls
  <2> QED BY <1>3, <1>5, <2>1 DEF Awaits, Ask
<1>9. RowsComing
  <2> SUFFICES ASSUME page \notin LeftOut PROVE \E s \in Slots : Active(s) /\ Awaits(s, "load")
    BY <1>3 DEF RowsComing
  <2>1. 1 \in Slots /\ handler[1] = "load"
    BY <1>2, <1>3, WebPagesAssumption DEF LeftOut, TwoCalls
  <2>2. Active(1) /\ Steps(1) = <<Ask("load")>> /\ at[1] = 1
    BY <1>3, <1>5, <2>1 DEF Active
  <2>3. Awaits(1, "load")
    BY <2>2 DEF Awaits
  <2> QED BY <2>1, <2>2, <2>3
<1>10. FailureStays
  BY <1>4 DEF FailureStays
<1> QED BY <1>1, <1>4, <1>6, <1>7, <1>8, <1>9, <1>10 DEF WebIInv, WrittenOK

\* And always.
LEMMA WebAlways == WebSpec => []WebIInv
<1>1. WebIInv /\ [WebNext]_wvars => WebIInv'
  BY ShapeStep, TakenStep, OneHandlerStep, OnlyLoadStep, WrittenStep, OwnPanelStep, RowsComingStep,
     FailureStaysStep DEF WebIInv
<1> QED BY WebStarts, <1>1, PTL DEF WebSpec

\* For every set of pages, rows and slots, handlers that overlap on a page neither submit twice
\* nor show one organization's values under another's name, and no button stays disabled.
THEOREM PageInvCorrect == WebSpec => []PageInv
<1>1. WebIInv => PageInv
  <2> SUFFICES ASSUME Shape, Taken, OwnPanel PROVE PageInv
    BY DEF WebIInv
  <2>1. WebTypeOK
    <3>1. \A s \in Slots \ Vacant : Active(s)
      BY DEF Vacant, Active
    <3>2. ui.rows \in 0 .. version
      BY WebPagesAssumption DEF Shape, Ui
    <3>3. \A s \in Slots \ Vacant : at[s] \in 1 .. Len(Steps(s)) /\ got[s] <= version
                                    /\ subject[s] \in Covers
      BY <3>1 DEF Shape, Slot, Active
    <3>4. page \in DOMAIN Pages /\ view \in {0, 1} /\ version \in 1 .. MaxWrites + 1
          /\ ui.error \subseteq {"page", "panel"} /\ ui.busy \subseteq Flags
          /\ written \subseteq ui.open
      BY DEF Shape, Ui
    <3> QED BY <3>2, <3>3, <3>4 DEF WebTypeOK, Covers
  <2>2. OneAtATime
    <3> SUFFICES ASSUME NEW f \in Flags
                 PROVE  LET running == {s \in Slots \ Vacant : Body(s).flag = f}
                        IN  Cardinality(running) <= 1 /\ (f \in ui.busy <=> running # {})
      BY DEF OneAtATime
    <3> DEFINE running == {s \in Slots \ Vacant : Body(s).flag = f}
    <3>1. \A s \in Slots : s \in running <=> FlagOf(s) = f
      BY DEF FlagOf, Active, Vacant, Flags
    <3>2. \A s, t \in running : s = t
      BY <3>1 DEF Taken, Flags
    <3>3. f \in ui.busy <=> running # {}
      BY <3>1 DEF Taken
    <3>4. CASE running = {}
      BY <3>3, <3>4, FS_EmptySet
    <3>5. CASE running # {}
      <4>1. PICK s : running = {s}
        BY <3>2, <3>5
      <4>2. Cardinality(running) = 1
        BY <4>1, FS_Singleton
      <4> QED BY <3>3, <4>2
    <3> QED BY <3>4, <3>5
  <2>3. DetailIsItsOwn
    BY DEF OwnPanel, DetailIsItsOwn
  <2> QED BY <2>1, <2>2, <2>3 DEF PageInv
<1> QED BY WebAlways, <1>1, PTL

\* For every set of pages, rows and slots and any number of writes: when everything a patient
\* user asked for has been answered, what the page shows, reports and still offers to save agrees
\* with what the API did.
THEOREM PageIsTrueCorrect == WebSpec => []PageIsTrue
<1>1. WebIInv => PageIsTrue
  <2> SUFFICES ASSUME RowsComing, FailureStays, WrittenOK PROVE PageIsTrue
    BY DEF WebIInv
  <2>1. AtRest => patient /\ \A s \in Slots : ~Active(s)
    BY DEF AtRest, Vacant, Active
  <2>2. RowsAreTrue
    BY <2>1 DEF RowsAreTrue, RowsComing, Fresh, LeftOut
  <2>3. FailureIsSaid
    BY <2>1 DEF FailureIsSaid, FailureStays, Unsaid
  <2>4. FormsAreUnsaved
    BY DEF FormsAreUnsaved, WrittenOK
  <2> QED BY <2>2, <2>3, <2>4 DEF PageIsTrue
<1> QED BY WebAlways, <1>1, PTL
=============================================================================
