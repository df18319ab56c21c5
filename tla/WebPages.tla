------------------------------ MODULE WebPages ------------------------------
(***************************************************************************)
(* The pages of apps/web/src/pages that show rows of the API and change     *)
(* them: what a handler asks of the API, in which order, what it shows for  *)
(* each answer, which failures it catches, and where its button is.  A      *)
(* handler is a sequence of steps; between two of its calls the browser may *)
(* run others.  Each page is explored by itself.                            *)
(*                                                                          *)
(* patient is an assumption about the user, fixed for a behaviour: nothing  *)
(* is clicked while a call is under way.                                    *)
(***************************************************************************)
EXTENDS Naturals, Sequences, FiniteSets, SequencesExt

CONSTANTS
    PageNames,      \* the pages to explore
    Entities,       \* rows with a detail panel
    Slots,          \* handlers that may be under way at a time
    MaxWrites,      \* bound on the writes the API commits
    PatientModes    \* the values of patient to explore

ASSUME WebPagesAssumption ==
    /\ Slots \subseteq Nat /\ {1, 2} \subseteq Slots
    /\ MaxWrites \in Nat /\ PatientModes \subseteq BOOLEAN
    /\ Entities \intersect {"closed", "nothing"} = {}

VARIABLES
    page,       \* the page that is open
    patient,    \* the assumption above
    view,       \* its search and page number
    version,    \* the state of the rows in the database, counted from 1
    ui,         \* what the page shows, see WebInit
    handler,    \* the handler of each slot
    at,         \* the step it awaits
    subject,    \* the row it is about
    closure,    \* the view its load() was made for
    answer,     \* has the API answered?
    got,        \* the version a read was answered with
    failed,     \* history: the last thing asked for failed
    written     \* history: open dialogs whose writes have been answered with success

wslots == <<handler, at, subject, closure, answer, got>>
whistory == <<failed, written>>
wvars == <<page, patient, view, version, ui, wslots, whistory>>

-----------------------------------------------------------------------------
(* Handlers *)

Ask(call) == <<"ask", call>>        \* an awaited call
Open(dialog) == <<"open", dialog>>
Close(dialog) == <<"close", dialog>>
Panel(e) == <<"panel", e>>          \* the detail panel opens for a row, or closes
Show(e) == <<"show", e>>            \* the panel shows what the call returned
Launch == <<"launch", "load">>      \* ends the handler, with a load() nobody awaits
Leave == <<"leave", "page">>

\* Calls with a try of their own: a failure is shown and the caller goes on.
Loads == {"load", "loadDetail", "loadReport", "loadSettings"}
Writes == {"write", "post"}         \* "post" writes what the page's rows do not show

Does(flag, steps, catch) == [flag |-> flag, steps |-> steps, catch |-> catch]
Opens(dialog) == Does("none", <<Open(dialog)>>, "page")

Submit(dialog, flag) == Does(flag, <<Ask("write"), Close(dialog), Ask("load")>>, "page")

\* Fault: the rows are not loaded again.
RowActionAlone == Does("none", <<Ask("write")>>, "page")

RowAction == Does("none", <<Ask("write"), Ask("load")>>, "page")

\* downloadFromApi, which nobody catches.
Download == Does("none", <<Ask("read")>>, "nobody")

\* Where a button is, and the flag that disables it.
InHeader == <<"header", "none">>
InRow == <<"row", "none">>
InPanel == <<"panel", "none">>
In(dialog, flag) == <<dialog, flag>>

ContactsRows ==
    [openCreate |-> Opens("form"), openEdit |-> Opens("form"),
     handleSubmit |-> Submit("form", "saving"), handleDelete |-> RowAction,
     toggleOptOut |-> RowAction,
     handleImport |-> Does("none", <<Ask("write"), Open("imported"), Ask("load")>>, "page"),
     template |-> Download, exportCsv |-> Download]
ContactsLists ==
    [openAddToList |-> Does("none", <<Open("addToList"), Ask("read")>>, "page"),
     submitAddToList |-> Does("listSaving", <<Ask("post"), Close("addToList")>>, "page"),
     openCreateList |-> Opens("createList"),
     submitCreateList |->
        Does("listSaving", <<Ask("post"), Ask("post"), Close("createList")>>, "page")]
ContactsButtons ==
    [handleImport |-> InHeader, openCreate |-> InHeader,
     template |-> InHeader, exportCsv |-> InHeader,
     openAddToList |-> InHeader, openCreateList |-> InHeader,
     openEdit |-> InRow, toggleOptOut |-> InRow, handleDelete |-> InRow]
ContactsDialogs ==
    [handleSubmit |-> In("form", "saving"),
     submitAddToList |-> In("addToList", "listSaving"),
     submitCreateList |-> In("createList", "listSaving")]

ListsRows ==
    [openCreate |-> Opens("form"), openEdit |-> Opens("form"),
     handleSubmit |-> Submit("form", "saving"), handleDelete |-> RowAction]
ListsMembers ==
    [openMembers |-> Does("none", <<Panel("row"), Ask("detail"), Show("row")>>, "nobody"),
     handleSearchContacts |-> Does("none", <<Ask("read")>>, "nobody"),
     addMember |->
        Does("none", <<Ask("write"), Ask("detail"), Show("row"), Ask("load")>>, "nobody"),
     removeMember |->
        Does("none", <<Ask("write"), Ask("detail"), Show("row"), Ask("load")>>, "nobody")]
ListsButtons ==
    [openCreate |-> InHeader, openMembers |-> InRow, openEdit |-> InRow, handleDelete |-> InRow,
     handleSubmit |-> In("form", "saving"),
     handleSearchContacts |-> InPanel, addMember |-> InPanel, removeMember |-> InPanel]

TemplatesRows ==
    [openCreate |-> Opens("form"), openEdit |-> Opens("form"),
     handleSubmit |-> Submit("form", "saving"), handleDelete |-> RowAction,
     handleMediaUpload |-> Does("uploadingMedia", <<Ask("upload")>>, "page"),
     openHtmlImport |-> Opens("htmlImport"),
     applyHtmlImport |-> Does("none", <<Close("htmlImport")>>, "page"),
     openPreview |-> Opens("preview"),
     runPreview |-> Does("none", <<Ask("read")>>, "nobody")]
TemplatesButtons ==
    [openCreate |-> InHeader, openPreview |-> InRow, openEdit |-> InRow, handleDelete |-> InRow,
     handleSubmit |-> In("form", "saving"), openHtmlImport |-> In("form", "none"),
     handleMediaUpload |-> In("form", "uploadingMedia"),
     applyHtmlImport |-> In("htmlImport", "none"), runPreview |-> In("preview", "none")]

UsersRows ==
    [openCreate |-> Opens("create"), handleCreate |-> Submit("create", "saving"),
     openEdit |-> Opens("edit"), handleEditSave |-> Submit("edit", "saving"),
     handleDelete |-> RowAction, toggleActive |-> RowAction,
     openReset |-> Opens("reset"),
     handleResetPassword |-> Does("saving", <<Ask("post"), Close("reset")>>, "page")]
UsersButtons ==
    [openCreate |-> InHeader, openEdit |-> InRow, openReset |-> InRow,
     toggleActive |-> InRow, handleDelete |-> InRow,
     handleCreate |-> In("create", "saving"), handleEditSave |-> In("edit", "saving"),
     handleResetPassword |-> In("reset", "saving")]

AutomationsRows ==
    [openCreate |-> Opens("form"), openEdit |-> Opens("form"),
     handleSubmit |-> Submit("form", "saving"),
     toggleActive |-> RowAction, handleDelete |-> RowAction]
AutomationsButtons ==
    [openCreate |-> InHeader, openEdit |-> InRow, toggleActive |-> InRow,
     handleDelete |-> InRow, handleSubmit |-> In("form", "saving")]

CampaignsSettings ==
    [saveSendingSettings |-> Does("settingsSaving", <<Ask("post")>>, "page")]
CampaignsRows ==
    [openCreate |-> Does("none", <<Open("form"), Ask("read")>>, "page"),
     handleSubmit |-> Submit("form", "saving"),
     openDetail |-> Does("none", <<Panel("row"), Ask("detail"), Show("row")>>, "nobody"),
     runPreview |-> Does("none", <<Ask("read")>>, "nobody"),
     addFromList |-> Does("none",
        <<Ask("write"), Ask("detail"), Panel("row"), Show("row"), Ask("load")>>, "page"),
     openInsights |-> Does("none", <<Open("insights"), Ask("read")>>, "page"),
     doAction |-> Does("none",
        <<Ask("write"), Ask("detail"), Panel("row"), Show("row"), Ask("load")>>, "page"),
     deleteCampaign |-> Does("none", <<Ask("write"), Panel("closed"), Ask("load")>>, "page"),
     openRelaunch |-> Opens("relaunch"), openRelaunchOfRow |-> Opens("relaunch"),
     submitRelaunch |-> Does("relaunching",
        <<Ask("write"), Close("relaunch"), Panel("closed"), Ask("load"),
          Panel("new"), Ask("detail"), Show("new")>>, "page")]
CampaignsHeader ==
    [emergencyStop |-> Does("none", <<Ask("write"), Ask("load")>>, "nobody"),
     downloadReport |-> Download]
CampaignsButtons ==
    [emergencyStop |-> InHeader, openCreate |-> InHeader,
     saveSendingSettings |-> <<"header", "settingsSaving">>,
     openDetail |-> InRow, openInsights |-> InRow, openRelaunchOfRow |-> InRow]
CampaignsPanel ==
    [runPreview |-> InPanel, addFromList |-> InPanel, doAction |-> InPanel,
     openRelaunch |-> InPanel, deleteCampaign |-> InPanel]
CampaignsForm ==
    [handleSubmit |-> In("form", "saving"), downloadReport |-> In("insights", "none")]
CampaignsRelaunch == [submitRelaunch |-> In("relaunch", "relaunching")]

PlansRows ==
    [openCreate |-> Opens("form"), openEdit |-> Opens("form"),
     handleSubmit |-> Submit("form", "saving"), handleDelete |-> RowAction]
PlansButtons ==
    [openCreate |-> InHeader, openEdit |-> InRow, handleDelete |-> InRow,
     handleSubmit |-> In("form", "saving")]

RolesRows ==
    [openCreate |-> Opens("form"), openEdit |-> Opens("form"),
     handleSubmit |-> Submit("form", "saving"), handleDelete |-> RowAction]
RolesButtons ==
    [openCreate |-> InHeader, openEdit |-> InRow, handleDelete |-> InRow,
     handleSubmit |-> In("form", "saving")]

\* The branding is two calls in a Promise.all; the value has to parse as JSON first.
SettingsRows ==
    [saveBranding |-> Does("brandingSaving", <<Ask("write"), Ask("load")>>, "page"),
     openCreate |-> Opens("form"), openEdit |-> Opens("form"),
     handleSubmit |-> Does("saving",
        <<Ask("parse"), Ask("write"), Close("form"), Ask("load")>>, "page")]
SettingsButtons ==
    [openCreate |-> InHeader, saveBranding |-> <<"header", "brandingSaving">>,
     openEdit |-> InRow, handleSubmit |-> In("form", "saving")]

OrganizationsRows ==
    [openCreate |-> Opens("form"),
     handleCreate |-> Does("saving",
        <<Ask("write"), Close("form"), Open("created"), Ask("load")>>, "page"),
     handleImpersonate |-> Does("none", <<Ask("post"), Ask("read"), Leave>>, "page"),
     openDetail |-> Does("none", <<Panel("row"), Ask("loadDetail")>>, "page")]
OrganizationsButtons ==
    [openCreate |-> InHeader, openDetail |-> InRow, handleImpersonate |-> InRow,
     handleCreate |-> In("form", "saving")]

\* refresh() waits for the detail and not for the rows of the page behind it.
Refreshing == Does("busy", <<Ask("write"), Ask("loadDetail"), Launch>>, "panel")
OrganizationDetail ==
    [handleSaveDetails |-> Refreshing, handleToggleStatus |-> Refreshing,
     handleToggleService |-> Refreshing, handleSaveModules |-> Refreshing,
     handleAdjustCredits |-> Refreshing,
     openReset |-> Opens("reset"),
     handleResetPassword |->
        Does("busy", <<Ask("post"), Close("reset"), Open("resetResult")>>, "panel"),
     onImpersonate |-> Does("none", <<Ask("post"), Ask("read"), Leave>>, "page")]
\* Login as is there for the organization, disabled by busy, and for each of its users, where
\* nothing disables it: the latter can be clicked whenever the former can.
OrganizationDetailButtons ==
    [handleToggleStatus |-> <<"detail", "busy">>, handleToggleService |-> <<"detail", "busy">>,
     onImpersonate |-> <<"detail", "none">>, handleSaveDetails |-> <<"detail", "busy">>,
     handleSaveModules |-> <<"detail", "busy">>, handleAdjustCredits |-> <<"detail", "busy">>,
     openReset |-> <<"detail", "none">>,
     handleResetPassword |-> In("reset", "busy")]

-----------------------------------------------------------------------------
(* Pages: the calls of the effects that run when the page opens, the one that runs when the   *)
(* view changes, and whether the detail goes when its panel is closed                         *)

PageOf(mount, onView, clears, does, buttons) ==
    [mount |-> mount, onView |-> onView, clears |-> clears, does |-> does, buttons |-> buttons]
Plain(does, buttons) == PageOf(<<"load">>, "none", FALSE, does, buttons)
Reading(mount, onView) == PageOf(mount, onView, FALSE, [x \in {} |-> x], [x \in {} |-> x])

\* Two tables of one page.
Merged(f, g) == [h \in DOMAIN f \union DOMAIN g |-> IF h \in DOMAIN f THEN f[h] ELSE g[h]]

ContactsPage == PageOf(<<"load">>, "load", FALSE, Merged(ContactsRows, ContactsLists),
                       Merged(ContactsButtons, ContactsDialogs))
CampaignsPage == PageOf(<<"loadSettings", "load">>, "none", FALSE,
                        Merged(Merged(CampaignsSettings, CampaignsRows), CampaignsHeader),
                        Merged(Merged(CampaignsButtons, CampaignsPanel),
                               Merged(CampaignsForm, CampaignsRelaunch)))
OrganizationsPage == PageOf(<<"load">>, "load", TRUE,
                            Merged(OrganizationsRows, OrganizationDetail),
                            Merged(OrganizationsButtons, OrganizationDetailButtons))
CreditsPage == Reading(<<"load", "loadReport">>, "loadReport")
\* load waits 300 ms for more typing first, as part of the call.
AuditLogsPage == Reading(<<"load">>, "load")
AdminDashboardPage == Reading(<<"load">>, "load")
AnalyticsPage == Reading(<<"load">>, "none")

Pages ==
    [Contacts |-> ContactsPage, Lists |-> Plain(Merged(ListsRows, ListsMembers), ListsButtons),
     Templates |-> Plain(TemplatesRows, TemplatesButtons), Users |-> Plain(UsersRows, UsersButtons),
     Automations |-> Plain(AutomationsRows, AutomationsButtons), Campaigns |-> CampaignsPage,
     Plans |-> Plain(PlansRows, PlansButtons), Roles |-> Plain(RolesRows, RolesButtons),
     Settings |-> Plain(SettingsRows, SettingsButtons), Organizations |-> OrganizationsPage,
     Credits |-> CreditsPage, AuditLogs |-> AuditLogsPage,
     AdminDashboard |-> AdminDashboardPage, Analytics |-> AnalyticsPage]
Page == Pages[page]

ASSUME PageNamesAssumption == PageNames \subseteq DOMAIN Pages


Body(s) == IF handler[s] \in Loads THEN Does("none", <<Ask(handler[s])>>, "nobody")
           ELSE Page.does[handler[s]]
Steps(s) == Body(s).steps
Call(s) == Steps(s)[at[s]][2]
Vacant == {s \in Slots : handler[s] = "none"}

WebInit ==
    /\ page \in PageNames /\ patient \in PatientModes
    /\ view = 0 /\ version = 1
    /\ ui = [open |-> {}, panel |-> "closed", shown |-> "nothing", error |-> {}, busy |-> {},
             rows |-> 0, of |-> 0, gone |-> FALSE]
    /\ handler = [s \in Slots |-> IF s \in DOMAIN Page.mount THEN Page.mount[s] ELSE "none"]
    /\ at = [s \in Slots |-> 1] /\ subject = [s \in Slots |-> "none"]
    /\ closure = [s \in Slots |-> 0] /\ answer = [s \in Slots |-> "waiting"]
    /\ got = [s \in Slots |-> 0]
    /\ failed = FALSE /\ written = {}

-----------------------------------------------------------------------------
(* A handler runs from one call to the next without interruption. *)

NextAsk(steps, i) ==
    LET asks == {j \in i + 1 .. Len(steps) : steps[j][1] = "ask"}
    IN  IF asks = {} THEN Len(steps) + 1 ELSE CHOOSE j \in asks : \A k \in asks : j <= k
\* The page after the steps of b between its i-th and its j-th, for row e.  A dialog is open if
\* the last step about it, if any, opens it; of the panel the last step counts too.
RunTo(u, b, i, j, e) ==
    LET do(verb) == {k \in i + 1 .. j - 1 : b.steps[k][1] = verb}
        it(k) == IF b.steps[k][2] = "row" THEN e ELSE b.steps[k][2]
        closed(d, k) == \E m \in do("close") : k < m /\ it(m) = d
        last(verb, was) == IF do(verb) = {} THEN was ELSE it(Max(do(verb)))
    IN  [u EXCEPT !.open = {d \in @ : ~closed(d, i)}
                           \union {it(k) : k \in {n \in do("open") : ~closed(it(n), n)}},
                  !.panel = last("panel", @), !.shown = last("show", @),
                  !.gone = @ \/ do("leave") # {}]

Becomes(s, h) ==
    /\ handler' = [handler EXCEPT ![s] = h] /\ at' = [at EXCEPT ![s] = 1]
    /\ subject' = [subject EXCEPT ![s] = "none"]
    /\ closure' = [closure EXCEPT ![s] = IF h = "load" THEN @ ELSE 0]
    /\ answer' = [answer EXCEPT ![s] = "waiting"] /\ got' = [got EXCEPT ![s] = 0]

\* Goes on after its step i with the page showing u; the finally block ends it.
GoOn(s, u, i) ==
    LET j == NextAsk(Steps(s), i)
        v == RunTo(u, Body(s), i, j, subject[s])
    IN  IF j > Len(Steps(s))
        THEN /\ Becomes(s, IF Last(Steps(s)) = Launch THEN "load" ELSE "none")
             /\ ui' = [v EXCEPT !.busy = @ \ {Body(s).flag}]
        ELSE /\ ui' = v /\ at' = [at EXCEPT ![s] = j]
             /\ answer' = [answer EXCEPT ![s] = "waiting"] /\ got' = [got EXCEPT ![s] = 0]
             /\ UNCHANGED <<handler, subject, closure>>

-----------------------------------------------------------------------------
(* The user *)

Quiet == patient => Vacant = Slots
NextSlot == CHOOSE s \in Vacant : \A t \in Vacant : s <= t
Behind == ui.open = {} /\ ui.panel = "closed"   \* a dialog covers what is behind it

Place(h) == Page.buttons[h][1]

\* Fault: the button is not disabled while its flag is on.
NeverLocked(h) == FALSE

Locked(h) == Page.buttons[h][2] \in ui.busy

\* What handler h may be about: a row, or what the panel is open for.
Subjects(h) ==
    CASE Place(h) = "row" -> IF Panel("row") \in ToSet(Page.does[h].steps)
                             THEN Entities ELSE {"none"}
      [] Place(h) \in {"panel", "detail"} -> {ui.panel} \ {"closed"}
      [] OTHER -> {"none"}

\* The button of handler h is there to be clicked.
Clickable(h) ==
    /\ ~ui.gone /\ ~Locked(h)
    /\ CASE Place(h) = "header" -> Behind
         [] Place(h) = "row" -> Behind /\ ui.rows # 0
         [] Place(h) = "panel" -> ui.open = {}
         [] Place(h) = "detail" -> ui.open = {} /\ ui.shown # "nothing"
         [] OTHER -> Place(h) \in ui.open /\ ("htmlImport" \in ui.open => Place(h) = "htmlImport")

Click(h, e) ==
    /\ Quiet /\ Vacant # {} /\ Clickable(h)
    /\ LET b == Page.does[h]
           j == NextAsk(b.steps, 0)
           u == RunTo([ui EXCEPT !.busy = @ \union ({b.flag} \ {"none"})], b, 0, j, e)
           s == NextSlot
       IN  /\ written' = (written \ {Place(h)}) \intersect ui.open \intersect u.open
           /\ IF j > Len(b.steps)
              THEN ui' = [u EXCEPT !.busy = @ \ {b.flag}] /\ UNCHANGED wslots
              ELSE /\ ui' = u
                   /\ handler' = [handler EXCEPT ![s] = h] /\ at' = [at EXCEPT ![s] = j]
                   /\ subject' = [subject EXCEPT ![s] = e]
                   /\ closure' = [closure EXCEPT ![s] = view]
                   /\ UNCHANGED <<answer, got>>
    /\ failed' = FALSE
    /\ UNCHANGED <<page, patient, view, version>>

\* The effect runs load() again, made for the new view.
ChangeView ==
    /\ Page.onView # "none" /\ Quiet /\ Vacant # {} /\ Behind /\ ~ui.gone
    /\ view' = 1 - view
    /\ handler' = [handler EXCEPT ![NextSlot] = Page.onView]
    /\ closure' = [closure EXCEPT ![NextSlot] = 1 - view]
    /\ failed' = FALSE
    /\ UNCHANGED <<page, patient, version, ui, at, subject, answer, got, written>>

CloseDialog(d) ==
    /\ Quiet /\ d \in ui.open
    /\ ui' = [ui EXCEPT !.open = @ \ {d}] /\ written' = written \ {d}
    /\ UNCHANGED <<page, patient, view, version, wslots, failed>>

ClosePanel ==
    /\ Quiet /\ ui.open = {} /\ ui.panel # "closed"
    /\ ui' = [ui EXCEPT !.panel = "closed", !.shown = IF Page.clears THEN "nothing" ELSE @]
    /\ UNCHANGED <<page, patient, view, version, wslots, whistory>>

-----------------------------------------------------------------------------
(* The API, and its answers *)

\* The API carries out a write, or reads the rows; the answer is on its way.
Serve(s) ==
    /\ handler[s] # "none" /\ answer[s] = "waiting"
    /\ \/ Call(s) = "write" /\ version <= MaxWrites /\ version' = version + 1 /\ UNCHANGED got
       \/ Call(s) = "load" /\ got' = [got EXCEPT ![s] = version] /\ UNCHANGED version
    /\ answer' = [answer EXCEPT ![s] = "ok"]
    /\ UNCHANGED <<page, patient, view, ui, handler, at, subject, closure, whistory>>

Succeeds(s) ==
    /\ handler[s] # "none"
    /\ answer[s] = "ok" \/ Call(s) \notin {"write", "load"}
    /\ GoOn(s, CASE Call(s) = "load" -> [ui EXCEPT !.rows = got[s], !.of = closure[s],
                                                   !.error = @ \ {"page"}]
                 [] Call(s) = "loadDetail" -> [ui EXCEPT !.shown = subject[s],
                                                         !.error = @ \ {"panel"}]
                 [] Call(s) = "loadReport" -> [ui EXCEPT !.error = @ \ {"page"}]
                 [] OTHER -> ui, at[s])
    /\ written' = (IF Call(s) \in Writes THEN written \union {Place(handler[s])} ELSE written)
                  \intersect ui'.open
    /\ UNCHANGED <<page, patient, view, version, failed>>

\* Refused, or carried out and the answer lost.
Fails(s) ==
    /\ handler[s] # "none" /\ failed' = TRUE
    /\ IF Call(s) \in Loads
       THEN GoOn(s, [ui EXCEPT !.error = @ \union
                        {IF Call(s) = "loadDetail" THEN "panel" ELSE "page"}], at[s])
       ELSE /\ Becomes(s, "none")
            /\ ui' = [ui EXCEPT !.error = @ \union ({Body(s).catch} \ {"nobody"}),
                                !.busy = @ \ {Body(s).flag}]
    /\ written' = written \intersect ui'.open
    /\ UNCHANGED <<page, patient, view, version>>

WebNext ==
    \/ \E h \in DOMAIN Page.does : \E e \in Subjects(h) : Click(h, e)
    \/ ChangeView
    \/ \E d \in ui.open : CloseDialog(d)
    \/ ClosePanel
    \/ \E s \in Slots : Serve(s) \/ Succeeds(s) \/ Fails(s)

WebSpec == WebInit /\ [][WebNext]_wvars

-----------------------------------------------------------------------------
(* Properties *)

Flags == {"saving", "listSaving", "uploadingMedia", "settingsSaving", "relaunching",
          "brandingSaving", "busy"}
AtRest == patient /\ Vacant = Slots /\ ~ui.gone

\* The page and its slots have the shape the code gives them.
WebTypeOK ==
    /\ page \in DOMAIN Pages /\ view \in {0, 1} /\ version \in 1 .. MaxWrites + 1
    /\ ui.rows \in 0 .. version /\ ui.error \subseteq {"page", "panel"}
    /\ ui.busy \subseteq Flags /\ written \subseteq ui.open
    /\ \A s \in Slots \ Vacant :
        at[s] \in 1 .. Len(Steps(s)) /\ got[s] <= version
        /\ subject[s] \in Entities \union {"new", "none"}

\* However the user clicks and whatever fails, a flag is on just while the one handler that set
\* it is under way: no form is submitted twice, what the flagged buttons of one panel write does
\* not overlap, and no button stays disabled.
OneAtATime == \A f \in Flags :
    LET running == {s \in Slots \ Vacant : Body(s).flag = f}
    IN  Cardinality(running) <= 1 /\ (f \in ui.busy <=> running # {})

\* When nothing is under way, the page shows the rows of its search and page as the database
\* has them, or says that something failed.  (Not so on the four pages that are left out.)
RowsAreTrue == AtRest /\ page \notin {"Lists", "Credits", "Campaigns", "Organizations"} =>
    \/ ui.error # {}
    \/ ui.rows = version /\ (Page.onView = "load" => ui.of = view)

\* When the last thing the user asked for failed, the page says so.  (Not so on the five pages
\* that are left out: some of their handlers catch nothing, or go on after a failed load.)
FailureIsSaid ==
    AtRest /\ failed /\ page \notin {"Contacts", "Lists", "Credits", "Campaigns", "Templates"} =>
        ui.error # {}

\* A dialog that is still open has not written anything yet, so that submitting it again after
\* a failure writes nothing twice; only a list made from a selection of contacts may have been.
FormsAreUnsaved == AtRest => ui.open \intersect written \subseteq {"createList"}

\* The dialog of an organization never offers the values of another one to save.
DetailIsItsOwn == patient /\ page = "Organizations" => ui.shown \in {"nothing", ui.panel}

\* Handlers that overlap on a page neither submit twice nor show one organization's values
\* under another's name.
PageInv == WebTypeOK /\ OneAtATime /\ DetailIsItsOwn

\* When everything has been answered, what the page shows, reports and still offers to save
\* agrees with what the API did.
PageIsTrue == RowsAreTrue /\ FailureIsSaid /\ FormsAreUnsaved
=============================================================================
