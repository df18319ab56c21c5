----------------------------- MODULE ContactBook -----------------------------
(***************************************************************************)
(* The contacts of one organization and one of its lists: ContactsService    *)
(* with its CSV import, row by row, and ListsService.  A statement of the    *)
(* database is a step, and requests overlap as they like.                    *)
(*                                                                          *)
(* clear is an environment assumption, fixed for a behaviour: while an       *)
(* import runs nothing else is asked for, and no statement fails.           *)
(***************************************************************************)
EXTENDS Naturals, Sequences, FiniteSets

CONSTANTS
    Contacts, NoContact,    \* contacts there may ever be
    Phones,                 \* phone numbers, each in the form the database keeps
    BookRequests,           \* requests that may be under way at a time
    MaxRows,                \* bound on the rows of an imported file
    BookModes               \* the values of clear to explore

ASSUME ContactBookAssumption ==
    /\ IsFiniteSet(Contacts) /\ NoContact \notin Contacts
    /\ MaxRows \in Nat /\ BookModes \subseteq BOOLEAN
    /\ "unborn" \notin Phones /\ "gone" \notin Phones

VARIABLES
    clear,      \* the assumption above
    phone,      \* the number of each contact: unborn before it exists, gone afterwards
    optedOut,   \* contacts whose isOptedOut is set
    list,       \* does the list exist?
    members,    \* its ListMember rows
    bstep,      \* the step of each request
    subject,    \* the contact it is about
    number,     \* the number it writes
    targets,    \* the contacts it adds
    file,       \* the rows of its file that are left, as they are spelled
    total,      \* summary.totalRows
    summary,    \* <<created, updated, skipped>>
    made,       \* history: the contacts its import has created
    invalid     \* history: how many of its rows so far had no valid number

book == <<phone, optedOut, list, members>>
import == <<file, total, summary, made, invalid>>
blocals == <<subject, number, targets, import>>
bvars == <<clear, book, bstep, blocals>>

NoNumber == "none"
Saved == {c \in Contacts : phone[c] \in Phones}
Holding(n) == {c \in Saved : phone[c] = n}
Count(i, s) == [s EXCEPT ![i] = @ + 1]

\* A spelled number: with a country code, without, or with one and blanks in between, which
\* no pattern accepts afterwards; or no number at all.
Spelled == ({"plus", "local", "blanks"} \X Phones) \union {<<"missing", NoNumber>>}
normalizePhoneNumber(raw) == IF raw[1] \in {"plus", "local"} THEN raw[2] ELSE NoNumber
isValidPhoneNumber(n) == n # NoNumber

BookInit ==
    /\ clear \in BookModes
    /\ phone = [c \in Contacts |-> "unborn"] /\ optedOut = {}
    /\ list = TRUE /\ members = {}
    /\ bstep = [r \in BookRequests |-> "idle"]
    /\ subject = [r \in BookRequests |-> NoContact]
    /\ number = [r \in BookRequests |-> NoNumber]
    /\ targets = [r \in BookRequests |-> {}]
    /\ file = [r \in BookRequests |-> <<>>] /\ total = [r \in BookRequests |-> 0]
    /\ summary = [r \in BookRequests |-> <<0, 0, 0>>]
    /\ made = [r \in BookRequests |-> {}] /\ invalid = [r \in BookRequests |-> 0]

Importing(r) == bstep[r] \in {"row", "updateRow", "addRow"}
BookAsks(r, step) ==
    /\ bstep[r] = "idle"
    /\ clear => \A q \in BookRequests :
                    ~Importing(q) /\ (step = "row" => bstep[q] = "idle")
    /\ bstep' = [bstep EXCEPT ![r] = step]
    /\ UNCHANGED <<clear, book>>
BGoesOn(r, step) == bstep' = [bstep EXCEPT ![r] = step] /\ UNCHANGED clear
BEnds(r) ==
    /\ BGoesOn(r, "idle")
    /\ subject' = [subject EXCEPT ![r] = NoContact]
    /\ number' = [number EXCEPT ![r] = NoNumber]
    /\ targets' = [targets EXCEPT ![r] = {}]
    /\ file' = [file EXCEPT ![r] = <<>>] /\ total' = [total EXCEPT ![r] = 0]
    /\ summary' = [summary EXCEPT ![r] = <<0, 0, 0>>]
    /\ made' = [made EXCEPT ![r] = {}] /\ invalid' = [invalid EXCEPT ![r] = 0]

-----------------------------------------------------------------------------
(* Single contacts *)

\* POST /contacts: the number passes the DTO in its normalized form.
createContact(r) == \E n \in Phones :
    /\ BookAsks(r, "findPhone")
    /\ number' = [number EXCEPT ![r] = n] /\ UNCHANGED <<subject, targets, import>>

findPhone(r) ==
    /\ bstep[r] = "findPhone"
    /\ IF Holding(number[r]) # {} THEN BEnds(r)
       ELSE BGoesOn(r, "insertContact") /\ UNCHANGED blocals
    /\ UNCHANGED book

\* A new row, unless the unique key refuses it.
Insert(c, n) ==
    /\ phone[c] = "unborn" /\ Holding(n) = {}
    /\ phone' = [phone EXCEPT ![c] = n]

insertContact(r) ==
    /\ bstep[r] = "insertContact"
    /\ \/ (\E c \in Contacts : Insert(c, number[r])) /\ UNCHANGED <<optedOut, list, members>>
       \/ Holding(number[r]) # {} /\ UNCHANGED book
    /\ BEnds(r)

\* PATCH, DELETE and the two opt-out routes begin with findOne.
changeContact(r) == \E c \in Contacts, step \in {"edit", "delete", "optOut", "optIn"},
                       n \in Phones \union {NoNumber} :
    /\ phone[c] # "unborn" /\ (step # "edit" => n = NoNumber)
    /\ BookAsks(r, "found")
    /\ subject' = [subject EXCEPT ![r] = c]
    /\ number' = [number EXCEPT ![r] = IF step = "edit" THEN n ELSE step]
    /\ UNCHANGED <<targets, import>>

findContact(r) ==
    /\ bstep[r] = "found"
    /\ IF subject[r] \notin Saved THEN BEnds(r)
       ELSE /\ BGoesOn(r, IF number[r] \in {"delete", "optOut", "optIn"}
                          THEN number[r] ELSE "edit")
            /\ UNCHANGED blocals
    /\ UNCHANGED book

\* A row that is gone, or a number another contact has, makes the statement throw.
editContact(r) ==
    /\ bstep[r] = "edit"
    /\ LET c == subject[r]
       IN  IF c \in Saved /\ number[r] # NoNumber /\ Holding(number[r]) \subseteq {c}
           THEN phone' = [phone EXCEPT ![c] = number[r]] ELSE UNCHANGED phone
    /\ BEnds(r)
    /\ UNCHANGED <<optedOut, list, members>>

\* Memberships go with the contact; a campaign's recipient keeps it from going.
deleteContact(r) ==
    /\ bstep[r] = "delete"
    /\ \/ /\ phone' = [phone EXCEPT ![subject[r]] = "gone"]
          /\ optedOut' = optedOut \ {subject[r]}
          /\ members' = members \ {subject[r]}
       \/ UNCHANGED <<phone, optedOut, members>>
    /\ BEnds(r)
    /\ UNCHANGED list

setOptedOut(r) ==
    /\ bstep[r] \in {"optOut", "optIn"}
    /\ LET c == subject[r]
       IN  optedOut' = IF c \in Saved /\ bstep[r] = "optOut" THEN optedOut \union {c}
                       ELSE optedOut \ {c}
    /\ BEnds(r)
    /\ UNCHANGED <<phone, list, members>>

-----------------------------------------------------------------------------
(* POST /contacts/import: one row after the other *)

importCsv(r) == \E n \in 1 .. MaxRows : \E lines \in [1 .. n -> Spelled] :
    /\ BookAsks(r, "row")
    /\ file' = [file EXCEPT ![r] = lines] /\ total' = [total EXCEPT ![r] = n]
    /\ UNCHANGED <<subject, number, targets, summary, made, invalid>>

\* The row is done: it counts under i, and the next one comes.
RowDone(r, i) ==
    /\ BGoesOn(r, "row")
    /\ file' = [file EXCEPT ![r] = Tail(@)]
    /\ summary' = [summary EXCEPT ![r] = Count(i, @)]
    /\ UNCHANGED <<subject, number, targets, total>>

\* What importRow does with a row whose number is n, found being who has it.
TreatRow(r, n, found) ==
    IF ~isValidPhoneNumber(n)
    THEN RowDone(r, 3) /\ invalid' = [invalid EXCEPT ![r] = @ + 1] /\ UNCHANGED made
    ELSE /\ number' = [number EXCEPT ![r] = n]
         /\ \/ found = {} /\ BGoesOn(r, "addRow") /\ UNCHANGED subject
            \/ \E c \in found :
                 BGoesOn(r, "updateRow") /\ subject' = [subject EXCEPT ![r] = c]
         /\ UNCHANGED <<targets, file, total, summary, made, invalid>>

importRow(r) ==
    /\ bstep[r] = "row" /\ file[r] # <<>>
    /\ LET n == normalizePhoneNumber(Head(file[r])) IN TreatRow(r, n, Holding(n))
    /\ UNCHANGED book

\* Fault: the import writes every column of the row it finds.
overwriteRow(r) ==
    /\ bstep[r] = "updateRow"
    /\ optedOut' = optedOut \ {subject[r]}
    /\ RowDone(r, IF subject[r] \in Saved THEN 2 ELSE 3)
    /\ UNCHANGED <<phone, list, members, made, invalid>>

\* The name, notes and source are written, the opt-out is not; the row may be gone.
updateRow(r) ==
    /\ bstep[r] = "updateRow"
    /\ RowDone(r, IF subject[r] \in Saved THEN 2 ELSE 3)
    /\ UNCHANGED <<book, made, invalid>>

\* Fault: the row is counted before it is written.
countFirst(r) ==
    /\ bstep[r] = "addRow"
    /\ \/ /\ \E c \in Contacts : Insert(c, number[r]) /\ made' = [made EXCEPT ![r] = @ \union {c}]
          /\ UNCHANGED <<optedOut, list, members>>
       \/ Holding(number[r]) # {} /\ UNCHANGED <<book, made>>
    /\ RowDone(r, 1) /\ UNCHANGED invalid

addRow(r) ==
    /\ bstep[r] = "addRow"
    /\ \/ /\ \E c \in Contacts :
                Insert(c, number[r]) /\ made' = [made EXCEPT ![r] = @ \union {c}]
          /\ RowDone(r, 1) /\ UNCHANGED <<optedOut, list, members, invalid>>
       \/ Holding(number[r]) # {} /\ RowDone(r, 3) /\ UNCHANGED <<book, made, invalid>>

\* A statement fails.  A single request is answered with an error; importCsv catches whatever
\* a row throws and takes the row for skipped, the one whose number it was about to look up too.
HasNumber(r) ==
    bstep[r] = "row" /\ file[r] # <<>> /\ isValidPhoneNumber(normalizePhoneNumber(Head(file[r])))
statementFails(r) ==
    /\ ~clear
    /\ \/ ~Importing(r) /\ bstep[r] # "idle" /\ BEnds(r)
       \/ /\ bstep[r] \in {"updateRow", "addRow"} \/ HasNumber(r)
          /\ RowDone(r, 3) /\ UNCHANGED <<made, invalid>>
    /\ UNCHANGED book

reportImport(r) == bstep[r] = "row" /\ file[r] = <<>> /\ BEnds(r) /\ UNCHANGED book

-----------------------------------------------------------------------------
(* The list.  createMany with skipDuplicates also skips what a foreign key refuses. *)

addMembers(r) == \E S \in SUBSET {c \in Contacts : phone[c] # "unborn"} :
    /\ S # {} /\ list /\ BookAsks(r, "members")
    /\ targets' = [targets EXCEPT ![r] = S] /\ UNCHANGED <<subject, number, import>>

insertMembers(r) ==
    /\ bstep[r] = "members"
    /\ members' = members \union (IF list THEN targets[r] \intersect Saved ELSE {})
    /\ BEnds(r)
    /\ UNCHANGED <<phone, optedOut, list>>

removeMember == \E c \in members :
    /\ members' = members \ {c} /\ UNCHANGED <<clear, phone, optedOut, list, bstep, blocals>>

removeList ==
    /\ list /\ list' = FALSE /\ members' = {}
    /\ UNCHANGED <<clear, phone, optedOut, bstep, blocals>>

BookNext ==
    \/ \E r \in BookRequests :
        \/ createContact(r) \/ findPhone(r) \/ insertContact(r)
        \/ changeContact(r) \/ findContact(r) \/ editContact(r) \/ deleteContact(r)
        \/ setOptedOut(r)
        \/ importCsv(r) \/ importRow(r) \/ updateRow(r) \/ addRow(r) \/ statementFails(r)
        \/ reportImport(r)
        \/ addMembers(r) \/ insertMembers(r)
    \/ removeMember \/ removeList

BookSpec == BookInit /\ [][BookNext]_bvars
-----------------------------------------------------------------------------
(* Properties *)

\* Rows and requests have the shape the code gives them; a member is a contact of a list that
\* exists.
BookTypeOK ==
    /\ clear \in BOOLEAN /\ list \in BOOLEAN
    /\ phone \in [Contacts -> Phones \union {"unborn", "gone"}]
    /\ optedOut \subseteq Saved /\ members \subseteq Saved /\ (~list => members = {})
    /\ \A r \in BookRequests :
        /\ subject[r] \in Contacts \union {NoContact} /\ targets[r] \subseteq Contacts
        /\ Len(file[r]) <= total[r] /\ total[r] \in 0 .. MaxRows
        /\ made[r] \subseteq Contacts /\ invalid[r] \in 0 .. MaxRows

\* The summary of an import accounts for each row once, and "created" for the contacts that
\* this import created and nobody else, although rows repeat a number, others create, edit
\* and delete the same contacts meanwhile, and statements throw.
ImportAddsUp == \A r \in BookRequests : Importing(r) =>
    /\ summary[r][1] + summary[r][2] + summary[r][3] + Len(file[r]) = total[r]
    /\ summary[r][1] = Cardinality(made[r])

\* While nothing else is asked for and no statement fails, no valid row is skipped, also when the file spells a
\* number in several ways or has it twice.
ImportLands == clear => \A r \in BookRequests : Importing(r) => summary[r][3] = invalid[r]

\* A contact that opted out stays opted out until it is deleted or somebody opts it in: no
\* edit and no import of its number takes the opt-out back (contacts.service.ts, importRow).
OptOutSticks ==
    [][\A c \in optedOut : c \in optedOut' \/ phone'[c] = "gone"
            \/ \E r \in BookRequests : bstep[r] = "optIn" /\ subject[r] = c]_bvars

\* The summary of an import agrees with the contacts it left, and memberships with contacts.
BookInv == BookTypeOK /\ ImportAddsUp /\ ImportLands
=============================================================================
