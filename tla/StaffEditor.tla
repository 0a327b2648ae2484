------------------------------ MODULE StaffEditor ------------------------------
(***************************************************************************)
(* The staff's pages of plans and of roles: a table, and a modal in which  *)
(* one row is edited as a whole form or a new one is made.  The modal can  *)
(* be closed while its save is under way, and another opened; the save     *)
(* that lands then closes whichever modal is open.                         *)
(*                                                                         *)
(*   sheet       "plans" or "roles"                                        *)
(*   held        the rows of the API, each with its code and its form      *)
(*   table       plans or roles of the component                           *)
(*   runs        the runs of refresh under way, with the rows the API      *)
(*               answered                                                  *)
(*   modal       the modal: its kind, its row, the form, whether it is     *)
(*               busy, and which opening of a modal it is                  *)
(*   saves       the submits under way, with the opening they come from    *)
(*   deleting    the deletions under way                                   *)
(*                                                                         *)
(* A call is "sent", and "taken" once the API has done it.  A form is the  *)
(* part of a row that can be edited: the prices and limits of a plan, or   *)
(* the permissions of a role besides admin.access.                         *)
(***************************************************************************)
EXTENDS Naturals, FiniteSets

CONSTANTS Rows,      \* the ids the API hands out
          System,    \* the system roles among them
          Codes, Forms,
          EmptyForm, \* of a new plan or role
          BadForms,  \* those submit refuses: a negative price, no site
          MaxOpened, \* bound on the openings of a modal
          MaxBegun   \* bound on the refreshes, and on the saves, under way

EditorAssumption ==
    /\ System \subseteq Rows /\ 0 \notin Rows
    /\ EmptyForm \in Forms
    /\ MaxOpened \in Nat /\ MaxBegun \in Nat \ {0}

VARIABLES
    sheet, held, table, tableLoading, runs, modal, opened, saves, deleting,
    tableSound,  \* history: the refresh that brought the table ran alone, the one after it
                 \* has not failed, and since the API's read no row has been written
                 \* elsewhere, or by a call whose answer was lost
    modalSound,  \* history: that was so, with nothing under way, when the modal was
                 \* filled, and its row has not been written since
    edited       \* history: the user changed the form of the modal

tableVars == <<table, tableLoading, runs, tableSound>>
modalVars == <<modal, opened, modalSound, edited>>
editorVars == <<sheet, held, tableVars, modalVars, saves, deleting>>

NoRow == [code |-> "none"]
Row == [code : Codes, form : Forms]
Table == [Rows -> Row \cup {NoRow}]
EmptyTable == [r \in Rows |-> NoRow]
NoModal == [kind |-> "none", row |-> 0]
Modal == [kind : {"create", "edit", "view"}, row : Rows \cup {0}, code : Codes, form : Forms,
          busy : BOOLEAN, opening : 1 .. MaxOpened]
Save == [opening : 1 .. MaxOpened, row : Rows \cup {0}, code : Codes, form : Forms,
         at : {"sent", "taken"}, sound : BOOLEAN, edited : BOOLEAN]
Slots == 1 .. MaxBegun
Run == [at : {"none", "sent", "answered"}, rows : Table, sound : BOOLEAN]
NoRun == [at |-> "none", rows |-> EmptyTable, sound |-> FALSE]
BegunRun == [at |-> "sent", rows |-> EmptyTable, sound |-> TRUE]

EditorTypeOK ==
    /\ sheet \in {"plans", "roles"}
    /\ held \in Table /\ table \in Table
    /\ tableLoading \in BOOLEAN /\ runs \in [Slots -> Run]
    /\ modal \in Modal \cup {NoModal} /\ opened \in 0 .. MaxOpened
    /\ saves \subseteq Save
    /\ deleting \in [Rows -> {"no", "sent", "taken"}]
    /\ tableSound \in BOOLEAN /\ modalSound \in BOOLEAN /\ edited \in BOOLEAN

EditorInit ==
    /\ sheet \in {"plans", "roles"}
    /\ held \in Table
    /\ \A r, s \in Rows : r # s /\ held[r] # NoRow => held[r].code # held[s].code
    /\ \A r \in Rows : held[r] # NoRow => held[r].form \notin BadForms
    /\ \A r \in System : held[r] # NoRow
    /\ table = EmptyTable /\ tableLoading = TRUE
    /\ runs = [n \in Slots |-> IF n = 1 THEN BegunRun ELSE NoRun]
    /\ modal = NoModal /\ opened = 0 /\ edited = FALSE
    /\ saves = {} /\ deleting = [r \in Rows |-> "no"]
    /\ tableSound = FALSE /\ modalSound = FALSE

-----------------------------------------------------------------------------
(* The table.                                                              *)

UnderWay == {n \in Slots : runs[n].at # "none"}

\* refresh, up to its await, while others may be under way.
refresh ==
    /\ \E n \in Slots \ UnderWay :
          /\ \A m \in 1 .. n - 1 : m \in UnderWay
          /\ runs' = [m \in Slots |-> IF m = n THEN BegunRun
                                      ELSE IF m \in UnderWay THEN [runs[m] EXCEPT !.sound = FALSE]
                                      ELSE runs[m]]
    /\ tableLoading' = TRUE

\* ListPlans or ListRoles: the API reads the rows.
GetRows(n) ==
    /\ runs[n].at = "sent"
    /\ runs' = [runs EXCEPT ![n].at = "answered", ![n].rows = held]
    /\ UNCHANGED <<sheet, held, table, tableLoading, tableSound, modalVars, saves, deleting>>

RefreshEnds(n) ==
    /\ runs' = [runs EXCEPT ![n] = NoRun]
    /\ tableLoading' = FALSE
    /\ UNCHANGED <<sheet, held, modalVars, saves, deleting>>

\* The rows arrive, whichever run they are of.
TableLands(n) ==
    /\ runs[n].at = "answered"
    /\ table' = runs[n].rows /\ tableSound' = runs[n].sound
    /\ RefreshEnds(n)

\* A refresh that fails leaves the table it had.  The page of roles asks for the catalog
\* of permissions too; either failure fails both.
RefreshFails(n) ==
    /\ n \in UnderWay
    /\ tableSound' = FALSE
    /\ RefreshEnds(n)
    /\ UNCHANGED table

-----------------------------------------------------------------------------
(* The modal.                                                              *)

Taken == {s \in saves : s.at = "taken"}

\* The page has heard of all it has done.
Settled == UnderWay = {} /\ Taken = {} /\ \A r \in Rows : deleting[r] # "taken"

Open(m) ==
    /\ modal = NoModal /\ opened < MaxOpened
    /\ opened' = opened + 1
    /\ modal' = m
    /\ modalSound' = (tableSound /\ Settled /\ m.row # 0)
    /\ edited' = FALSE
    /\ UNCHANGED <<sheet, held, tableVars, saves, deleting>>

\* New plan and New role, which a loading table does not hide.
OpenCreate ==
    \E c \in Codes :
        Open([kind |-> "create", row |-> 0, code |-> c, form |-> EmptyForm, busy |-> FALSE,
              opening |-> opened + 1])

Shown(r) == ~tableLoading /\ table[r] # NoRow

\* Edit, with the row of the table.
OpenEdit(r) ==
    /\ Shown(r) /\ (sheet = "roles" => r \notin System)
    /\ Open([kind |-> "edit", row |-> r, code |-> table[r].code, form |-> table[r].form,
             busy |-> FALSE, opening |-> opened + 1])

\* View, of a system role.
OpenView(r) ==
    /\ sheet = "roles" /\ Shown(r) /\ r \in System
    /\ Open([kind |-> "view", row |-> r, code |-> table[r].code, form |-> table[r].form,
             busy |-> FALSE, opening |-> opened + 1])

\* No modal is open any more.
Closed == modal' = NoModal /\ modalSound' = FALSE /\ edited' = FALSE

\* Escape, or a click beside the dialog; Cancel only while it is not busy.
CloseModal ==
    /\ modal # NoModal /\ Closed
    /\ UNCHANGED <<sheet, held, tableVars, opened, saves, deleting>>

\* The fields of a plan, or the toggles of a role's permissions.
ChangeForm(f) ==
    /\ modal.kind \in {"create", "edit"} /\ modal.form # f
    /\ modal' = [modal EXCEPT !.form = f]
    /\ edited' = TRUE
    /\ UNCHANGED <<sheet, held, tableVars, opened, modalSound, saves, deleting>>

\* submit of a plan checks code, name, prices and sites.
PlanValid == modal.form \notin BadForms

\* submit of a role checks code, name and admin.access, which no toggle takes away.
RoleValid == modal.kind # "view"

submit ==
    /\ modal.kind \in {"create", "edit"} /\ ~modal.busy
    /\ IF sheet = "plans" THEN PlanValid ELSE RoleValid
    /\ Cardinality(saves) < MaxBegun
    /\ modal' = [modal EXCEPT !.busy = TRUE]
    /\ saves' = saves \cup {[opening |-> modal.opening, row |-> modal.row, code |-> modal.code,
                             form |-> modal.form, at |-> "sent", sound |-> modalSound,
                             edited |-> edited]}
    /\ UNCHANGED <<sheet, held, tableVars, opened, modalSound, edited, deleting>>

-----------------------------------------------------------------------------
(* The calls.                                                              *)

\* Row r is written: the modal and the saves that hold it hold an older one.
Written(r, S) ==
    /\ modalSound' = (modalSound /\ modal.row # r)
    /\ saves' = {[s EXCEPT !.sound = @ /\ s.row # r] : s \in S}

\* A row may have been written without a word to this page.
Unheard ==
    /\ tableSound' = FALSE
    /\ runs' = [n \in Slots |-> IF runs[n].at = "answered"
                                THEN [runs[n] EXCEPT !.sound = FALSE] ELSE runs[n]]

\* The API makes a row, unless its code is taken, or writes the form of one.
TakeSave(s) ==
    /\ s.at = "sent"
    /\ \E r \in Rows :
          /\ \/ /\ s.row = 0 /\ held[r] = NoRow
                /\ \A q \in Rows : held[q] = NoRow \/ held[q].code # s.code
                /\ held' = [held EXCEPT ![r] = [code |-> s.code, form |-> s.form]]
             \/ /\ s.row = r /\ held[r] # NoRow
                /\ held' = [held EXCEPT ![r].form = s.form]
          /\ Written(r, (saves \ {s}) \cup {[s EXCEPT !.at = "taken"]})
    /\ UNCHANGED <<sheet, tableVars, modal, opened, edited, deleting>>

\* A bug: the table is not read again after a save.
SaveLandsQuietly(s) ==
    /\ s.at = "taken"
    /\ saves' = saves \ {s}
    /\ Closed
    /\ UNCHANGED <<sheet, held, tableVars, opened, deleting>>

\* onSaved: whichever modal is open is closed, and the table is read again.
SaveLands(s) ==
    /\ s.at = "taken"
    /\ saves' = saves \ {s}
    /\ Closed /\ refresh
    /\ UNCHANGED <<sheet, held, table, tableSound, opened, deleting>>

\* The modal a save came from, if it is still open, is busy no longer.
Unbusy(s) == IF modal # NoModal /\ modal.opening = s.opening
             THEN [modal EXCEPT !.busy = FALSE] ELSE modal

\* The save fails, or its answer is lost: the modal stays.
SaveFails(s) ==
    /\ saves' = saves \ {s}
    /\ modal' = Unbusy(s)
    /\ IF s.at = "taken" THEN Unheard ELSE UNCHANGED <<runs, tableSound>>
    /\ UNCHANGED <<sheet, held, table, tableLoading, opened, modalSound, edited, deleting>>

\* Delete of a role that is not the system's, confirmed.  A second call for the same role,
\* which finds nothing, is left out.
handleDelete(r) ==
    /\ sheet = "roles" /\ modal = NoModal /\ Shown(r) /\ r \notin System
    /\ deleting[r] = "no"
    /\ deleting' = [deleting EXCEPT ![r] = "sent"]
    /\ UNCHANGED <<sheet, held, tableVars, modalVars, saves>>

\* The API deletes the role.
TakeDelete(r) ==
    /\ deleting[r] = "sent" /\ held[r] # NoRow
    /\ held' = [held EXCEPT ![r] = NoRow]
    /\ deleting' = [deleting EXCEPT ![r] = "taken"]
    /\ Written(r, saves)
    /\ UNCHANGED <<sheet, tableVars, modal, opened, edited>>

\* The table is read again.
DeleteLands(r) ==
    /\ deleting[r] = "taken"
    /\ deleting' = [deleting EXCEPT ![r] = "no"]
    /\ refresh
    /\ UNCHANGED <<sheet, held, table, tableSound, modalVars, saves>>

\* The deletion is refused, or its answer is lost: the table stays.
DeleteFails(r) ==
    /\ deleting[r] # "no"
    /\ deleting' = [deleting EXCEPT ![r] = "no"]
    /\ IF deleting[r] = "taken" THEN Unheard ELSE UNCHANGED <<runs, tableSound>>
    /\ UNCHANGED <<sheet, held, table, tableLoading, modalVars, saves>>

\* Someone else writes a row.
OtherWrites(r, f) ==
    /\ held[r] # NoRow /\ held[r].form # f /\ f \notin BadForms
    /\ held' = [held EXCEPT ![r].form = f]
    /\ Written(r, saves) /\ Unheard
    /\ UNCHANGED <<sheet, table, tableLoading, modal, opened, edited, deleting>>

EditorNext ==
    \/ \E n \in Slots : GetRows(n) \/ TableLands(n) \/ RefreshFails(n)
    \/ OpenCreate \/ CloseModal \/ submit
    \/ \E r \in Rows : OpenEdit(r) \/ OpenView(r)
    \/ \E r \in Rows : handleDelete(r) \/ TakeDelete(r) \/ DeleteLands(r) \/ DeleteFails(r)
    \/ \E f \in Forms : ChangeForm(f) \/ \E r \in Rows : OtherWrites(r, f)
    \/ \E s \in saves : TakeSave(s) \/ SaveLands(s) \/ SaveFails(s)

-----------------------------------------------------------------------------
(* Once the page has heard of all it has done, the table is the API's, the *)
(* page's own saves and deletions in it: unless someone else wrote a row,  *)
(* an answer was lost, a refresh failed, or two refreshes overlapped and   *)
(* landed in some order.  And a save whose user changed nothing leaves the *)
(* row as it is, unless the table it was filled from was not that, or the  *)
(* row was written after the modal was filled.                             *)
EditorKeepsRows ==
    /\ Settled /\ tableSound => table = held
    /\ \A s \in saves : s.at = "sent" /\ s.row # 0 /\ s.sound /\ ~s.edited =>
          held[s.row] # NoRow /\ held[s.row].form = s.form

(* An open modal is busy only while its save is under way, and the table   *)
(* says it loads only while a refresh is.                                  *)
EditorSpinnerHasCause ==
    /\ tableLoading => UnderWay # {}
    /\ modal # NoModal /\ modal.kind # "view" =>
          (modal.busy => \E s \in saves : s.opening = modal.opening)
=============================================================================
