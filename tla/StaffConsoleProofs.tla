-------------------------- MODULE StaffConsoleProofs --------------------------
(***************************************************************************)
(* Theorems about StaffConsole, for any users, rows, forms and numbers of  *)
(* requests.  One page is open, so each page has its own invariant, and    *)
(* the console's is that of the page that is open.                         *)
(***************************************************************************)
EXTENDS StaffConsole, FiniteSetTheorems, TLAPS

-----------------------------------------------------------------------------
(* The page of a user.                                                     *)

\* What a save under way has sent is a form, which stays open.
SentIsForm == at = "called" /\ doing = "edit" => sent \in User!EditForm /\ editing # User!NoForm

\* What a form takes of two copies is the same.
Agree(a, b) == a.name = b.name /\ a.role = b.role

\* The page's copy agrees with the account, or is being read again.
CopyFollows ==
    user # User!NoUser /\ ~userStale =>
        Agree(user, account) \/ (doing = "edit" /\ at \in {"refreshing", "answered"})

\* So does the reply, and a refresh covers the page.
ReplyFollows ==
    /\ at \in {"refreshing", "answered"} => userLoading
    /\ at = "answered" => reply \in User!Account /\ (replyStale \/ Agree(reply, account))
    /\ at # "answered" => ~replyStale

\* The form differs from the account where the user changed it.
FormFollows ==
    editing # User!NoForm /\ ~formStale =>
        \A f \in {"name", "role"} : editing[f] # account[f] => f \in touched

UserInv ==
    /\ User!UserTypeOK /\ User!UserSpinnerHasCause /\ User!NothingUndone
    /\ SentIsForm /\ CopyFollows /\ ReplyFollows /\ FormFollows

LEMMA FormTypes ==
    /\ User!NoForm \notin User!EditForm /\ User!NoUser \notin User!Account
    /\ \A a \in User!Account : a.name \in Names /\ a.role \in Roles /\ a.disabled \in BOOLEAN
    /\ \A e \in User!EditForm : e.name \in Names /\ e.role \in Roles
BY DEF User!NoForm, User!EditForm, User!NoUser, User!Account

LEMMA UserInit == User!UserInit => UserInv
BY FormTypes
   DEF User!UserInit, UserInv, User!UserTypeOK, User!UserSpinnerHasCause,
       User!NothingUndone, SentIsForm, CopyFollows, ReplyFollows, Agree, FormFollows, User!Handlers

LEMMA UserStepInv ==
    ASSUME UserInv, User!UserNext
    PROVE  UserInv'
<1> USE FormTypes
    DEF UserInv, User!UserTypeOK, User!UserSpinnerHasCause,
        User!NothingUndone, SentIsForm, CopyFollows, ReplyFollows, Agree, FormFollows,
        User!Visible, User!copy, User!answer, User!editor, User!Behind, User!Rewritten
<1>1. ASSUME NEW t \in {"profile", "activity", "subscription"}, User!setActiveTab(t)
      PROVE  UserInv'
  BY <1>1 DEF User!setActiveTab
<1>2. CASE User!handleEdit
  BY <1>2 DEF User!handleEdit, User!EditForm
<1>3. CASE User!cancelEdit
  BY <1>3 DEF User!cancelEdit
<1>4. ASSUME NEW f \in {"name", "role"}, NEW v \in Names \cup Roles,
             f = "name" => v \in Names, f = "role" => v \in Roles, User!setEditing(f, v)
      PROVE  UserInv'
  BY <1>4 DEF User!setEditing, User!EditForm
<1>5. ASSUME NEW h \in User!Handlers, User!Call(h)
      PROVE  UserInv'
  <2>1. User!UserTypeOK' /\ SentIsForm'
    BY <1>5 DEF User!Call, User!Offered, User!Handlers
  <2>2. User!UserSpinnerHasCause'
    BY <1>5 DEF User!Call, User!Offered, User!Handlers
  <2>3. User!NothingUndone'
    BY <1>5 DEF User!Call, User!Offered, User!Handlers
  <2>4. CopyFollows'
    BY <1>5 DEF User!Call, User!Offered, User!Handlers
  <2>5. ReplyFollows'
    BY <1>5 DEF User!Call, User!Offered, User!Handlers
  <2>6. FormFollows'
    BY <1>5 DEF User!Call, User!Offered, User!Handlers
  <2> HIDE DEF User!UserTypeOK, User!UserSpinnerHasCause, User!NothingUndone, SentIsForm,
              CopyFollows, ReplyFollows, FormFollows
  <2> QED BY <2>1, <2>2, <2>3, <2>4, <2>5, <2>6
<1>6. CASE User!CallSucceeds
  <2>1. User!UserTypeOK' /\ SentIsForm'
    BY <1>6 DEF User!CallSucceeds, User!Taken, User!SaveEdit, User!SuspendUser,
       User!UnsuspendUser, User!Account, User!EditForm
  <2>2. User!UserSpinnerHasCause'
    BY <1>6 DEF User!CallSucceeds, User!Taken, User!SaveEdit, User!SuspendUser,
       User!UnsuspendUser, User!Account, User!EditForm
  <2>3. User!NothingUndone'
    BY <1>6 DEF User!CallSucceeds, User!Taken, User!SaveEdit, User!SuspendUser,
       User!UnsuspendUser, User!Account, User!EditForm
  <2>4. CopyFollows'
    BY <1>6 DEF User!CallSucceeds, User!Taken, User!SaveEdit, User!SuspendUser,
       User!UnsuspendUser, User!Account, User!EditForm
  <2>5. ReplyFollows'
    BY <1>6 DEF User!CallSucceeds, User!Taken, User!SaveEdit, User!SuspendUser,
       User!UnsuspendUser, User!Account, User!EditForm
  <2>6. FormFollows'
    BY <1>6 DEF User!CallSucceeds, User!Taken, User!SaveEdit, User!SuspendUser,
       User!UnsuspendUser, User!Account, User!EditForm
  <2> HIDE DEF User!UserTypeOK, User!UserSpinnerHasCause, User!NothingUndone, SentIsForm,
              CopyFollows, ReplyFollows, FormFollows
  <2> QED BY <2>1, <2>2, <2>3, <2>4, <2>5, <2>6
<1>7. CASE User!CallFails
  <2>1. User!UserTypeOK' /\ SentIsForm'
    BY <1>7 DEF User!CallFails, User!Taken, User!SaveEdit, User!SuspendUser,
       User!UnsuspendUser, User!Account, User!EditForm
  <2>2. User!UserSpinnerHasCause'
    BY <1>7 DEF User!CallFails, User!Taken, User!SaveEdit, User!SuspendUser,
       User!UnsuspendUser, User!Account, User!EditForm
  <2>3. User!NothingUndone'
    BY <1>7 DEF User!CallFails, User!Taken, User!SaveEdit, User!SuspendUser,
       User!UnsuspendUser, User!Account, User!EditForm
  <2>4. CopyFollows'
    BY <1>7 DEF User!CallFails, User!Taken, User!SaveEdit, User!SuspendUser,
       User!UnsuspendUser, User!Account, User!EditForm
  <2>5. ReplyFollows'
    BY <1>7 DEF User!CallFails, User!Taken, User!SaveEdit, User!SuspendUser,
       User!UnsuspendUser, User!Account, User!EditForm
  <2>6. FormFollows'
    BY <1>7 DEF User!CallFails, User!Taken, User!SaveEdit, User!SuspendUser,
       User!UnsuspendUser, User!Account, User!EditForm
  <2> HIDE DEF User!UserTypeOK, User!UserSpinnerHasCause, User!NothingUndone, SentIsForm,
              CopyFollows, ReplyFollows, FormFollows
  <2> QED BY <2>1, <2>2, <2>3, <2>4, <2>5, <2>6
<1>8. CASE User!RefreshLands
  BY <1>8 DEF User!RefreshLands
<1>9. CASE User!RefreshFails
  BY <1>9 DEF User!RefreshFails
<1>10. ASSUME NEW a \in User!Account, User!OtherActs(a)
       PROVE  UserInv'
  <2>1. User!UserTypeOK' /\ SentIsForm'
    BY <1>10 DEF User!OtherActs
  <2>2. User!UserSpinnerHasCause'
    BY <1>10 DEF User!OtherActs
  <2>3. User!NothingUndone'
    BY <1>10 DEF User!OtherActs
  <2>4. CopyFollows'
    BY <1>10 DEF User!OtherActs
  <2>5. ReplyFollows'
    BY <1>10 DEF User!OtherActs
  <2>6. FormFollows'
    BY <1>10 DEF User!OtherActs
  <2> HIDE DEF User!UserTypeOK, User!UserSpinnerHasCause, User!NothingUndone, SentIsForm,
              CopyFollows, ReplyFollows, FormFollows
  <2> QED BY <2>1, <2>2, <2>3, <2>4, <2>5, <2>6
<1>11. CASE User!SupportEnds
  <2>1. User!UserTypeOK' /\ SentIsForm'
    BY <1>11 DEF User!SupportEnds
  <2>2. User!UserSpinnerHasCause'
    BY <1>11 DEF User!SupportEnds
  <2>3. User!NothingUndone'
    BY <1>11 DEF User!SupportEnds
  <2>4. CopyFollows'
    BY <1>11 DEF User!SupportEnds
  <2>5. ReplyFollows'
    BY <1>11 DEF User!SupportEnds
  <2>6. FormFollows'
    BY <1>11 DEF User!SupportEnds
  <2> HIDE DEF User!UserTypeOK, User!UserSpinnerHasCause, User!NothingUndone, SentIsForm,
              CopyFollows, ReplyFollows, FormFollows
  <2> QED BY <2>1, <2>2, <2>3, <2>4, <2>5, <2>6
<1>12. CASE User!GetUser
  BY <1>12 DEF User!GetUser
<1> QED
  BY <1>1, <1>2, <1>3, <1>4, <1>5, <1>6, <1>7, <1>8, <1>9, <1>10, <1>11, <1>12
     DEF User!UserNext
-----------------------------------------------------------------------------
(* The page of plans, and that of roles.                                   *)

\* A call has been taken whose answer the page has not seen.
InHand == Editor!Taken # {} \/ \E r \in Rows : deleting[r] = "taken"

\* The table is the API's, or will be asked for.
TableFollows == tableSound => table = held \/ Editor!UnderWay # {} \/ InHand

\* So are the rows on their way, of a run that no other overlaps.
RunsFollow ==
    \A n \in Editor!Slots :
        runs[n].at = "answered" /\ runs[n].sound => runs[n].rows = held \/ InHand

\* A sound modal whose user changed nothing shows what the API holds.
ModalFollows ==
    modal # Editor!NoModal /\ modal.row # 0 /\ modalSound /\ ~edited =>
        held[modal.row] # Editor!NoRow /\ held[modal.row].form = modal.form

\* A save that has been sent from one sends that.
SavesFollow ==
    \A s \in saves : s.at = "sent" /\ s.row # 0 /\ s.sound /\ ~s.edited =>
        held[s.row] # Editor!NoRow /\ held[s.row].form = s.form

EditorInv ==
    /\ Editor!EditorTypeOK /\ Editor!EditorSpinnerHasCause
    /\ TableFollows /\ RunsFollow /\ ModalFollows /\ SavesFollow

LEMMA EditorPromise == EditorInv => Editor!EditorKeepsRows
BY DEF EditorInv, TableFollows, InHand, SavesFollow, Editor!Settled, Editor!EditorKeepsRows

LEMMA RowTypes ==
    /\ Editor!NoRow \notin Editor!Row
    /\ Editor!NoModal.kind = "none" /\ Editor!NoModal.row = 0
    /\ \A r \in Editor!Row : r.code \in Codes /\ r.form \in Forms
    /\ \A m \in Editor!Modal :
          /\ m.kind \in {"create", "edit", "view"} /\ m.row \in Rows \cup {0}
          /\ m.code \in Codes /\ m.form \in Forms
          /\ m.busy \in BOOLEAN /\ m.opening \in 1 .. MaxOpened
    /\ \A s \in Editor!Save :
          /\ s.row \in Rows \cup {0} /\ s.code \in Codes /\ s.form \in Forms
          /\ s.opening \in 1 .. MaxOpened /\ s.sound \in BOOLEAN /\ s.edited \in BOOLEAN
          /\ s.at \in {"sent", "taken"}
    /\ Editor!NoModal \notin Editor!Modal
BY DEF Editor!NoRow, Editor!Row, Editor!NoModal, Editor!Modal, Editor!Save

LEMMA RunTypes ==
    /\ Editor!EmptyTable \in Editor!Table
    /\ Editor!NoRun \in Editor!Run /\ Editor!BegunRun \in Editor!Run
    /\ Editor!NoRun.at = "none" /\ Editor!BegunRun.at = "sent"
    /\ \A n \in Editor!Run :
          /\ n.at \in {"none", "sent", "answered"} /\ n.rows \in Editor!Table
          /\ n.sound \in BOOLEAN
          /\ LET u == [n EXCEPT !.sound = FALSE] IN
                u \in Editor!Run /\ u.at = n.at /\ u.rows = n.rows /\ u.sound = FALSE
<1>1. Editor!EmptyTable \in Editor!Table
  BY DEF Editor!EmptyTable, Editor!Table
<1> QED BY <1>1 DEF Editor!NoRun, Editor!BegunRun, Editor!Run

\* What becomes of the saves when a row is written.
LEMMA WrittenSaves ==
    ASSUME NEW S \in SUBSET Editor!Save, NEW r \in Rows, Editor!Written(r, S)
    PROVE  /\ saves' \subseteq Editor!Save
           /\ \A o \in saves' : \E s \in S :
                 /\ o.opening = s.opening /\ o.row = s.row /\ o.form = s.form /\ o.at = s.at
                 /\ o.edited = s.edited /\ (o.sound <=> s.sound /\ s.row # r)
           /\ \A s \in S : \E o \in saves' : o.opening = s.opening /\ o.at = s.at
<1> DEFINE Mark(s) == [s EXCEPT !.sound = @ /\ s.row # r]
<1>1. \A s \in S :
         /\ Mark(s) \in Editor!Save
         /\ Mark(s).opening = s.opening /\ Mark(s).row = s.row /\ Mark(s).form = s.form
         /\ Mark(s).at = s.at /\ Mark(s).edited = s.edited
         /\ (Mark(s).sound <=> s.sound /\ s.row # r)
  BY DEF Editor!Save
<1>2. saves' = {Mark(s) : s \in S}
  BY DEF Editor!Written
<1> HIDE DEF Mark
<1> QED BY <1>1, <1>2

LEMMA EditorBounds == Editor!EditorAssumption /\ 1 \in Editor!Slots
BY ConsoleAssumption DEF ConsoleAssumption, Editor!EditorAssumption, Editor!Slots

LEMMA EditorInit ==
    ASSUME Editor!EditorInit
    PROVE  EditorInv
<1> USE DEF Editor!EditorInit
<1>1. Editor!EditorTypeOK
  <2>1. opened \in 0 .. MaxOpened
    BY EditorBounds DEF Editor!EditorAssumption
  <2>2. runs \in [Editor!Slots -> Editor!Run]
    BY RunTypes
  <2> QED BY <2>1, <2>2, RunTypes DEF Editor!EditorTypeOK
<1>2. Editor!EditorSpinnerHasCause
  BY EditorBounds, RunTypes DEF Editor!EditorSpinnerHasCause, Editor!UnderWay
<1>3. TableFollows /\ ModalFollows /\ SavesFollow
  BY DEF TableFollows, ModalFollows, SavesFollow
<1>4. RunsFollow
  BY RunTypes DEF RunsFollow
<1> QED BY <1>1, <1>2, <1>3, <1>4 DEF EditorInv

-----------------------------------------------------------------------------
(* The refreshes.                                                          *)

\* A refresh that begins: the table loads, and no run under way is sound but its own.
LEMMA RefreshBegins ==
    ASSUME Editor!EditorTypeOK, Editor!refresh
    PROVE  /\ runs' \in [Editor!Slots -> Editor!Run] /\ tableLoading' = TRUE
           /\ Editor!UnderWay' # {} /\ RunsFollow'
<1>1. PICK n \in Editor!Slots \ Editor!UnderWay :
         runs' = [m \in Editor!Slots |-> IF m = n THEN Editor!BegunRun
                                         ELSE IF m \in Editor!UnderWay
                                         THEN [runs[m] EXCEPT !.sound = FALSE]
                                         ELSE runs[m]]
  BY DEF Editor!refresh
<1>2. \A m \in Editor!Slots : runs[m] \in Editor!Run
  BY DEF Editor!EditorTypeOK
<1>3. runs' \in [Editor!Slots -> Editor!Run]
  BY <1>1, <1>2, RunTypes
<1>4. Editor!UnderWay' # {}
  BY <1>1, RunTypes DEF Editor!UnderWay
<1>5. \A m \in Editor!Slots : (runs')[m].at = "answered" => (runs')[m].sound = FALSE
  BY <1>1, <1>2, RunTypes DEF Editor!UnderWay
<1>6. RunsFollow'
  BY <1>5 DEF RunsFollow
<1> QED BY <1>3, <1>4, <1>6 DEF Editor!refresh

LEMMA UnheardRuns ==
    ASSUME Editor!EditorTypeOK, Editor!Unheard
    PROVE  /\ runs' \in [Editor!Slots -> Editor!Run]
           /\ Editor!UnderWay' = Editor!UnderWay
           /\ TableFollows' /\ RunsFollow'
<1>1. \A m \in Editor!Slots : runs[m] \in Editor!Run
  BY DEF Editor!EditorTypeOK
<1>2. runs' \in [Editor!Slots -> Editor!Run]
  BY <1>1, RunTypes DEF Editor!Unheard
<1>3. \A m \in Editor!Slots :
         /\ (runs')[m].at = runs[m].at
         /\ (runs')[m].at = "answered" => (runs')[m].sound = FALSE
  BY <1>1, RunTypes DEF Editor!Unheard
<1>4. Editor!UnderWay' = Editor!UnderWay
  BY <1>3 DEF Editor!UnderWay
<1>5. RunsFollow'
  BY <1>3 DEF RunsFollow
<1>6. TableFollows'
  BY DEF TableFollows, Editor!Unheard
<1> QED BY <1>2, <1>4, <1>5, <1>6

LEMMA GetRowsInv ==
    ASSUME EditorInv, NEW n \in Editor!Slots, Editor!GetRows(n)
    PROVE  EditorInv'
<1> USE DEF EditorInv, Editor!GetRows, Editor!modalVars
<1>1. \A m \in Editor!Slots : runs[m] \in Editor!Run
  BY DEF Editor!EditorTypeOK
<1>2. /\ runs' \in [Editor!Slots -> Editor!Run]
      /\ \A m \in Editor!Slots : m # n => (runs')[m] = runs[m]
      /\ (runs')[n].at = "answered" /\ (runs')[n].rows = held
  BY <1>1 DEF Editor!EditorTypeOK, Editor!Run
<1>3. Editor!EditorTypeOK'
  BY <1>2 DEF Editor!EditorTypeOK
<1>4. Editor!UnderWay' = Editor!UnderWay
  BY <1>2 DEF Editor!UnderWay
<1>5. (InHand <=> InHand') /\ held' = held
  BY DEF InHand, Editor!Taken
<1>6. RunsFollow'
  BY <1>2, <1>5 DEF RunsFollow
<1>7. TableFollows'
  BY <1>4, <1>5 DEF TableFollows
<1>8. Editor!EditorSpinnerHasCause' /\ ModalFollows' /\ SavesFollow'
  BY <1>4 DEF Editor!EditorSpinnerHasCause, ModalFollows, SavesFollow
<1> QED BY <1>3, <1>6, <1>7, <1>8

\* A run ends: what it brings is sound, or no longer said to be.
LEMMA TableInv ==
    ASSUME EditorInv, NEW n \in Editor!Slots, Editor!TableLands(n) \/ Editor!RefreshFails(n)
    PROVE  EditorInv'
<1> USE DEF EditorInv, Editor!modalVars
<1>1. /\ runs' = [runs EXCEPT ![n] = Editor!NoRun] /\ tableLoading' = FALSE
      /\ UNCHANGED <<sheet, held, modal, opened, modalSound, edited, saves, deleting>>
      /\ \/ runs[n].at = "answered" /\ table' = runs[n].rows /\ tableSound' = runs[n].sound
         \/ table' = table /\ tableSound' = FALSE
  BY DEF Editor!TableLands, Editor!RefreshFails, Editor!RefreshEnds
<1>2. runs[n] \in Editor!Run
  BY DEF Editor!EditorTypeOK
<1>3. /\ runs' \in [Editor!Slots -> Editor!Run]
      /\ \A m \in Editor!Slots : (runs')[m] = IF m = n THEN Editor!NoRun ELSE runs[m]
  BY <1>1, RunTypes DEF Editor!EditorTypeOK
<1>4. Editor!EditorTypeOK'
  BY <1>1, <1>2, <1>3, RunTypes DEF Editor!EditorTypeOK
<1>5. (InHand <=> InHand') /\ held' = held
  BY <1>1 DEF InHand, Editor!Taken
<1>6. RunsFollow'
  BY <1>3, <1>5, RunTypes DEF RunsFollow
<1>7. TableFollows'
  BY <1>1, <1>5 DEF TableFollows, RunsFollow
<1>8. Editor!EditorSpinnerHasCause' /\ ModalFollows' /\ SavesFollow'
  BY <1>1 DEF Editor!EditorSpinnerHasCause, ModalFollows, SavesFollow
<1> QED BY <1>4, <1>6, <1>7, <1>8

-----------------------------------------------------------------------------
(* The modal.                                                              *)

\* A step that leaves the calls alone keeps what the table and the runs follow.
LEMMA TableStays ==
    ASSUME EditorInv, UNCHANGED <<held, table, tableLoading, runs, tableSound, deleting>>,
           \A s \in Editor!Taken : \E o \in saves' : o.at = "taken"
    PROVE  TableFollows' /\ RunsFollow' /\ (tableLoading' => Editor!UnderWay' # {})
<1>1. InHand => InHand'
  BY DEF InHand, Editor!Taken
<1>2. Editor!UnderWay' = Editor!UnderWay
  BY DEF Editor!UnderWay
<1>3. TableFollows'
  BY <1>1, <1>2 DEF EditorInv, TableFollows
<1>4. RunsFollow'
  BY <1>1 DEF EditorInv, RunsFollow
<1> QED BY <1>2, <1>3, <1>4 DEF EditorInv, Editor!EditorSpinnerHasCause

\* The modal that Open shows: a new row's, or a row of the table.
LEMMA OpenInv ==
    ASSUME EditorInv, NEW m \in Editor!Modal, Editor!Open(m), ~m.busy,
           m.row # 0 => table[m.row] # Editor!NoRow /\ table[m.row].form = m.form
    PROVE  EditorInv'
<1> USE RowTypes DEF EditorInv, Editor!Open, Editor!tableVars
<1>1. Editor!EditorTypeOK'
  <2>1. opened' \in 0 .. MaxOpened
    BY EditorBounds DEF Editor!EditorTypeOK, Editor!EditorAssumption
  <2>2. modalSound' \in BOOLEAN
    BY DEF Editor!EditorTypeOK
  <2> QED BY <2>1, <2>2 DEF Editor!EditorTypeOK
<1>2. TableFollows' /\ RunsFollow' /\ (tableLoading' => Editor!UnderWay' # {})
  BY TableStays DEF Editor!Taken
<1>3. Editor!EditorSpinnerHasCause'
  BY <1>2 DEF Editor!EditorSpinnerHasCause
<1>4. SavesFollow'
  BY DEF SavesFollow
<1>5. modalSound' => table = held
  BY DEF TableFollows, InHand, Editor!Settled
<1>6. ModalFollows'
  BY <1>5 DEF ModalFollows
<1> QED BY <1>1, <1>2, <1>3, <1>4, <1>6

LEMMA OpenCreateInv ==
    ASSUME EditorInv, Editor!OpenCreate
    PROVE  EditorInv'
<1> DEFINE m(c) == [kind |-> "create", row |-> 0, code |-> c, form |-> EmptyForm,
                    busy |-> FALSE, opening |-> opened + 1]
<1>1. PICK c \in Codes : Editor!Open(m(c))
  BY DEF Editor!OpenCreate
<1>2. opened + 1 \in 1 .. MaxOpened
  BY <1>1, EditorBounds DEF Editor!Open, EditorInv, Editor!EditorTypeOK, Editor!EditorAssumption
<1>3. m(c) \in Editor!Modal
  BY <1>2, EditorBounds DEF Editor!Modal, Editor!EditorAssumption
<1>4. m(c).row = 0 /\ m(c).busy = FALSE
  OBVIOUS
<1> QED
  <2> HIDE DEF m
  <2> QED BY <1>1, <1>3, <1>4, OpenInv

LEMMA OpenRowInv ==
    ASSUME EditorInv, NEW r \in Rows, NEW k \in {"edit", "view"}, Editor!Shown(r),
           Editor!Open([kind |-> k, row |-> r, code |-> table[r].code, form |-> table[r].form,
                        busy |-> FALSE, opening |-> opened + 1])
    PROVE  EditorInv'
<1> DEFINE m == [kind |-> k, row |-> r, code |-> table[r].code, form |-> table[r].form,
                 busy |-> FALSE, opening |-> opened + 1]
<1>1. Editor!Open(m)
  OBVIOUS
<1>2. opened + 1 \in 1 .. MaxOpened
  BY <1>1, EditorBounds DEF Editor!Open, EditorInv, Editor!EditorTypeOK, Editor!EditorAssumption
<1>3. table[r].code \in Codes /\ table[r].form \in Forms /\ table[r] # Editor!NoRow
  BY RowTypes DEF Editor!Shown, EditorInv, Editor!EditorTypeOK, Editor!Table
<1>4. m \in Editor!Modal
  BY <1>2, <1>3 DEF Editor!Modal
<1>5. m.row = r /\ m.busy = FALSE /\ m.form = table[r].form
  OBVIOUS
<1> QED
  <2> HIDE DEF m
  <2> QED BY <1>1, <1>3, <1>4, <1>5, OpenInv

LEMMA CloseModalInv ==
    ASSUME EditorInv, Editor!CloseModal
    PROVE  EditorInv'
<1> USE RowTypes DEF EditorInv, Editor!CloseModal, Editor!Closed, Editor!tableVars
<1>1. Editor!EditorTypeOK'
  BY DEF Editor!EditorTypeOK
<1>2. TableFollows' /\ RunsFollow' /\ (tableLoading' => Editor!UnderWay' # {})
  BY TableStays DEF Editor!Taken
<1>3. Editor!EditorSpinnerHasCause' /\ ModalFollows' /\ SavesFollow'
  BY <1>2 DEF Editor!EditorSpinnerHasCause, ModalFollows, SavesFollow
<1> QED BY <1>1, <1>2, <1>3

\* The modal with another form, or busy, or busy no longer, is a modal.
LEMMA ModalUpdates ==
    ASSUME NEW m \in Editor!Modal
    PROVE  /\ \A f \in Forms : LET n == [m EXCEPT !.form = f] IN
                 /\ n \in Editor!Modal /\ n.form = f
                 /\ n.kind = m.kind /\ n.busy = m.busy /\ n.opening = m.opening
           /\ \A b \in BOOLEAN : LET n == [m EXCEPT !.busy = b] IN
                 /\ n \in Editor!Modal /\ n.busy = b
                 /\ n.kind = m.kind /\ n.row = m.row /\ n.form = m.form
                 /\ n.opening = m.opening
BY DEF Editor!Modal

LEMMA ChangeFormInv ==
    ASSUME EditorInv, NEW f \in Forms, Editor!ChangeForm(f)
    PROVE  EditorInv'
<1> USE RowTypes DEF EditorInv, Editor!ChangeForm, Editor!tableVars
<1>1. modal \in Editor!Modal
  BY DEF Editor!EditorTypeOK
<1>2. /\ modal' \in Editor!Modal /\ modal'.kind = modal.kind
      /\ modal'.busy = modal.busy /\ modal'.opening = modal.opening
  BY <1>1, ModalUpdates
<1>3. Editor!EditorTypeOK'
  BY <1>2 DEF Editor!EditorTypeOK
<1>4. TableFollows' /\ RunsFollow' /\ (tableLoading' => Editor!UnderWay' # {})
  BY TableStays DEF Editor!Taken
<1>5. Editor!EditorSpinnerHasCause'
  BY <1>1, <1>2, <1>4 DEF Editor!EditorSpinnerHasCause
<1>6. ModalFollows' /\ SavesFollow'
  BY DEF ModalFollows, SavesFollow
<1> QED BY <1>3, <1>4, <1>5, <1>6

LEMMA SubmitInv ==
    ASSUME EditorInv, Editor!submit
    PROVE  EditorInv'
<1> USE RowTypes DEF EditorInv, Editor!submit, Editor!tableVars
<1> DEFINE new == [opening |-> modal.opening, row |-> modal.row, code |-> modal.code,
                   form |-> modal.form, at |-> "sent", sound |-> modalSound, edited |-> edited]
<1>1. modal \in Editor!Modal
  BY DEF Editor!EditorTypeOK
<1>2. /\ modal' \in Editor!Modal /\ modal'.row = modal.row /\ modal'.form = modal.form
      /\ modal'.opening = modal.opening
  BY <1>1, ModalUpdates
<1>3. modalSound \in BOOLEAN /\ edited \in BOOLEAN
  BY DEF Editor!EditorTypeOK
<1>4. new \in Editor!Save
  BY <1>1, <1>3 DEF Editor!Save
<1>5. /\ new.opening = modal.opening /\ new.row = modal.row /\ new.form = modal.form
      /\ new.sound = modalSound /\ new.edited = edited
  OBVIOUS
<1>6. saves' = saves \cup {new}
  OBVIOUS
<1> HIDE DEF new
<1>7. Editor!EditorTypeOK'
  BY <1>2, <1>4, <1>6 DEF Editor!EditorTypeOK
<1>8. TableFollows' /\ RunsFollow' /\ (tableLoading' => Editor!UnderWay' # {})
  BY <1>6, TableStays DEF Editor!Taken
<1>9. Editor!EditorSpinnerHasCause'
  BY <1>2, <1>5, <1>6, <1>8 DEF Editor!EditorSpinnerHasCause
<1>10. SavesFollow'
  BY <1>1, <1>5, <1>6 DEF SavesFollow, ModalFollows
<1>11. ModalFollows'
  BY <1>1, <1>2 DEF ModalFollows
<1> QED BY <1>7, <1>8, <1>9, <1>10, <1>11

-----------------------------------------------------------------------------
(* The calls.                                                              *)

\* A write of row r: whatever is sound is of another row.
LEMMA WriteKeeps ==
    ASSUME EditorInv, NEW r \in Rows, NEW S \in SUBSET Editor!Save, Editor!Written(r, S),
           UNCHANGED <<modal, edited>>,
           \A q \in Rows : q # r => (held')[q] = held[q],
           \A s \in S : s.at = "sent" => s \in saves,
           \A s \in saves : \E o \in S : o.opening = s.opening
    PROVE  /\ saves' \subseteq Editor!Save /\ modalSound' \in BOOLEAN
           /\ ModalFollows' /\ SavesFollow'
           /\ \A s \in saves : \E o \in saves' : o.opening = s.opening
<1> USE RowTypes DEF EditorInv
<1>1. saves' \subseteq Editor!Save /\ modalSound' \in BOOLEAN
  BY WrittenSaves DEF Editor!Written, Editor!EditorTypeOK
<1>2. modalSound' => modalSound /\ modal.row # r
  BY DEF Editor!Written
<1>3. ModalFollows'
  BY <1>2 DEF ModalFollows, Editor!EditorTypeOK
<1>4. SavesFollow'
  <2> SUFFICES ASSUME NEW o \in saves', o.at = "sent", o.row # 0, o.sound, ~o.edited
               PROVE  (held')[o.row] # Editor!NoRow /\ (held')[o.row].form = o.form
    BY DEF SavesFollow
  <2>1. PICK s \in S :
           /\ o.opening = s.opening /\ o.row = s.row /\ o.form = s.form /\ o.at = s.at
           /\ o.edited = s.edited /\ (o.sound <=> s.sound /\ s.row # r)
    BY WrittenSaves
  <2>2. s \in saves /\ s.sound /\ s.row # r /\ s.row \in Rows
    BY <2>1 DEF Editor!EditorTypeOK
  <2>3. held[s.row] # Editor!NoRow /\ held[s.row].form = s.form
    BY <2>1, <2>2 DEF SavesFollow
  <2> QED BY <2>1, <2>2, <2>3
<1>5. \A s \in saves : \E o \in saves' : o.opening = s.opening
  BY WrittenSaves
<1> QED BY <1>1, <1>3, <1>4, <1>5

\* A row with another form is a row.
LEMMA FormWritten ==
    ASSUME Editor!EditorTypeOK, NEW r \in Rows, held[r] # Editor!NoRow, NEW f \in Forms
    PROVE  [held EXCEPT ![r].form = f] \in Editor!Table
<1>1. held[r] \in Editor!Row
  BY DEF Editor!EditorTypeOK, Editor!Table
<1>2. [held[r] EXCEPT !.form = f] \in Editor!Row
  BY <1>1 DEF Editor!Row
<1> QED BY <1>2 DEF Editor!EditorTypeOK, Editor!Table

LEMMA TakeSaveInv ==
    ASSUME EditorInv, NEW s \in saves, Editor!TakeSave(s)
    PROVE  EditorInv'
<1> USE RowTypes DEF EditorInv, Editor!TakeSave, Editor!tableVars
<1> DEFINE done == [s EXCEPT !.at = "taken"]
           S == (saves \ {s}) \cup {done}
<1>1. /\ s \in Editor!Save /\ done \in Editor!Save
      /\ done.opening = s.opening /\ done.at = "taken"
  BY DEF Editor!EditorTypeOK, Editor!Save
<1>2. PICK r \in Rows :
         /\ \/ held' = [held EXCEPT ![r] = [code |-> s.code, form |-> s.form]]
            \/ held[r] # Editor!NoRow /\ held' = [held EXCEPT ![r].form = s.form]
         /\ Editor!Written(r, S)
  OBVIOUS
<1>3. held' \in Editor!Table
  <2>1. [code |-> s.code, form |-> s.form] \in Editor!Row
    BY <1>1 DEF Editor!Row
  <2>2. [held EXCEPT ![r] = [code |-> s.code, form |-> s.form]] \in Editor!Table
    BY <2>1 DEF Editor!EditorTypeOK, Editor!Table
  <2> QED BY <1>1, <1>2, <2>2, FormWritten
<1> HIDE DEF done
<1>4. \A q \in Rows : q # r => (held')[q] = held[q]
  BY <1>2 DEF Editor!EditorTypeOK, Editor!Table
<1>5. S \in SUBSET Editor!Save /\ \A o \in S : o.at = "sent" => o \in saves
  BY <1>1 DEF Editor!EditorTypeOK
<1>6. \A o \in saves : \E p \in S : p.opening = o.opening
  BY <1>1
<1>7. done \in S
  OBVIOUS
<1> HIDE DEF S
<1>8. /\ saves' \subseteq Editor!Save /\ modalSound' \in BOOLEAN
      /\ ModalFollows' /\ SavesFollow'
      /\ \A o \in saves : \E p \in saves' : p.opening = o.opening
  BY <1>2, <1>4, <1>5, <1>6, WriteKeeps
<1>9. InHand'
  BY <1>1, <1>2, <1>5, <1>7, WrittenSaves DEF InHand, Editor!Taken
<1>10. Editor!EditorTypeOK'
  BY <1>3, <1>8 DEF Editor!EditorTypeOK
<1>11. TableFollows' /\ RunsFollow'
  BY <1>9 DEF TableFollows, RunsFollow
<1>12. Editor!EditorSpinnerHasCause'
  BY <1>8 DEF Editor!EditorSpinnerHasCause, Editor!UnderWay
<1> QED BY <1>8, <1>10, <1>11, <1>12

LEMMA SaveLandsInv ==
    ASSUME EditorInv, NEW s \in saves, Editor!SaveLands(s)
    PROVE  EditorInv'
<1> USE RowTypes DEF EditorInv, Editor!SaveLands, Editor!Closed
<1>1. /\ runs' \in [Editor!Slots -> Editor!Run] /\ tableLoading' = TRUE
      /\ Editor!UnderWay' # {} /\ RunsFollow'
  BY RefreshBegins
<1>2. Editor!EditorTypeOK'
  BY <1>1 DEF Editor!EditorTypeOK
<1>3. Editor!EditorSpinnerHasCause' /\ TableFollows'
  BY <1>1 DEF Editor!EditorSpinnerHasCause, TableFollows
<1>4. ModalFollows' /\ SavesFollow'
  BY DEF ModalFollows, SavesFollow
<1> QED BY <1>1, <1>2, <1>3, <1>4

\* A modal that stays busy after a save ended still has another under way.
LEMMA SaveFailsInv ==
    ASSUME EditorInv, NEW s \in saves, Editor!SaveFails(s)
    PROVE  EditorInv'
<1> USE RowTypes DEF EditorInv, Editor!SaveFails
<1>1. /\ modal' \in Editor!Modal \cup {Editor!NoModal}
      /\ (modal' = Editor!NoModal) <=> (modal = Editor!NoModal)
      /\ modal # Editor!NoModal =>
            /\ modal'.row = modal.row /\ modal'.form = modal.form
            /\ modal'.kind = modal.kind /\ modal'.opening = modal.opening
            /\ modal'.busy => modal.busy /\ modal.opening # s.opening
  BY ModalUpdates DEF Editor!EditorTypeOK, Editor!Unbusy
<1>2. /\ runs' \in [Editor!Slots -> Editor!Run] /\ tableSound' \in BOOLEAN
      /\ TableFollows' /\ RunsFollow' /\ (tableLoading' => Editor!UnderWay' # {})
  <2>1. CASE s.at = "taken"
    BY <2>1, UnheardRuns DEF Editor!Unheard, Editor!EditorSpinnerHasCause
  <2>2. CASE s.at # "taken"
    <3>1. \A o \in Editor!Taken : o \in saves' /\ o.at = "taken"
      BY <2>2 DEF Editor!Taken
    <3> QED BY <2>2, <3>1, TableStays DEF Editor!EditorTypeOK
  <2> QED BY <2>1, <2>2
<1>3. Editor!EditorTypeOK'
  BY <1>1, <1>2 DEF Editor!EditorTypeOK
<1>4. Editor!EditorSpinnerHasCause'
  BY <1>1, <1>2 DEF Editor!EditorSpinnerHasCause
<1>5. ModalFollows' /\ SavesFollow'
  BY <1>1 DEF ModalFollows, SavesFollow
<1> QED BY <1>2, <1>3, <1>4, <1>5

LEMMA DeleteInv ==
    ASSUME EditorInv, NEW r \in Rows, Editor!handleDelete(r)
    PROVE  EditorInv'
<1> USE DEF EditorInv, Editor!handleDelete, Editor!tableVars, Editor!modalVars
<1>1. Editor!EditorTypeOK'
  BY DEF Editor!EditorTypeOK
<1>2. InHand => InHand'
  BY DEF InHand, Editor!Taken, Editor!EditorTypeOK
<1>3. Editor!UnderWay' = Editor!UnderWay
  BY DEF Editor!UnderWay
<1>4. TableFollows' /\ RunsFollow'
  BY <1>2, <1>3 DEF TableFollows, RunsFollow
<1>5. Editor!EditorSpinnerHasCause' /\ ModalFollows' /\ SavesFollow'
  BY <1>3 DEF Editor!EditorSpinnerHasCause, ModalFollows, SavesFollow
<1> QED BY <1>1, <1>4, <1>5

LEMMA TakeDeleteInv ==
    ASSUME EditorInv, NEW r \in Rows, Editor!TakeDelete(r)
    PROVE  EditorInv'
<1> USE RowTypes DEF EditorInv, Editor!TakeDelete, Editor!tableVars
<1>1. held' \in Editor!Table /\ \A q \in Rows : q # r => (held')[q] = held[q]
  BY DEF Editor!EditorTypeOK, Editor!Table
<1>2. saves \in SUBSET Editor!Save
  BY DEF Editor!EditorTypeOK
<1>3. /\ saves' \subseteq Editor!Save /\ modalSound' \in BOOLEAN
      /\ ModalFollows' /\ SavesFollow'
      /\ \A s \in saves : \E o \in saves' : o.opening = s.opening
  BY <1>1, <1>2, WriteKeeps
<1>4. InHand'
  BY DEF InHand, Editor!EditorTypeOK
<1>5. Editor!EditorTypeOK'
  BY <1>1, <1>3 DEF Editor!EditorTypeOK
<1>6. TableFollows' /\ RunsFollow'
  BY <1>4 DEF TableFollows, RunsFollow
<1>7. Editor!EditorSpinnerHasCause'
  BY <1>3 DEF Editor!EditorSpinnerHasCause, Editor!UnderWay
<1> QED BY <1>3, <1>5, <1>6, <1>7

LEMMA DeleteLandsInv ==
    ASSUME EditorInv, NEW r \in Rows, Editor!DeleteLands(r)
    PROVE  EditorInv'
<1> USE DEF EditorInv, Editor!DeleteLands, Editor!modalVars
<1>1. /\ runs' \in [Editor!Slots -> Editor!Run] /\ tableLoading' = TRUE
      /\ Editor!UnderWay' # {} /\ RunsFollow'
  BY RefreshBegins
<1>2. Editor!EditorTypeOK'
  BY <1>1 DEF Editor!EditorTypeOK
<1>3. Editor!EditorSpinnerHasCause' /\ TableFollows'
  BY <1>1 DEF Editor!EditorSpinnerHasCause, TableFollows
<1>4. ModalFollows' /\ SavesFollow'
  BY DEF ModalFollows, SavesFollow
<1> QED BY <1>1, <1>2, <1>3, <1>4

LEMMA DeleteFailsInv ==
    ASSUME EditorInv, NEW r \in Rows, Editor!DeleteFails(r)
    PROVE  EditorInv'
<1> USE DEF EditorInv, Editor!DeleteFails, Editor!modalVars
<1>1. /\ runs' \in [Editor!Slots -> Editor!Run] /\ tableSound' \in BOOLEAN
      /\ TableFollows' /\ RunsFollow' /\ (tableLoading' => Editor!UnderWay' # {})
  <2>1. CASE deleting[r] = "taken"
    BY <2>1, UnheardRuns DEF Editor!Unheard, Editor!EditorSpinnerHasCause
  <2>2. CASE deleting[r] # "taken"
    <3>1. InHand => InHand'
      BY <2>2 DEF InHand, Editor!Taken, Editor!EditorTypeOK
    <3>2. Editor!UnderWay' = Editor!UnderWay /\ UNCHANGED <<runs, tableSound, table, held>>
      BY <2>2 DEF Editor!UnderWay
    <3>3. TableFollows' /\ RunsFollow'
      BY <3>1, <3>2 DEF TableFollows, RunsFollow
    <3> QED BY <3>2, <3>3 DEF Editor!EditorTypeOK, Editor!EditorSpinnerHasCause
  <2> QED BY <2>1, <2>2
<1>2. Editor!EditorTypeOK'
  BY <1>1 DEF Editor!EditorTypeOK
<1>3. Editor!EditorSpinnerHasCause' /\ ModalFollows' /\ SavesFollow'
  BY <1>1 DEF Editor!EditorSpinnerHasCause, ModalFollows, SavesFollow
<1> QED BY <1>1, <1>2, <1>3

LEMMA OtherWritesInv ==
    ASSUME EditorInv, NEW f \in Forms, NEW r \in Rows, Editor!OtherWrites(r, f)
    PROVE  EditorInv'
<1> USE RowTypes DEF EditorInv, Editor!OtherWrites
<1>1. held' \in Editor!Table
  BY FormWritten
<1>2. \A q \in Rows : q # r => (held')[q] = held[q]
  BY DEF Editor!EditorTypeOK, Editor!Table
<1>3. saves \in SUBSET Editor!Save
  BY DEF Editor!EditorTypeOK
<1>4. /\ saves' \subseteq Editor!Save /\ modalSound' \in BOOLEAN
      /\ ModalFollows' /\ SavesFollow'
      /\ \A s \in saves : \E o \in saves' : o.opening = s.opening
  BY <1>2, <1>3, WriteKeeps
<1>5. /\ runs' \in [Editor!Slots -> Editor!Run]
      /\ Editor!UnderWay' = Editor!UnderWay /\ TableFollows' /\ RunsFollow'
  BY UnheardRuns
<1>6. Editor!EditorTypeOK'
  BY <1>1, <1>4, <1>5 DEF Editor!EditorTypeOK, Editor!Unheard
<1>7. Editor!EditorSpinnerHasCause'
  BY <1>4, <1>5 DEF Editor!EditorSpinnerHasCause
<1> QED BY <1>4, <1>5, <1>6, <1>7

LEMMA EditorStepInv ==
    ASSUME EditorInv, Editor!EditorNext
    PROVE  EditorInv'
<1>1. ASSUME NEW r \in Rows, Editor!OpenEdit(r) \/ Editor!OpenView(r)
      PROVE  EditorInv'
  BY <1>1, OpenRowInv DEF Editor!OpenEdit, Editor!OpenView
<1>2. CASE \E n \in Editor!Slots :
              Editor!GetRows(n) \/ Editor!TableLands(n) \/ Editor!RefreshFails(n)
  BY <1>2, GetRowsInv, TableInv
<1>3. CASE \E r \in Rows : \/ Editor!handleDelete(r) \/ Editor!TakeDelete(r)
                           \/ Editor!DeleteLands(r) \/ Editor!DeleteFails(r)
  BY <1>3, DeleteInv, TakeDeleteInv, DeleteLandsInv, DeleteFailsInv
<1>4. CASE \E s \in saves : Editor!TakeSave(s) \/ Editor!SaveLands(s) \/ Editor!SaveFails(s)
  BY <1>4, TakeSaveInv, SaveLandsInv, SaveFailsInv
<1> QED
  BY <1>1, <1>2, <1>3, <1>4, OpenCreateInv, CloseModalInv, SubmitInv, ChangeFormInv,
     OtherWritesInv
     DEF Editor!EditorNext
-----------------------------------------------------------------------------
(* The page of a project.                                                  *)

\* The first reads are the only ones of the overview and of the traffic, and cover the page.
OpeningFollows ==
    opening <=> \E i \in Project!Reads : /\ read[i].of \in {"overview", "metrics"}
                                         /\ read[i].at \in {"sent", "answered"}

\* Of a tab nothing is read, chosen or set before the page is uncovered.
TabsComeLater ==
    \/ overview # None /\ ~opening
    \/ /\ activeTab = "overview" /\ history = None
       /\ \A i \in Project!Reads : read[i].at # "idle" => read[i].of \in {"overview", "metrics"}

\* Without an overview its read is under way, or has failed.
OverviewComes ==
    overview = None =>
        \/ visit.failed
        \/ \E i \in Project!Reads : read[i].of = "overview" /\ read[i].at \in {"sent", "answered"}

\* The latest figures go with the history, and are no older than the overview.
LatestFollows ==
    /\ history # None => latest = history
    /\ overview # None => overview <= edition /\ latest # None /\ latest >= overview
    /\ overview # None =>
          \A i \in Project!Reads :
              read[i].of = "social" /\ read[i].at = "answered" => read[i].edition >= overview

\* What is on its way for the visited tab is no older than the visit, nor newer than now.
VisitFollows ==
    /\ visit.since <= edition
    /\ \A i \in Project!Reads : read[i].edition <= edition
    /\ ~visit.crossed =>
          \A i \in Project!Reads :
              read[i].of = activeTab /\ read[i].at = "answered" => read[i].edition >= visit.since

\* Freshness, for the tabs that are read again.
TabFollows ==
    \/ \E i \in Project!Reads : read[i].of = activeTab /\ read[i].at \in {"sent", "answered"}
    \/ visit.failed \/ visit.crossed
    \/ /\ activeTab = "seo" => seo # None /\ seo >= visit.since
       /\ activeTab = "social" => /\ latest # None /\ latest >= visit.since
                                  /\ history # None /\ history >= visit.since

DetailInv ==
    /\ Project!DetailTypeOK /\ OpeningFollows /\ TabsComeLater /\ OverviewComes
    /\ LatestFollows /\ VisitFollows /\ TabFollows

LEMMA DetailBounds == Project!DetailAssumption
BY ConsoleAssumption DEF ConsoleAssumption

\* The invariant says what the page promises.
LEMMA DetailPromises ==
    ASSUME DetailInv
    PROVE  Project!TabIsFresh /\ Project!SocialIsOneAnswer /\ Project!DetailSpinnerHasCause
<1>1. Project!TabIsFresh
  BY DEF DetailInv, TabFollows, Project!TabIsFresh, Project!UnderWay, Project!SEOCards,
         Project!SocialCards
<1>2. Project!SocialIsOneAnswer
  BY DEF DetailInv, LatestFollows, Project!SocialIsOneAnswer, Project!Covered,
         Project!SocialCards, Project!OverviewCards
<1>3. Project!DetailSpinnerHasCause
  BY DEF DetailInv, OpeningFollows, OverviewComes, Project!DetailSpinnerHasCause,
         Project!Covered, Project!UnderWay
<1> QED BY <1>1, <1>2, <1>3

ReadRecord == [of : Project!Kinds, at : {"idle", "sent", "answered", "over"},
               edition : Project!Editions]

LEMMA ReadTypes ==
    /\ Project!NoRead.of = "overview" /\ Project!NoRead.at = "idle"
    /\ Project!NoRead.edition = 0
    /\ 0 \in Project!Editions /\ Project!Editions \subseteq Nat /\ None \notin Project!Editions
    /\ Project!NoRead \in ReadRecord
    /\ \A k \in Project!Kinds : /\ Project!Ask(k) \in ReadRecord
                                /\ Project!Ask(k).of = k /\ Project!Ask(k).at = "sent"
                                /\ Project!Ask(k).edition = 0
<1>1. /\ 0 \in Project!Editions /\ Project!Editions \subseteq Nat
      /\ None \notin Project!Editions
  BY DetailBounds DEF Project!DetailAssumption, Project!Editions
<1>2. Project!NoRead \in ReadRecord
  BY <1>1 DEF Project!NoRead, ReadRecord, Project!Kinds, Project!Tabs
<1>4. ASSUME NEW k \in Project!Kinds
      PROVE  Project!Ask(k) \in ReadRecord /\ Project!Ask(k).of = k /\ Project!Ask(k).at = "sent"
             /\ Project!Ask(k).edition = 0
  BY <1>2 DEF ReadRecord, Project!Ask, Project!NoRead
<1> QED BY <1>1, <1>2, <1>4 DEF Project!NoRead

LEMMA DetailInit ==
    ASSUME Project!DetailInit
    PROVE  DetailInv
<1> USE DEF Project!DetailInit
<1>1. 1 \in Project!Reads /\ 2 \in Project!Reads /\ Project!Reads \subseteq Nat
  BY DetailBounds DEF Project!DetailAssumption, Project!Reads
<1>2. \A i \in Project!Reads :
         /\ read[i] \in ReadRecord
         /\ i = 1 => read[i].of = "overview" /\ read[i].at = "sent"
         /\ i = 2 => read[i].of = "metrics" /\ read[i].at = "sent"
         /\ i > 2 => read[i].of = "overview" /\ read[i].at = "idle"
         /\ i \in {1, 2} \/ i > 2
         /\ read[i].edition = 0
  BY ReadTypes DEF Project!Kinds, Project!Tabs, Project!Reads
<1>3. visit \in [since : Project!Editions, failed : BOOLEAN, crossed : BOOLEAN]
  BY ReadTypes
<1>4. read \in [Project!Reads -> ReadRecord]
  BY <1>2
<1>5. Project!DetailTypeOK
  BY <1>1, <1>2, <1>3, <1>4, ReadTypes DEF Project!DetailTypeOK, ReadRecord, Project!Tabs
<1>6. OpeningFollows /\ TabsComeLater /\ OverviewComes
  BY <1>1, <1>2 DEF OpeningFollows, TabsComeLater, OverviewComes
<1>7. LatestFollows /\ VisitFollows /\ TabFollows
  BY <1>1, <1>2 DEF LatestFollows, VisitFollows, TabFollows
<1> QED BY <1>5, <1>6, <1>7 DEF DetailInv
LEMMA ReadIsRecord ==
    ASSUME Project!DetailTypeOK
    PROVE  /\ read \in [Project!Reads -> ReadRecord]
           /\ \A i \in Project!Reads : /\ read[i].of \in Project!Kinds
                                       /\ read[i].at \in {"idle", "sent", "answered", "over"}
                                       /\ read[i].edition \in Project!Editions
                                       /\ read[i].edition \in Nat
BY ReadTypes DEF Project!DetailTypeOK, ReadRecord

LEMMA ChooseTabInv ==
    ASSUME DetailInv, NEW t \in Project!Tabs, Project!setActiveTab(t)
    PROVE  DetailInv'
<1> USE DEF DetailInv, Project!setActiveTab, Project!shown
<1>1. overview # None /\ ~opening
  BY DEF Project!Covered
<1>2. /\ edition \in Project!Editions
      /\ \A c \in {overview, seo, latest, history} : c \in Project!Editions \cup {None}
  BY DEF Project!DetailTypeOK
<1>3. /\ visit'.since = edition /\ visit'.failed = FALSE
      /\ visit' \in [since : Project!Editions, failed : BOOLEAN, crossed : BOOLEAN]
      /\ ~visit'.crossed => \A i \in Project!Reads :
            ~(read[i].of = t /\ read[i].at \in {"sent", "answered"})
  BY <1>2 DEF Project!UnderWay
<1>4. CASE t = "overview" /\ UNCHANGED <<read, reads>>
  <2>1. Project!DetailTypeOK'
    BY <1>3, <1>4 DEF Project!DetailTypeOK
  <2>2. (OpeningFollows /\ TabsComeLater /\ OverviewComes)'
    BY <1>1, <1>4 DEF OpeningFollows, TabsComeLater, OverviewComes
  <2>3. (LatestFollows /\ VisitFollows /\ TabFollows)'
    BY <1>2, <1>3, <1>4, ReadTypes DEF LatestFollows, VisitFollows, TabFollows
  <2> QED BY <2>1, <2>2, <2>3
<1>5. CASE /\ t # "overview" /\ reads < MaxReads /\ reads' = reads + 1
           /\ read' = [read EXCEPT ![reads + 1] = Project!Ask(t)]
  <2>1. /\ t \in {"seo", "social"} /\ t \in Project!Kinds
        /\ reads \in Nat /\ reads + 1 \in Project!Reads /\ Project!Reads \subseteq Nat
        /\ read[reads + 1].at = "idle"
    BY <1>5, DetailBounds
       DEF Project!Tabs, Project!Kinds, Project!DetailTypeOK, Project!Reads,
           Project!DetailAssumption
  <2>2. /\ read' \in [Project!Reads -> ReadRecord]
        /\ read'[reads + 1].of = t /\ read'[reads + 1].at = "sent"
        /\ read'[reads + 1].edition = 0
        /\ \A i \in Project!Reads : i # reads + 1 => read'[i] = read[i]
    BY <1>5, <2>1, ReadIsRecord, ReadTypes
  <2>3. Project!DetailTypeOK'
    <3>1. \A i \in Project!Reads : read'[i].at = "idle" <=> i > reads'
      BY <1>5, <2>1, <2>2 DEF Project!DetailTypeOK
    <3>2. reads' \in Project!Reads
      BY <1>5, <2>1
    <3> QED BY <1>3, <2>2, <3>1, <3>2 DEF Project!DetailTypeOK, ReadRecord
  <2>4. (OpeningFollows /\ TabsComeLater /\ OverviewComes)'
    BY <1>1, <2>1, <2>2 DEF OpeningFollows, TabsComeLater, OverviewComes
  <2>5. LatestFollows'
    <3>1. \A i \in Project!Reads : read'[i].of = "social" /\ read'[i].at = "answered" =>
             read[i].of = "social" /\ read[i].at = "answered" /\ read'[i].edition = read[i].edition
      BY <2>1, <2>2
    <3> QED BY <3>1 DEF LatestFollows
  <2>7. VisitFollows'
    <3>1. edition \in Nat /\ \A i \in Project!Reads : read'[i].edition <= edition
      BY <1>2, <2>1, <2>2, ReadTypes DEF VisitFollows
    <3>2. \A i \in Project!Reads : ~(read'[i].of = t /\ read'[i].at = "answered") \/ (visit').crossed
      BY <1>3, <2>2
    <3> QED BY <1>3, <3>1, <3>2 DEF VisitFollows
  <2>6. TabFollows'
    BY <2>1, <2>2 DEF TabFollows
  <2> QED BY <2>3, <2>4, <2>5, <2>6, <2>7
<1> QED BY <1>4, <1>5

LEMMA AnswerReadInv ==
    ASSUME DetailInv, NEW i \in Project!Reads, Project!GetProject(i)
    PROVE  DetailInv'
<1> USE DEF DetailInv, Project!GetProject, Project!shown
<1>1. /\ edition \in Project!Editions
      /\ \A c \in {overview, seo, latest, history} : c \in Project!Editions \cup {None}
      /\ visit.since \in Project!Editions
  BY DEF Project!DetailTypeOK
<1>2. /\ read' \in [Project!Reads -> ReadRecord]
      /\ read'[i].of = read[i].of /\ read'[i].at = "answered" /\ read'[i].edition = edition
      /\ \A j \in Project!Reads : j # i => read'[j] = read[j]
  BY <1>1, ReadIsRecord DEF ReadRecord
<1>3. Project!DetailTypeOK'
  BY <1>2 DEF Project!DetailTypeOK, ReadRecord
<1>4. OpeningFollows'
  BY <1>2 DEF OpeningFollows
<1>5. TabsComeLater'
  BY <1>2 DEF TabsComeLater
<1>6. OverviewComes'
  BY <1>2 DEF OverviewComes
<1>7. LatestFollows'
  BY <1>1, <1>2 DEF LatestFollows
<1>8. VisitFollows'
  BY <1>1, <1>2, ReadTypes DEF VisitFollows
<1>9. TabFollows'
  BY <1>2 DEF TabFollows
<1> QED BY <1>3, <1>4, <1>5, <1>6, <1>7, <1>8, <1>9

LEMMA DataMovesInv ==
    ASSUME DetailInv, Project!DataMoves
    PROVE  DetailInv'
<1> USE DEF DetailInv, Project!DataMoves, Project!shown
<1>1. /\ edition \in Nat /\ edition' \in Project!Editions
      /\ visit.since \in Nat /\ overview \in Nat \cup {None}
  BY DetailBounds, ReadTypes
     DEF Project!DetailTypeOK, Project!Editions, Project!DetailAssumption
<1>2. Project!DetailTypeOK'
  BY <1>1 DEF Project!DetailTypeOK
<1>3. (OpeningFollows /\ TabsComeLater /\ OverviewComes /\ TabFollows)'
  BY DEF OpeningFollows, TabsComeLater, OverviewComes, TabFollows
<1>4. LatestFollows' /\ VisitFollows'
  BY <1>1, ReadIsRecord DEF LatestFollows, VisitFollows
<1> QED BY <1>2, <1>3, <1>4

\* What the end of a read does to the reads, and to the cover.
LEMMA OverReads ==
    ASSUME DetailInv, NEW i \in Project!Reads, Project!Over(i),
           read[i].at \in {"sent", "answered"}
    PROVE  /\ read' \in [Project!Reads -> ReadRecord]
           /\ read'[i].of = read[i].of /\ read'[i].at = "over" /\ read'[i].edition = 0
           /\ \A j \in Project!Reads : j # i => read'[j] = read[j]
           /\ opening' \in BOOLEAN /\ OpeningFollows'
           /\ opening' => opening
           /\ \A j \in Project!Reads : read'[j].at = "idle" <=> j > reads
<1> USE DEF DetailInv, Project!Over
<1>1. /\ read' \in [Project!Reads -> ReadRecord]
      /\ read'[i].of = read[i].of /\ read'[i].at = "over" /\ read'[i].edition = 0
      /\ \A j \in Project!Reads : j # i => read'[j] = read[j]
  <2>1. read' = [read EXCEPT ![i].at = "over", ![i].edition = 0]
    OBVIOUS
  <2>2. read \in [Project!Reads -> ReadRecord] /\ 0 \in Project!Editions
    BY ReadIsRecord, ReadTypes
  <2> QED BY <2>1, <2>2 DEF ReadRecord
<1>2. \A j \in Project!Reads : read'[j].at = "idle" <=> j > reads
  BY <1>1 DEF Project!DetailTypeOK
<1>3. opening' \in BOOLEAN /\ (opening' => opening)
  BY DEF Project!DetailTypeOK
<1>4. OpeningFollows'
  BY <1>1 DEF OpeningFollows, Project!UnderWay
<1> QED BY <1>1, <1>2, <1>3, <1>4

LEMMA ReadFailsInv ==
    ASSUME DetailInv, NEW i \in Project!Reads, Project!ReadFails(i)
    PROVE  DetailInv'
<1> USE DEF DetailInv, Project!ReadFails, Project!shown
<1>0. edition \in Nat
  BY ReadTypes DEF Project!DetailTypeOK
<1>1. UNCHANGED <<edition, activeTab, reads>> /\ read[i].at \in {"sent", "answered"}
  BY DEF Project!Over
<1>2. /\ visit' \in [since : Project!Editions, failed : BOOLEAN, crossed : BOOLEAN]
      /\ visit'.since = visit.since /\ visit'.crossed = visit.crossed
      /\ visit'.failed <=> visit.failed \/ read[i].of = activeTab
  BY DEF Project!DetailTypeOK
<1> DEFINE Ended == /\ read' \in [Project!Reads -> ReadRecord]
                    /\ read'[i].of = read[i].of /\ read'[i].at = "over" /\ read'[i].edition = 0
                    /\ \A j \in Project!Reads : j # i => read'[j] = read[j]
                    /\ opening' \in BOOLEAN /\ OpeningFollows' /\ (opening' => opening)
                    /\ \A j \in Project!Reads : read'[j].at = "idle" <=> j > reads
<1>3. Ended
  BY <1>1, OverReads
<1>4. Project!DetailTypeOK'
  BY <1>1, <1>2, <1>3 DEF Project!DetailTypeOK, ReadRecord
<1>5. TabsComeLater'
  BY <1>1, <1>3 DEF TabsComeLater
<1>6. OverviewComes'
  BY <1>1, <1>2, <1>3 DEF OverviewComes, TabsComeLater
<1>7. LatestFollows'
  BY <1>1, <1>3 DEF LatestFollows
<1>8. VisitFollows'
  BY <1>1, <1>2, <1>3, <1>0 DEF VisitFollows
<1>9. TabFollows'
  BY <1>1, <1>2, <1>3 DEF TabFollows
<1> QED BY <1>3, <1>4, <1>5, <1>6, <1>7, <1>8, <1>9

LEMMA ReadLandsInv ==
    ASSUME DetailInv, NEW i \in Project!Reads,
           \/ Project!OverviewLands(i) \/ Project!SEOLands(i) \/ Project!SocialLands(i)
           \/ Project!MetricsLand(i)
    PROVE  DetailInv'
<1> USE DEF DetailInv, Project!OverviewLands, Project!SEOLands, Project!SocialLands,
            Project!MetricsLand
<1>1. /\ UNCHANGED <<edition, activeTab, reads, visit>>
      /\ Project!Over(i) /\ read[i].at = "answered"
      /\ read[i].edition \in Project!Editions
  BY ReadIsRecord DEF Project!Over, Project!Landing
<1>2. /\ edition \in Project!Editions /\ visit.since \in Project!Editions
      /\ \A c \in {overview, seo, latest, history, traffic} : c \in Project!Editions \cup {None}
  BY DEF Project!DetailTypeOK
<1> DEFINE Ended == /\ read' \in [Project!Reads -> ReadRecord]
                    /\ read'[i].of = read[i].of /\ read'[i].at = "over" /\ read'[i].edition = 0
                    /\ \A j \in Project!Reads : j # i => read'[j] = read[j]
                    /\ opening' \in BOOLEAN /\ OpeningFollows' /\ (opening' => opening)
                    /\ \A j \in Project!Reads : read'[j].at = "idle" <=> j > reads
<1>3. Ended
  BY <1>1, OverReads
<1>4. \A c \in {overview', seo', latest', history', traffic'} : c \in Project!Editions \cup {None}
  BY <1>1, <1>2
<1>5. Project!DetailTypeOK'
  BY <1>1, <1>3, <1>4 DEF Project!DetailTypeOK, ReadRecord
<1>6. VisitFollows'
  BY <1>1, <1>2, <1>3, ReadTypes, ReadIsRecord DEF VisitFollows
<1>7. CASE Project!OverviewLands(i)
  <2>1. read[i].of = "overview" /\ opening
    BY <1>1, <1>7 DEF Project!Landing, OpeningFollows
  <2>2. /\ activeTab = "overview" /\ history = None
        /\ \A j \in Project!Reads : read[j].at # "idle" => read[j].of \in {"overview", "metrics"}
    BY <2>1 DEF TabsComeLater
  <2>3. overview' # None /\ overview' \in Nat /\ overview' <= edition /\ latest' = overview'
    BY <1>1, <1>7, ReadTypes DEF VisitFollows
  <2>4. TabsComeLater'
    BY <1>1, <1>3, <1>7, <2>2 DEF TabsComeLater
  <2>5. OverviewComes'
    BY <2>3 DEF OverviewComes
  <2>6. LatestFollows'
    BY <1>1, <1>3, <1>7, <2>2, <2>3 DEF LatestFollows
  <2>7. TabFollows'
    BY <1>1, <2>2 DEF TabFollows
  <2> QED BY <1>3, <1>5, <1>6, <2>4, <2>5, <2>6, <2>7
<1>8. CASE Project!SEOLands(i)
  <2>1. read[i].of = "seo" /\ overview # None /\ ~opening
    BY <1>1, <1>8 DEF Project!Landing, TabsComeLater
  <2>2. seo' \in Nat /\ seo' # None /\ UNCHANGED <<overview, latest, history>>
    BY <1>1, <1>8, ReadTypes
  <2>3. (TabsComeLater /\ OverviewComes)'
    BY <1>3, <2>1, <2>2 DEF TabsComeLater, OverviewComes
  <2>4. LatestFollows'
    BY <1>1, <1>3, <2>1, <2>2 DEF LatestFollows
  <2>5. TabFollows'
    BY <1>1, <1>3, <1>8, <2>1, <2>2 DEF TabFollows, VisitFollows
  <2> QED BY <1>3, <1>5, <1>6, <2>3, <2>4, <2>5
<1>9. CASE Project!SocialLands(i)
  <2>1. read[i].of = "social" /\ overview # None /\ ~opening
    BY <1>1, <1>9 DEF Project!Landing, TabsComeLater
  <2>2. /\ latest' = read[i].edition /\ history' = read[i].edition /\ latest' # None
        /\ latest' \in Nat /\ UNCHANGED <<overview, seo>>
    BY <1>1, <1>9, ReadTypes
  <2>3. (TabsComeLater /\ OverviewComes)'
    BY <1>3, <2>1, <2>2 DEF TabsComeLater, OverviewComes
  <2>4. LatestFollows'
    BY <1>1, <1>3, <2>1, <2>2 DEF LatestFollows
  <2>5. TabFollows'
    BY <1>1, <1>3, <2>1, <2>2 DEF TabFollows, VisitFollows
  <2> QED BY <1>3, <1>5, <1>6, <2>3, <2>4, <2>5
<1>10. CASE Project!MetricsLand(i)
  <2>1. read[i].of = "metrics" /\ UNCHANGED <<overview, seo, latest, history>>
    BY <1>10 DEF Project!Landing
  <2>2. activeTab \in {"overview", "seo", "social"}
    BY DEF Project!DetailTypeOK, Project!Tabs
  <2>3. (TabsComeLater /\ OverviewComes)'
    BY <1>1, <1>3, <2>1 DEF TabsComeLater, OverviewComes
  <2>4. LatestFollows'
    BY <1>1, <1>3, <2>1 DEF LatestFollows
  <2>5. TabFollows'
    BY <1>1, <1>3, <2>1, <2>2 DEF TabFollows
  <2> QED BY <1>3, <1>5, <1>6, <2>3, <2>4, <2>5
<1> QED BY <1>7, <1>8, <1>9, <1>10

LEMMA DetailStepInv ==
    ASSUME DetailInv, Project!DetailNext
    PROVE  DetailInv'
BY ChooseTabInv, AnswerReadInv, DataMovesInv, ReadFailsInv, ReadLandsInv DEF Project!DetailNext-----------------------------------------------------------------------------
(* The lists of users and of projects.                                     *)

\* Finite sets, as the module of the lists names them.
LEMMA SameCardinality ==
    \A S : /\ List!IsFiniteSet(S) <=> IsFiniteSet(S)
           /\ List!Cardinality(S) = Cardinality(S)
BY DEF List!IsFiniteSet, IsFiniteSet, List!Cardinality, Cardinality

LEMMA ListBounds ==
    /\ IsFiniteSet(Users) /\ Users \in SUBSET Nat
    /\ Size \in Nat \ {0} /\ MaxAsked \in Nat \ {0}
BY ConsoleAssumption, SameCardinality DEF ConsoleAssumption, List!ListAssumption

\* The places of the members of a finite set of numbers are 1 .. Cardinality(S), each taken once.
LEMMA Places ==
    ASSUME NEW S \in SUBSET Nat, IsFiniteSet(S)
    PROVE  LET place == [u \in S |-> Cardinality({v \in S : v <= u})]
           IN  /\ place \in Injection(S, 1 .. Cardinality(S))
               /\ place \in Surjection(S, 1 .. Cardinality(S))
<1> DEFINE Upto(u) == {v \in S : v <= u}
           place == [u \in S |-> Cardinality(Upto(u))]
<1>1. Cardinality(S) \in Nat
  BY FS_CardinalityType
<1>2. \A u \in S : /\ IsFiniteSet(Upto(u)) /\ Cardinality(Upto(u)) \in Nat
                   /\ Cardinality(Upto(u)) <= Cardinality(S)
                   /\ u \in Upto(u)
  <2> TAKE u \in S
  <2>1. Upto(u) \in SUBSET S /\ u \in Upto(u)
    OBVIOUS
  <2> QED BY <2>1, FS_Subset, FS_CardinalityType
<1>3. \A u \in S : Cardinality(Upto(u)) \in 1 .. Cardinality(S)
  <2> TAKE u \in S
  <2>1. Cardinality(Upto(u)) # 0
    BY <1>2, FS_EmptySet
  <2> QED BY <1>1, <1>2, <2>1
<1>4. \A u, w \in S : u < w => Cardinality(Upto(u)) # Cardinality(Upto(w))
  <2>1. SUFFICES ASSUME NEW u \in S, NEW w \in S, u < w
                 PROVE  Cardinality(Upto(u)) # Cardinality(Upto(w))
    OBVIOUS
  <2>2. u \in Nat /\ w \in Nat
    OBVIOUS
  <2>3. Upto(u) \in SUBSET Upto(w) /\ w \in Upto(w) /\ w \notin Upto(u)
    <3>1. \A v \in S : v \in Nat /\ (v <= u => v <= w)
      BY <2>1, <2>2
    <3>2. w \in Upto(w) /\ w \notin Upto(u)
      BY <2>1, <2>2
    <3> QED BY <3>1, <3>2
  <2>4. IsFiniteSet(Upto(w)) /\ Upto(u) # Upto(w)
    BY <1>2, <2>3
  <2> HIDE DEF Upto
  <2> QED BY <2>3, <2>4, FS_Subset
<1>5. \A u, w \in S : Cardinality(Upto(u)) = Cardinality(Upto(w)) => u = w
  <2>1. \A u, w \in S : u < w \/ w < u \/ u = w
    OBVIOUS
  <2> QED BY <1>4, <2>1
<1>6. place \in [S -> 1 .. Cardinality(S)] /\ \A u \in S : place[u] = Cardinality(Upto(u))
  BY <1>3
<1>7. place \in Injection(S, 1 .. Cardinality(S))
  <2> HIDE DEF place, Upto
  <2> QED BY <1>5, <1>6 DEF Injection, IsInjective
<1>8. IsFiniteSet(1 .. Cardinality(S)) /\ Cardinality(1 .. Cardinality(S)) = Cardinality(S)
  BY <1>1, FS_Interval
<1>9. place \in Surjection(S, 1 .. Cardinality(S))
  <2> HIDE DEF place
  <2> QED BY <1>7, <1>8, FS_Injection
<1> QED BY <1>7, <1>9

\* What the pager computes: the p-th page is the places from (p - 1) * Size + 1 to p * Size.
LEMMA PageOfPlace ==
    ASSUME NEW p \in Nat \ {0}, NEW c \in Nat \ {0}
    PROVE  (c - 1) \div Size = p - 1 <=> c \in (p - 1) * Size + 1 .. (p - 1) * Size + Size
<1>1. Size \in Nat \ {0}
  BY ListBounds
<1> QED BY <1>1

\* A page has at most Size rows, and some unless it is beyond the last.
LEMMA SliceRows ==
    ASSUME NEW S \in SUBSET Nat, IsFiniteSet(S), NEW p \in Nat \ {0}
    PROVE  /\ List!Slice(S, p) \subseteq S
           /\ Cardinality(List!Slice(S, p)) <= Size
           /\ (p - 1) * Size < Cardinality(S) => List!Slice(S, p) # {}
<1> DEFINE place == [u \in S |-> Cardinality({v \in S : v <= u})]
           Page == (p - 1) * Size + 1 .. (p - 1) * Size + Size
<1>1. Size \in Nat \ {0} /\ (p - 1) * Size \in Nat
  BY ListBounds
<1>2. Cardinality(S) \in Nat
  BY FS_CardinalityType
<1>3. place \in Injection(S, 1 .. Cardinality(S)) /\ place \in Surjection(S, 1 .. Cardinality(S))
  BY Places
<1>4. \A u \in S : place[u] = Cardinality({v \in S : v <= u})
  OBVIOUS
<1> HIDE DEF place
<1>5. /\ place \in [S -> 1 .. Cardinality(S)]
      /\ \A u, w \in S : place[u] = place[w] => u = w
      /\ \A c \in 1 .. Cardinality(S) : \E u \in S : place[u] = c
  BY <1>3 DEF Injection, IsInjective, Surjection
<1>6. List!Slice(S, p) = {u \in S : place[u] \in Page}
  <2>1. \A u \in S : (place[u] - 1) \div Size = p - 1 <=> place[u] \in Page
    BY <1>2, <1>5, PageOfPlace
  <2>2. List!Slice(S, p) =
            {u \in S : (Cardinality({v \in S : v <= u}) - 1) \div Size = p - 1}
    BY SameCardinality, Zenon DEF List!Slice
  <2>3. \A u \in S : (Cardinality({v \in S : v <= u}) - 1) \div Size = p - 1
                        <=> place[u] \in Page
    BY <1>4, <2>1, Zenon
  <2> QED BY <2>2, <2>3, Zenon
<1>7. IsFiniteSet(Page) /\ Cardinality(Page) = Size
  BY <1>1, FS_Interval
<1>8. Cardinality(List!Slice(S, p)) <= Size
  <2> DEFINE g == [u \in List!Slice(S, p) |-> place[u]]
  <2>1. g \in Injection(List!Slice(S, p), Page)
    BY <1>5, <1>6 DEF Injection, IsInjective
  <2> HIDE DEF g, Page
  <2> QED BY <1>7, <2>1, FS_Injection
<1>9. ASSUME (p - 1) * Size < Cardinality(S)
      PROVE  List!Slice(S, p) # {}
  <2>1. (p - 1) * Size + 1 \in 1 .. Cardinality(S) /\ (p - 1) * Size + 1 \in Page
    BY <1>1, <1>2, <1>9
  <2>2. PICK u \in S : place[u] = (p - 1) * Size + 1
    BY <1>5, <2>1
  <2> QED BY <1>6, <2>1, <2>2
<1> QED BY <1>6, <1>8, <1>9
AskRecord ==
    [at : {"idle", "sent", "answered", "over"}, search : BOOLEAN, dropdown : BOOLEAN,
     plan : BOOLEAN, page : Nat \ {0}, rows : SUBSET Users, total : 0 .. Cardinality(Users)]

\* The requests are records, and no answer has more rows than a page.
AsksAreRecords ==
    /\ ask \in [List!Asks -> AskRecord]
    /\ \A i \in List!Asks : Cardinality(ask[i].rows) <= Size

\* The newest request is the one of the inputs.
NewestIsQuery ==
    /\ ask[asked].search = search /\ ask[asked].dropdown = dropdown
    /\ ask[asked].plan = plan /\ ask[asked].page = pageNo

\* The rows and the total that an API of users X has for a request.
FittingIn(X, r) == {u \in X : (r.search => u \in Named) /\ (r.dropdown => u \in Narrowed)}
RowsFor(X, r) == {u \in List!Slice(FittingIn(X, r), r.page) : r.plan => u \in OnPlan}
TotalFor(X, r) == Cardinality(FittingIn(X, r))

\* While no users come or go, the newest request's answer stays right, on its way and shown.
AnswerIsCurrent ==
    ~moved =>
        /\ ask[asked].at = "answered" =>
              ask[asked].rows = RowsFor(existing, ask[asked]) /\ ask[asked].total = TotalFor(existing, ask[asked])
        /\ shownAsk = asked => rows = RowsFor(existing, ask[asked]) /\ total = TotalFor(existing, ask[asked])

\* Nobody who waits for the answers gets beyond the last page.
PageExists ==
    /\ pageNo <= asked
    /\ ~hasty /\ ~moved => pageNo = 1 \/ (pageNo - 1) * Size < TotalFor(existing, ask[asked])

ListInv ==
    /\ List!ListTypeOK /\ AsksAreRecords /\ NewestIsQuery /\ AnswerIsCurrent /\ PageExists
    /\ List!ListSpinnerHasCause

LEMMA FittingUsers ==
    ASSUME NEW X \in SUBSET Users, NEW r
    PROVE  /\ FittingIn(X, r) \in SUBSET Users /\ FittingIn(X, r) \in SUBSET Nat
           /\ IsFiniteSet(FittingIn(X, r))
           /\ TotalFor(X, r) \in 0 .. Cardinality(Users) /\ TotalFor(X, r) \in Nat
<1>1. FittingIn(X, r) \in SUBSET Users
  BY DEF FittingIn
<1>2. FittingIn(X, r) \in SUBSET Nat
  BY <1>1, ListBounds
<1>3. /\ IsFiniteSet(FittingIn(X, r)) /\ TotalFor(X, r) \in Nat
      /\ TotalFor(X, r) <= Cardinality(Users) /\ Cardinality(Users) \in Nat
  BY <1>1, ListBounds, FS_Subset, FS_CardinalityType DEF TotalFor
<1> QED BY <1>1, <1>2, <1>3

LEMMA RowsOfAnswer ==
    ASSUME NEW X \in SUBSET Users, NEW r \in AskRecord
    PROVE  /\ RowsFor(X, r) \in SUBSET Users /\ Cardinality(RowsFor(X, r)) <= Size
           /\ (r.page - 1) * Size < TotalFor(X, r) /\ ~r.plan => RowsFor(X, r) # {}
<1>1. r.page \in Nat \ {0}
  BY DEF AskRecord
<1> DEFINE S == List!Slice(FittingIn(X, r), r.page)
<1>2. /\ S \subseteq FittingIn(X, r) /\ Cardinality(S) <= Size
      /\ (r.page - 1) * Size < TotalFor(X, r) => S # {}
  BY <1>1, FittingUsers, SliceRows DEF TotalFor
<1>3. RowsFor(X, r) = {u \in S : r.plan => u \in OnPlan}
  BY DEF RowsFor
<1> HIDE DEF S
<1>4. IsFiniteSet(S) /\ RowsFor(X, r) \in SUBSET S /\ Cardinality(S) \in Nat
  BY <1>2, <1>3, FittingUsers, FS_Subset, FS_CardinalityType
<1>5. Cardinality(RowsFor(X, r)) <= Cardinality(S) /\ Cardinality(RowsFor(X, r)) \in Nat
  BY <1>4, FS_Subset, FS_CardinalityType
<1>6. Size \in Nat
  BY ListBounds
<1>7. Cardinality(RowsFor(X, r)) <= Size
  BY <1>2, <1>4, <1>5, <1>6
<1> QED BY <1>2, <1>3, <1>4, <1>7, FittingUsers

\* The invariant says what the page promises.
LEMMA ListPromise ==
    ASSUME ListInv
    PROVE  List!ListAnswersFilters
<1> USE DEF ListInv
<1>1. SUFFICES ASSUME shownAsk = asked, rows = {}, ~hasty, ~moved, ~plan
               PROVE  total = 0
  BY DEF List!ListAnswersFilters, NewestIsQuery
<1>2. ask[asked] \in AskRecord /\ ask[asked].page = pageNo /\ ask[asked].plan = plan
  BY DEF AsksAreRecords, NewestIsQuery, List!ListTypeOK, List!Asks
<1>3. RowsFor(existing, ask[asked]) = {} /\ total = TotalFor(existing, ask[asked])
  BY <1>1 DEF AnswerIsCurrent
<1>4. ~((pageNo - 1) * Size < TotalFor(existing, ask[asked]))
  BY <1>1, <1>2, <1>3, RowsOfAnswer DEF List!ListTypeOK
<1>5. pageNo = 1
  BY <1>1, <1>4 DEF PageExists
<1>6. TotalFor(existing, ask[asked]) \in Nat /\ Size \in Nat
  BY FittingUsers, ListBounds DEF List!ListTypeOK
<1> QED BY <1>3, <1>4, <1>5, <1>6

LEMMA AskTypes ==
    /\ List!NoAsk \in AskRecord /\ List!NoAsk.at = "idle"
    /\ List!NoAsk.rows = {} /\ List!NoAsk.total = 0
    /\ Cardinality({}) = 0 /\ 0 <= Size
<1>1. 0 \in 0 .. Cardinality(Users)
  BY ListBounds, FS_CardinalityType
<1>2. List!NoAsk \in AskRecord
  BY <1>1 DEF List!NoAsk, AskRecord
<1>3. Cardinality({}) = 0 /\ 0 <= Size
  BY FS_EmptySet, ListBounds
<1> QED BY <1>2, <1>3 DEF List!NoAsk

\* A request that is sent asks for what it was sent with.
AsksFor(a, s, d, l, p) ==
    /\ a \in AskRecord /\ a.at = "sent" /\ a.rows = {}
    /\ a.search = s /\ a.dropdown = d /\ a.plan = l /\ a.page = p

LEMMA SentAsk ==
    ASSUME NEW s \in BOOLEAN, NEW d \in BOOLEAN, NEW l \in BOOLEAN, NEW p \in Nat \ {0}
    PROVE  AsksFor(List!Sent(s, d, l, p), s, d, l, p)
BY AskTypes DEF AskRecord, List!Sent, List!NoAsk, AsksFor

LEMMA ListInit ==
    ASSUME List!ListInit
    PROVE  ListInv
<1>1. /\ dropdown \in BOOLEAN /\ search = FALSE /\ plan = FALSE /\ pageNo = 1 /\ asked = 1
      /\ list \in {"users", "projects"} /\ existing \subseteq Users
      /\ rows = {} /\ total = 0 /\ shownAsk = 0
      /\ listing = TRUE /\ hasty = FALSE /\ moved = FALSE
  BY DEF List!ListInit
<1>2. ask = [i \in List!Asks |-> IF i = 1 THEN List!Sent(FALSE, dropdown, FALSE, 1)
                                ELSE List!NoAsk]
  BY DEF List!ListInit
<1>3. /\ 1 \in List!Asks /\ List!Asks \subseteq Nat /\ MaxAsked \in Nat
      /\ \A i \in List!Asks : i # 1 <=> i > 1
  BY ListBounds DEF List!Asks
<1>4. AsksFor(List!Sent(FALSE, dropdown, FALSE, 1), FALSE, dropdown, FALSE, 1)
  <2>1. FALSE \in BOOLEAN /\ dropdown \in BOOLEAN /\ 1 \in Nat \ {0}
    BY <1>1
  <2> QED BY <2>1, SentAsk, Zenon
<1>5. \A i \in List!Asks : ask[i] \in AskRecord
  BY <1>2, <1>4, AskTypes DEF AsksFor
<1>6. /\ ask[1].at = "sent" /\ ask[1].search = search /\ ask[1].plan = plan
      /\ ask[1].dropdown = dropdown /\ ask[1].page = 1 /\ ask[1].rows = {}
  BY <1>1, <1>2, <1>3, <1>4 DEF AsksFor
<1>7. \A i \in List!Asks : i # 1 => ask[i].at = "idle" /\ ask[i].rows = {}
  BY <1>2, AskTypes
<1>8. AsksAreRecords
  <2>1. ask \in [List!Asks -> AskRecord]
    BY <1>2, <1>5
  <2>2. \A i \in List!Asks : ask[i].rows = {}
    BY <1>6, <1>7
  <2> QED BY <2>1, <2>2, AskTypes DEF AsksAreRecords
<1>9. List!ListTypeOK
  <2>1. List!Cardinality(rows) <= Size /\ total \in 0 .. List!Cardinality(Users)
    BY <1>1, AskTypes, SameCardinality, ListBounds, FS_CardinalityType
  <2>2. \A i \in List!Asks : /\ ask[i].at \in {"idle", "sent", "answered", "over"}
                             /\ ask[i].at = "idle" <=> i > asked
    BY <1>1, <1>3, <1>6, <1>7
  <2>3. asked \in 1 .. MaxAsked /\ shownAsk \in 0 .. asked /\ pageNo \in 1 .. MaxAsked + 1
    BY <1>1, <1>3, ListBounds
  <2> QED BY <1>1, <2>1, <2>2, <2>3 DEF List!ListTypeOK
<1>10. NewestIsQuery /\ AnswerIsCurrent /\ PageExists
  BY <1>1, <1>6 DEF NewestIsQuery, AnswerIsCurrent, PageExists
<1>11. List!ListSpinnerHasCause
  BY <1>3, <1>6 DEF List!ListSpinnerHasCause, List!Waiting
<1> QED BY <1>8, <1>9, <1>10, <1>11 DEF ListInv
\* The facts of the list's types that every step needs.
LEMMA ListTypes ==
    ASSUME List!ListTypeOK, AsksAreRecords
    PROVE  /\ asked \in List!Asks /\ asked \in Nat \ {0} /\ List!Asks \subseteq Nat
           /\ shownAsk \in Nat /\ shownAsk <= asked /\ pageNo \in Nat \ {0}
           /\ search \in BOOLEAN /\ dropdown \in BOOLEAN /\ plan \in BOOLEAN
           /\ existing \in SUBSET Users
           /\ rows \in SUBSET Users /\ Cardinality(rows) <= Size
           /\ total \in 0 .. Cardinality(Users) /\ total \in Nat
           /\ \A i \in List!Asks :
                 /\ ask[i] \in AskRecord
                 /\ ask[i].search \in BOOLEAN /\ ask[i].dropdown \in BOOLEAN
                 /\ ask[i].plan \in BOOLEAN /\ ask[i].page \in Nat \ {0}
                 /\ ask[i].rows \in SUBSET Users /\ Cardinality(ask[i].rows) <= Size
                 /\ ask[i].total \in 0 .. Cardinality(Users)
<1>1. /\ asked \in List!Asks /\ List!Asks \subseteq Nat /\ asked \in Nat \ {0}
      /\ shownAsk \in Nat /\ shownAsk <= asked /\ pageNo \in Nat \ {0}
  BY ListBounds DEF List!ListTypeOK, List!Asks
<1>2. Cardinality(Users) \in Nat
  BY ListBounds, FS_CardinalityType
<1>3. Cardinality(rows) <= Size /\ total \in 0 .. Cardinality(Users) /\ total \in Nat
  BY <1>2, SameCardinality DEF List!ListTypeOK
<1>4. \A i \in List!Asks : ask[i] \in AskRecord /\ Cardinality(ask[i].rows) <= Size
  BY DEF AsksAreRecords
<1>5. \A a \in AskRecord : /\ a.search \in BOOLEAN /\ a.dropdown \in BOOLEAN
                           /\ a.plan \in BOOLEAN /\ a.page \in Nat \ {0}
                           /\ a.rows \in SUBSET Users /\ a.total \in 0 .. Cardinality(Users)
  BY DEF AskRecord
<1> QED BY <1>1, <1>3, <1>4, <1>5 DEF List!ListTypeOK

\* A change of the inputs sends a request for them.
LEMMA FetchInv ==
    ASSUME ListInv, NEW s \in BOOLEAN, NEW d \in BOOLEAN, NEW l \in BOOLEAN, NEW p \in Nat \ {0},
           List!fetchUsers(s, d, l, p), hasty' \in BOOLEAN, p <= pageNo + 1,
           ~hasty' /\ ~moved =>
              p = 1 \/ /\ s = search /\ d = dropdown
                       /\ (p - 1) * Size < TotalFor(existing, ask[asked])
    PROVE  ListInv'
<1> USE DEF ListInv, List!fetchUsers, List!answer
<1>1. /\ asked' = asked + 1 /\ asked + 1 \in List!Asks /\ asked + 1 \in Nat
      /\ asked < MaxAsked /\ MaxAsked \in Nat /\ asked \in Nat \ {0}
      /\ List!Asks \subseteq Nat /\ shownAsk \in Nat /\ shownAsk <= asked
  BY ListTypes, ListBounds DEF List!Asks
<1>2. AsksFor(List!Sent(s, d, l, p), s, d, l, p)
  BY SentAsk
<1>3. /\ ask' \in [List!Asks -> AskRecord]
      /\ AsksFor(ask'[asked'], s, d, l, p)
      /\ \A i \in List!Asks : i # asked' => ask'[i] = ask[i]
  BY <1>1, <1>2 DEF AsksAreRecords, AsksFor
<1>4. AsksAreRecords'
  BY <1>1, <1>3, AskTypes DEF AsksAreRecords, AsksFor
<1>5. List!ListTypeOK'
  <2>1. pageNo' \in 1 .. MaxAsked + 1 /\ asked' \in 1 .. MaxAsked /\ shownAsk' \in 0 .. asked'
    BY <1>1 DEF PageExists, List!ListTypeOK
  <2>2. \A i \in List!Asks : /\ ask'[i].at \in {"idle", "sent", "answered", "over"}
                             /\ ask'[i].at = "idle" <=> i > asked'
    BY <1>1, <1>3 DEF List!ListTypeOK, AsksFor
  <2> QED BY <2>1, <2>2 DEF List!ListTypeOK
<1>6. NewestIsQuery'
  BY <1>3 DEF NewestIsQuery, AsksFor
<1>7. AnswerIsCurrent'
  BY <1>1, <1>3 DEF AnswerIsCurrent, AsksFor
<1>8. PageExists'
  <2>1. pageNo' <= asked'
    BY <1>1, ListTypes DEF PageExists
  <2>2. ASSUME s = search, d = dropdown
        PROVE  TotalFor(existing', ask'[asked']) = TotalFor(existing, ask[asked])
    BY <1>3, <2>2 DEF TotalFor, FittingIn, AsksFor, NewestIsQuery
  <2> QED BY <2>1, <2>2 DEF PageExists
<1>9. List!ListSpinnerHasCause'
  BY <1>1, <1>3 DEF List!ListSpinnerHasCause, List!Waiting, AsksFor
<1> QED BY <1>4, <1>5, <1>6, <1>7, <1>8, <1>9

LEMMA TurnPageInv ==
    ASSUME ListInv, List!turnPage
    PROVE  ListInv'
<1> USE DEF ListInv, List!turnPage
<1> DEFINE T == TotalFor(existing, ask[asked])
<1>1. /\ search \in BOOLEAN /\ dropdown \in BOOLEAN /\ plan \in BOOLEAN
      /\ pageNo \in Nat \ {0} /\ total \in Nat /\ T \in Nat /\ Size \in Nat \ {0}
  BY ListTypes, ListBounds, FittingUsers
<1>2. hasty' \in BOOLEAN /\ (~hasty' => ~hasty /\ shownAsk = asked)
  BY DEF List!ListTypeOK
<1>3. ~hasty' /\ ~moved => total = T /\ (pageNo = 1 \/ (pageNo - 1) * Size < T)
  BY <1>2 DEF AnswerIsCurrent, PageExists
<1> HIDE DEF T
<1>4. CASE pageNo > 1 /\ List!fetchUsers(search, dropdown, plan, pageNo - 1)
  <2>1. pageNo - 1 \in Nat \ {0} /\ pageNo - 1 <= pageNo + 1
    BY <1>1, <1>4
  <2>2. (pageNo - 1) * Size < T => (pageNo - 1 - 1) * Size < T
    <3>1. (pageNo - 1 - 1) * Size + Size = (pageNo - 1) * Size
      BY <1>1
    <3>2. (pageNo - 1 - 1) * Size \in Int /\ (pageNo - 1) * Size \in Int
      BY <1>1
    <3> QED BY <1>1, <3>1, <3>2
  <2>3. ~hasty' /\ ~moved => pageNo - 1 = 1 \/ (pageNo - 1 - 1) * Size < T
    BY <1>3, <1>4, <2>2
  <2> QED BY <1>1, <1>2, <1>4, <2>1, <2>3, FetchInv DEF T
<1>5. CASE pageNo * Size < total /\ List!fetchUsers(search, dropdown, plan, pageNo + 1)
  <2>1. /\ pageNo + 1 \in Nat \ {0} /\ pageNo + 1 <= pageNo + 1
        /\ pageNo + 1 - 1 = pageNo
    BY <1>1
  <2>2. ~hasty' /\ ~moved => pageNo + 1 = 1 \/ (pageNo + 1 - 1) * Size < T
    BY <1>3, <1>5, <2>1
  <2> QED BY <1>1, <1>2, <1>5, <2>1, <2>2, FetchInv DEF T
<1> QED BY <1>4, <1>5

LEMMA ControlsInv ==
    ASSUME ListInv, List!setSearch \/ List!setDropdown \/ List!setPlan \/ List!clearFilters
    PROVE  ListInv'
<1>1. /\ search \in BOOLEAN /\ dropdown \in BOOLEAN /\ plan \in BOOLEAN /\ hasty \in BOOLEAN
      /\ 1 \in Nat \ {0} /\ 1 <= pageNo + 1
  BY ListTypes DEF ListInv, List!ListTypeOK
<1>2. hasty' \in BOOLEAN
  BY <1>1 DEF List!setSearch, List!setDropdown, List!setPlan, List!clearFilters
<1>3. \E s, d, l \in BOOLEAN : List!fetchUsers(s, d, l, 1)
  <2>1. (~search) \in BOOLEAN /\ TRUE \in BOOLEAN /\ FALSE \in BOOLEAN
    OBVIOUS
  <2> QED
    BY <1>1, <2>1, Zenon DEF List!setSearch, List!setDropdown, List!setPlan, List!clearFilters
<1> QED BY <1>1, <1>2, <1>3, FetchInv
\* What request i becomes when it is answered, shown or failed.
Becomes(i, a, R, T) ==
    /\ ask' \in [List!Asks -> AskRecord]
    /\ ask'[i].at = a /\ ask'[i].rows = R /\ ask'[i].total = T
    /\ ask'[i].search = ask[i].search /\ ask'[i].dropdown = ask[i].dropdown
    /\ ask'[i].plan = ask[i].plan /\ ask'[i].page = ask[i].page
    /\ \A j \in List!Asks : j # i => ask'[j] = ask[j]

LEMMA AskUpdate ==
    ASSUME ask \in [List!Asks -> AskRecord], NEW i \in List!Asks,
           NEW a \in {"idle", "sent", "answered", "over"},
           NEW R \in SUBSET Users, NEW T \in 0 .. Cardinality(Users),
           ask' = [ask EXCEPT ![i].at = a, ![i].rows = R, ![i].total = T]
    PROVE  Becomes(i, a, R, T)
<1> DEFINE r == ask[i]
           r1 == [r EXCEPT !.at = a]
           r2 == [r1 EXCEPT !.rows = R]
           r3 == [r2 EXCEPT !.total = T]
<1>1. ask' = [ask EXCEPT ![i] = r3]
  OBVIOUS
<1>2. r \in AskRecord
  OBVIOUS
<1> HIDE DEF r
<1>3. /\ r1 \in AskRecord /\ r1.at = a
      /\ r1.search = r.search /\ r1.dropdown = r.dropdown /\ r1.plan = r.plan /\ r1.page = r.page
  BY <1>2 DEF AskRecord
<1> HIDE DEF r1
<1>4. /\ r2 \in AskRecord /\ r2.at = r1.at /\ r2.rows = R
      /\ r2.search = r1.search /\ r2.dropdown = r1.dropdown /\ r2.plan = r1.plan
      /\ r2.page = r1.page
  BY <1>3 DEF AskRecord
<1> HIDE DEF r2
<1>5. /\ r3 \in AskRecord /\ r3.at = r2.at /\ r3.rows = r2.rows /\ r3.total = T
      /\ r3.search = r2.search /\ r3.dropdown = r2.dropdown /\ r3.plan = r2.plan
      /\ r3.page = r2.page
  BY <1>4 DEF AskRecord
<1> HIDE DEF r3
<1>6. /\ ask' \in [List!Asks -> AskRecord] /\ ask'[i] = r3
      /\ \A j \in List!Asks : j # i => ask'[j] = ask[j]
  BY <1>1, <1>5
<1> QED BY <1>3, <1>4, <1>5, <1>6 DEF Becomes, r

\* What the API has for a request does not change as the request goes on.
LEMMA SameAnswer ==
    ASSUME NEW i \in List!Asks, NEW a, NEW R, NEW T, Becomes(i, a, R, T), NEW j \in List!Asks
    PROVE  /\ RowsFor(existing, ask'[j]) = RowsFor(existing, ask[j])
           /\ TotalFor(existing, ask'[j]) = TotalFor(existing, ask[j])
           /\ ask'[j].search = ask[j].search /\ ask'[j].dropdown = ask[j].dropdown
           /\ ask'[j].plan = ask[j].plan /\ ask'[j].page = ask[j].page
BY DEF Becomes, RowsFor, TotalFor, FittingIn

LEMMA AnswerInv ==
    ASSUME ListInv, NEW i \in List!Asks, List!ListUsers(i)
    PROVE  ListInv'
<1> USE DEF ListInv, List!ListUsers, List!answer, List!query
<1> DEFINE R == RowsFor(existing, ask[i])
           T == TotalFor(existing, ask[i])
<1>1. ask' = [ask EXCEPT ![i].at = "answered", ![i].rows = R, ![i].total = T]
  BY SameCardinality, Zenon DEF List!Fitting, RowsFor, TotalFor, FittingIn
<1>2. R \in SUBSET Users /\ Cardinality(R) <= Size /\ T \in 0 .. Cardinality(Users)
  BY ListTypes, RowsOfAnswer, FittingUsers
<1>3. Becomes(i, "answered", R, T) /\ ask[i].at = "sent"
  <2> HIDE DEF R, T
  <2> QED BY <1>1, <1>2, AskUpdate DEF AsksAreRecords
<1>4. asked \in List!Asks
  BY ListTypes
<1>5. AsksAreRecords'
  <2> HIDE DEF R, T
  <2> QED BY <1>2, <1>3 DEF AsksAreRecords, Becomes
<1>6. List!ListTypeOK'
  <2> HIDE DEF R, T
  <2> QED BY <1>3 DEF List!ListTypeOK, Becomes
<1>7. NewestIsQuery'
  <2> HIDE DEF R, T
  <2> QED BY <1>3, <1>4, SameAnswer DEF NewestIsQuery
<1>8. AnswerIsCurrent'
  <2>1. RowsFor(existing, ask'[asked]) = RowsFor(existing, ask[asked])
    BY <1>3, <1>4, SameAnswer
  <2>2. TotalFor(existing, ask'[asked]) = TotalFor(existing, ask[asked])
    BY <1>3, <1>4, SameAnswer
  <2>3. CASE i = asked
    BY <1>3, <2>1, <2>2, <2>3 DEF AnswerIsCurrent, Becomes
  <2>4. CASE i # asked
    BY <1>3, <1>4, <2>1, <2>2, <2>4 DEF AnswerIsCurrent, Becomes
  <2> QED BY <2>3, <2>4
<1>9. PageExists'
  <2>1. TotalFor(existing, ask'[asked]) = TotalFor(existing, ask[asked])
    BY <1>3, <1>4, SameAnswer
  <2> QED BY <2>1 DEF PageExists
<1>10. List!ListSpinnerHasCause'
  <2> HIDE DEF R, T
  <2> QED BY <1>3 DEF List!ListSpinnerHasCause, List!Waiting, Becomes
<1> QED BY <1>5, <1>6, <1>7, <1>8, <1>9, <1>10

\* A request is over: its answer is shown, or it failed.
LEMMA RequestOverInv ==
    ASSUME ListInv, NEW i \in List!Asks, Becomes(i, "over", {}, 0), listing' = FALSE,
           ask[i].at \in {"sent", "answered"},
           UNCHANGED <<list, existing, search, dropdown, plan, pageNo, asked, hasty, moved>>,
           \/ UNCHANGED <<rows, total, shownAsk>>
           \/ /\ ask[i].at = "answered"
              /\ rows' = ask[i].rows /\ total' = ask[i].total /\ shownAsk' = i
    PROVE  ListInv'
<1> USE DEF ListInv
<1>1. asked \in List!Asks
  BY ListTypes
<1>2. AsksAreRecords'
  BY AskTypes DEF AsksAreRecords, Becomes
<1>3. List!ListTypeOK'
  <2>1. /\ rows' \subseteq Users /\ List!Cardinality(rows') <= Size
        /\ total' \in 0 .. List!Cardinality(Users)
    BY ListTypes, SameCardinality
  <2>2. i \in 1 .. asked /\ asked' \in 1 .. MaxAsked /\ shownAsk' \in 0 .. asked'
    <3>1. i \in Nat /\ i >= 1 /\ i <= asked /\ asked \in Nat
      BY ListTypes, ListBounds DEF List!Asks, List!ListTypeOK
    <3> QED BY <3>1 DEF List!ListTypeOK
  <2>3. \A j \in List!Asks : /\ ask'[j].at \in {"idle", "sent", "answered", "over"}
                             /\ ask'[j].at = "idle" <=> j > asked'
    BY DEF List!ListTypeOK, Becomes
  <2> QED BY <2>1, <2>2, <2>3 DEF List!ListTypeOK
<1>4. NewestIsQuery'
  BY <1>1, SameAnswer DEF NewestIsQuery
<1>5. /\ RowsFor(existing, ask'[asked]) = RowsFor(existing, ask[asked])
      /\ TotalFor(existing, ask'[asked]) = TotalFor(existing, ask[asked])
  BY <1>1, SameAnswer
<1>6. AnswerIsCurrent'
  BY <1>1, <1>5 DEF AnswerIsCurrent, Becomes
<1>7. PageExists'
  BY <1>5 DEF PageExists
<1>8. List!ListSpinnerHasCause'
  BY DEF List!ListSpinnerHasCause
<1> QED BY <1>2, <1>3, <1>4, <1>6, <1>7, <1>8

LEMMA LandsInv ==
    ASSUME ListInv, NEW i \in List!Asks, List!AnswerLands(i)
    PROVE  ListInv'
<1> USE DEF ListInv, List!AnswerLands, List!query
<1> DEFINE n == [List!NoAsk EXCEPT !.at = "over", !.search = ask[i].search,
                     !.dropdown = ask[i].dropdown, !.plan = ask[i].plan, !.page = ask[i].page]
<1>1. ask' = [ask EXCEPT ![i] = n]
  OBVIOUS
<1>2. /\ n \in AskRecord /\ n.at = "over" /\ n.rows = {} /\ n.total = 0
      /\ n.search = ask[i].search /\ n.dropdown = ask[i].dropdown
      /\ n.plan = ask[i].plan /\ n.page = ask[i].page
  BY ListTypes, AskTypes DEF AskRecord
<1> HIDE DEF n
<1>3. Becomes(i, "over", {}, 0)
  BY <1>1, <1>2 DEF Becomes, AsksAreRecords
<1> QED BY <1>3, RequestOverInv

LEMMA FailsInv ==
    ASSUME ListInv, NEW i \in List!Asks, List!UsersFail(i)
    PROVE  ListInv'
<1> USE DEF ListInv, List!UsersFail, List!query, List!answer
<1>1. 0 \in 0 .. Cardinality(Users) /\ {} \in SUBSET Users
  BY ListBounds, FS_CardinalityType
<1>2. Becomes(i, "over", {}, 0)
  BY <1>1, AskUpdate DEF AsksAreRecords
<1>3. ask[i].at \in {"sent", "answered"}
  BY DEF List!Waiting
<1> QED BY <1>2, <1>3, RequestOverInv

LEMMA MoveInv ==
    ASSUME ListInv, NEW u \in Users, List!UsersMove(u)
    PROVE  ListInv'
<1> USE DEF ListInv, List!UsersMove, List!query, List!answer
<1>1. List!ListTypeOK'
  BY DEF List!ListTypeOK
<1>2. AsksAreRecords' /\ NewestIsQuery' /\ List!ListSpinnerHasCause'
  BY DEF AsksAreRecords, NewestIsQuery, List!ListSpinnerHasCause, List!Waiting
<1>3. AnswerIsCurrent' /\ PageExists'
  BY DEF AnswerIsCurrent, PageExists
<1> QED BY <1>1, <1>2, <1>3

LEMMA ListStepInv ==
    ASSUME ListInv, List!ListNext
    PROVE  ListInv'
BY ControlsInv, TurnPageInv, AnswerInv, LandsInv, FailsInv, MoveInv
   DEF List!ListNext, List!UserControls, List!ProjectControls, List!ProjectPager,
       List!UsersLand, List!ProjectsLand

-----------------------------------------------------------------------------
(* The console.                                                            *)

ConsoleInv ==
    /\ guard \in {"loading", "ok", "denied", "login"} /\ staff \in BOOLEAN
    /\ route = "list" => ListInv
    /\ route = "user" => UserInv
    /\ route = "editor" => EditorInv
    /\ route = "project" => DetailInv

LEMMA ConsoleInit == Init => ConsoleInv
BY ListInit, UserInit, EditorInit, DetailInit DEF Init, ConsoleInv

\* A page whose variables stay keeps its invariant.
LEMMA ListStays ==
    ASSUME ListInv, UNCHANGED ListVars
    PROVE  ListInv'
<1> USE DEF ListInv, ListVars
<1>1. List!ListTypeOK'
  BY DEF List!ListTypeOK
<1>2. AsksAreRecords' /\ NewestIsQuery' /\ List!ListSpinnerHasCause'
  BY DEF AsksAreRecords, NewestIsQuery, List!ListSpinnerHasCause, List!Waiting
<1>3. AnswerIsCurrent' /\ PageExists'
  BY DEF AnswerIsCurrent, PageExists
<1> QED BY <1>1, <1>2, <1>3

LEMMA UserStays ==
    ASSUME UserInv, UNCHANGED UserVars
    PROVE  UserInv'
<1> USE DEF UserInv, UserVars
<1>1. User!UserTypeOK' /\ User!UserSpinnerHasCause' /\ SentIsForm'
  BY DEF User!UserTypeOK, User!UserSpinnerHasCause, User!Visible, SentIsForm
<1>2. User!NothingUndone' /\ CopyFollows' /\ ReplyFollows' /\ FormFollows'
  BY DEF User!NothingUndone, CopyFollows, ReplyFollows, Agree, FormFollows
<1> QED BY <1>1, <1>2

LEMMA EditorStays ==
    ASSUME EditorInv, UNCHANGED EditorVars
    PROVE  EditorInv'
<1> USE DEF EditorInv, EditorVars
<1>1. Editor!EditorTypeOK' /\ Editor!EditorSpinnerHasCause'
  BY DEF Editor!EditorTypeOK, Editor!EditorSpinnerHasCause, Editor!UnderWay
<1>2. TableFollows' /\ RunsFollow' /\ ModalFollows' /\ SavesFollow'
  BY DEF TableFollows, RunsFollow, ModalFollows, SavesFollow, InHand, Editor!Taken,
         Editor!UnderWay
<1> QED BY <1>1, <1>2

LEMMA DetailStays ==
    ASSUME DetailInv, UNCHANGED ProjectVars
    PROVE  DetailInv'
<1> USE DEF DetailInv, ProjectVars
<1>1. Project!DetailTypeOK'
  BY DEF Project!DetailTypeOK
<1>2. OpeningFollows' /\ TabsComeLater' /\ OverviewComes'
  BY DEF OpeningFollows, TabsComeLater, OverviewComes
<1>3. LatestFollows' /\ VisitFollows' /\ TabFollows'
  BY DEF LatestFollows, VisitFollows, TabFollows
<1> QED BY <1>1, <1>2, <1>3

LEMMA ConsoleStep ==
    ASSUME ConsoleInv, [Next]_vars
    PROVE  ConsoleInv'
<1>1. CASE ListStep
  BY <1>1, ListStepInv DEF ListStep, ConsoleInv
<1>2. CASE UserStep
  BY <1>2, UserStepInv DEF UserStep, ConsoleInv
<1>3. CASE EditorStep
  BY <1>3, EditorStepInv DEF EditorStep, ConsoleInv
<1>4. CASE ProjectStep
  BY <1>4, DetailStepInv DEF ProjectStep, ConsoleInv
<1>5. CASE GuardAnswers \/ UNCHANGED vars
  <2>1. UNCHANGED <<route, staff, pageVars>> /\ guard' \in {"loading", "ok", "denied", "login"}
    BY <1>5 DEF GuardAnswers, vars, ConsoleInv
  <2> QED BY <2>1, ListStays, UserStays, EditorStays, DetailStays DEF ConsoleInv, pageVars
<1> QED BY <1>1, <1>2, <1>3, <1>4, <1>5 DEF Next

LEMMA ConsoleAlways == Spec => []ConsoleInv
BY ConsoleInit, ConsoleStep, PTL DEF Spec

\* The state of the guard and of the page that is open is of its type, at every step of a
\* visit of any of the pages.
THEOREM TypeCorrect == Spec => []TypeOK
<1>1. ConsoleInv => TypeOK
  BY DEF ConsoleInv, TypeOK, ListInv, UserInv, EditorInv, DetailInv
<1> QED BY <1>1, ConsoleAlways, PTL

\* A spinner and a busy button have a call under way behind them: the requests of a list, the
\* handler or the read of a user's page, the save of the modal that is open, the first reads of a
\* project.  The pages of a user and of a project say that they load for good once that failed.
THEOREM SpinnersHaveCauseHolds == Spec => []SpinnersHaveCause
<1>1. ConsoleInv => SpinnersHaveCause
  BY DetailPromises DEF ConsoleInv, SpinnersHaveCause, ListInv, UserInv, EditorInv
<1> QED BY <1>1, ConsoleAlways, PTL

\* The whole-form saves of a user, a plan and a role undo nothing that was written before the API
\* read what the form was filled from; and what the page itself saved is in that, while its
\* refreshes do not overlap or fail and no answer is lost.
THEOREM NothingUndoneHolds == Spec => []NothingUndone
<1>1. ConsoleInv => NothingUndone
  BY EditorPromise DEF ConsoleInv, NothingUndone, UserInv, EditorInv
<1> QED BY <1>1, ConsoleAlways, PTL

\* The rows shown answer the filters and the page shown once the newest answer is shown, and an
\* empty page that was not paged to in haste means that there is nothing to show: for any number
\* of users and any size of a page.
THEOREM ListAnswersFiltersHolds == Spec => []ListAnswersFilters
<1>1. ConsoleInv => ListAnswersFilters
  BY ListPromise DEF ConsoleInv, ListAnswersFilters
<1> QED BY <1>1, ConsoleAlways, PTL

\* The tabs of a project show what is no older than their visit, and the Social tab one answer.
THEOREM TabsAreFreshHolds == Spec => []TabsAreFresh
<1>1. ConsoleInv => TabsAreFresh
  BY DetailPromises DEF ConsoleInv, TabsAreFresh
<1> QED BY <1>1, ConsoleAlways, PTL
=============================================================================
