------------------------------- MODULE Admin -------------------------------
(* The two pages that edit the rows of a list: admin/organizations (the      *)
(* platform admin's page) and admin/profile (capability profiles).  Each     *)
(* shows a list, one selected row, a form filled from a row and, for an      *)
(* organization, its users and statistics.  A handler keeps the `selected`   *)
(* and the list of the render that started it.  The API executes a request   *)
(* when it answers; answers come in any order.                               *)
EXTENDS Integers, Sequences, FiniteSets, SequencesExt

CONSTANTS EditRows,      \* organizations (or profiles) that may exist
          NoRow,         \* null
          MaxAdminCalls  \* bound: requests ever issued

ASSUME AdminAssumption == NoRow \notin EditRows /\ MaxAdminCalls \in Nat

VARIABLES
  adminPage,  \* "orgs" or "profiles"
  rows,       \* the rows of the API, in its order
  listedRows,     \* orgs / profiles
  selected,   \* the selected row
  form,       \* the row whose values the fields hold
  members,    \* users: the organization they belong to, NoRow for []
  statsOf,    \* stats: the organization they are about, NoRow for null
  calls,      \* requests in flight: set of [id, kind, about, seen, had]
  issued,     \* requests issued so far
  crossed     \* history: a row was selected while an answer about another
              \* one was awaited

adminVars == <<adminPage, rows, listedRows, selected, form, members, statsOf,
               calls, issued, crossed>>

adminView == <<selected, form, members, statsOf, crossed>>

Lists   == {"mount", "saveList", "createList"}   \* loadOrgs, loadProfiles
Bound   == {"save", "member", "users", "stats"}  \* their answers are about a row
CallKinds == Lists \cup Bound \cup {"create", "delete"}

-----------------------------------------------------------------------------
(* Requests                                                                  *)

\* The n-th request of a handler: its closure has the selected row and the
\* list of this render.
NewCall(n, kind, about) ==
  [id |-> issued + n, kind |-> kind, about |-> about, seen |-> selected, had |-> listedRows]

\* `await` between two requests of one handler: the closure stays.
Continue(c, kind, about) ==
  [id |-> c.id, kind |-> kind, about |-> about, seen |-> c.seen, had |-> c.had]

\* mutant: the fields keep what is typed in them
SelectOnly(o, left) ==
  /\ selected' = o
  /\ form' = IF form = NoRow THEN o ELSE form
  /\ IF adminPage = "orgs"
       THEN /\ calls' = left \cup {NewCall(1, "stats", o), NewCall(2, "users", o)}
            /\ issued' = issued + 2
            /\ statsOf' = NoRow
       ELSE calls' = left /\ UNCHANGED <<issued, statsOf>>
  /\ crossed' = (crossed \/ \E c \in left : c.kind \in Bound /\ c.about # o)
  /\ UNCHANGED members

\* selectOrg / selectProfile by a handler that leaves the requests `left` in
\* flight: the fields are filled, the users and the statistics requested.
selectRow(o, left) ==
  /\ selected' = o
  /\ form' = o
  /\ IF adminPage = "orgs"
       THEN /\ calls' = left \cup {NewCall(1, "stats", o), NewCall(2, "users", o)}
            /\ issued' = issued + 2
            /\ statsOf' = NoRow
       ELSE calls' = left /\ UNCHANGED <<issued, statsOf>>
  /\ crossed' = (crossed \/ \E c \in left : c.kind \in Bound /\ c.about # o)
  /\ UNCHANGED members

\* The handler changes no part of the view.
KeepView(left) == calls' = left /\ UNCHANGED <<adminView, issued>>

AdminInit ==
  /\ adminPage \in {"orgs", "profiles"}
  /\ rows \in {s \in UNION {[1 .. n -> EditRows] : n \in 0 .. 2} : IsInjective(s)}
  /\ listedRows = <<>>
  /\ selected = NoRow /\ form = NoRow /\ members = NoRow /\ statsOf = NoRow
  /\ calls = {[id |-> 1, kind |-> "mount", about |-> NoRow, seen |-> NoRow, had |-> <<>>]}
  /\ issued = 1
  /\ crossed = FALSE

-----------------------------------------------------------------------------
(* The controls                                                              *)

Running(kinds) == \E c \in calls : c.kind \in kinds

Issue(kind, about) ==
  /\ issued < MaxAdminCalls
  /\ calls' = calls \cup {NewCall(1, kind, about)}
  /\ issued' = issued + 1
  /\ UNCHANGED <<adminPage, rows, listedRows, adminView>>

\* What the markup offers.  The button is disabled while creating, the Enter key
\* of the profiles page is not.
OffersCreate  == adminPage = "orgs" => ~ Running({"create", "createList"})
OffersSave    == selected # NoRow /\ ~ Running({"save", "saveList"})
OffersMembers == adminPage = "orgs" /\ selected # NoRow

\* A click on a row of the list.
RowClicked ==
  /\ issued < MaxAdminCalls
  /\ \E i \in DOMAIN listedRows : selectRow(listedRows[i], calls)
  /\ UNCHANGED <<adminPage, rows, listedRows>>

handleSave == OffersSave /\ Issue("save", selected)

handleCreate == OffersCreate /\ Issue("create", NoRow)

\* handleInviteUser, handleUpdateRole, handleDeleteUser.
ChangeMember == OffersMembers /\ Issue("member", selected)

\* handleDelete of the profiles page.
handleDelete ==
  /\ adminPage = "profiles"
  /\ \E i \in DOMAIN listedRows : Issue("delete", listedRows[i])

-----------------------------------------------------------------------------
(* The answers                                                               *)

\* loadOrgs / loadProfiles: with nothing selected in its closure, the first
\* row is selected.  A create goes on to select the new row in any case.
ListAnswered ==
  \E c \in calls :
    /\ c.kind \in Lists
    /\ listedRows' = rows
    /\ LET left == calls \ {c}
           target == IF c.kind = "createList" THEN c.about
                     ELSE IF c.seen = NoRow /\ rows # <<>> THEN rows[1] ELSE NoRow
       IN IF target # NoRow THEN selectRow(target, left) ELSE KeepView(left)
    /\ UNCHANGED <<adminPage, rows>>

\* The error is only shown; handleCreate still selects the new row.
ListFailed ==
  \E c \in calls :
    /\ c.kind \in Lists
    /\ IF c.kind = "createList" THEN selectRow(c.about, calls \ {c})
                                ELSE KeepView(calls \ {c})
    /\ UNCHANGED <<adminPage, rows, listedRows>>

UsersAnswered ==
  \E c \in calls, ok \in BOOLEAN :
    /\ c.kind = "users"
    /\ members' = IF ok THEN c.about ELSE NoRow
    /\ calls' = calls \ {c}
    /\ UNCHANGED <<adminPage, rows, listedRows, selected, form, statsOf, issued, crossed>>

StatsAnswered ==
  \E c \in calls, ok \in BOOLEAN :
    /\ c.kind = "stats"
    /\ statsOf' = IF ok THEN c.about ELSE NoRow
    /\ calls' = calls \ {c}
    /\ UNCHANGED <<adminPage, rows, listedRows, selected, form, members, issued, crossed>>

\* setSelected(updated), then the list: the fields are not filled again.
SaveAnswered ==
  \E c \in calls :
    /\ c.kind = "save" /\ c.about \in Range(rows)
    /\ selected' = c.about
    /\ calls' = (calls \ {c}) \cup {Continue(c, "saveList", c.about)}
    /\ UNCHANGED <<adminPage, rows, listedRows, form, members, statsOf, issued, crossed>>

\* Organizations are listed newest first, profiles oldest first.
RowCreated ==
  \E c \in calls, o \in EditRows \ Range(rows) :
    /\ c.kind = "create"
    /\ rows' = IF adminPage = "orgs" THEN <<o>> \o rows ELSE Append(rows, o)
    /\ calls' = (calls \ {c}) \cup {Continue(c, "createList", o)}
    /\ UNCHANGED <<adminPage, listedRows, adminView, issued>>

MemberAnswered ==
  \E c \in calls :
    /\ c.kind = "member"
    /\ calls' = (calls \ {c}) \cup {Continue(c, "users", c.about)}
    /\ UNCHANGED <<adminPage, rows, listedRows, adminView, issued>>

\* The list without the row: a row is listed once.
Without(list, o) ==
  IF o \in Range(list) THEN RemoveAt(list, CHOOSE i \in DOMAIN list : list[i] = o) ELSE list

\* The closure's list without the row becomes the list; when the closure had
\* it selected, the first one left is selected.
DeleteAnswered ==
  \E c \in calls :
    LET left == calls \ {c}
        remaining == Without(c.had, c.about)
    IN
    /\ c.kind = "delete"
    /\ rows' = Without(rows, c.about)
    /\ listedRows' = remaining
    /\ IF c.seen # c.about THEN KeepView(left)
       ELSE IF remaining # <<>> THEN selectRow(remaining[1], left)
       ELSE /\ selected' = NoRow
            /\ calls' = left
            /\ UNCHANGED <<form, members, statsOf, issued, crossed>>
    /\ UNCHANGED adminPage

\* A refused save, create, delete or change of a member: only a message.
CallRefused ==
  \E c \in calls :
    /\ c.kind \in {"save", "create", "delete", "member"}
    /\ KeepView(calls \ {c})
    /\ UNCHANGED <<adminPage, rows, listedRows>>

AdminNext ==
  \/ RowClicked \/ handleSave \/ handleCreate \/ ChangeMember \/ handleDelete
  \/ ListAnswered \/ ListFailed \/ UsersAnswered \/ StatsAnswered
  \/ SaveAnswered \/ RowCreated \/ MemberAnswered \/ DeleteAnswered \/ CallRefused

AdminSpec == AdminInit /\ [][AdminNext]_adminVars

-----------------------------------------------------------------------------
RowOrNone == EditRows \cup {NoRow}

AdminCall ==
  [id : Nat, kind : CallKinds, about : RowOrNone, seen : RowOrNone, had : Seq(EditRows)]

AdminTypeOK ==
  /\ adminPage \in {"orgs", "profiles"}
  /\ rows \in Seq(EditRows) /\ listedRows \in Seq(EditRows)
  /\ {selected, form, members, statsOf} \subseteq RowOrNone
  /\ calls \subseteq AdminCall
  /\ issued \in Nat
  /\ crossed \in BOOLEAN

\* Unless another row was selected while an answer about the first was awaited,
\* the page shows one row: the fields a save would send are those of the row it
\* is sent for, and the users and statistics beside them are that
\* organization's (organizations/page.tsx selectOrg, handleSave, loadUsers).
FormMatches ==
  ~ crossed /\ selected # NoRow =>
    /\ form = selected
    /\ statsOf \in {NoRow, selected}
    /\ ~ Running({"users"}) => members \in {NoRow, selected}

\* Why: until then whatever is shown or awaited is about the row in the fields, also
\* while none is selected; the profiles page has no users and no statistics.
AdminInv ==
  /\ adminPage \in {"orgs", "profiles"}
  /\ adminPage = "profiles" =>
        statsOf = NoRow /\ members = NoRow /\ ~ Running({"users", "stats", "member"})
  /\ ~ crossed =>
        /\ selected \in {NoRow, form}
        /\ statsOf \in {NoRow, form}
        /\ Running({"users"}) \/ members \in {NoRow, form}
        /\ \A c \in calls : c.kind \in Bound => c.about = form
=============================================================================
