------------------------------- MODULE StaffList -------------------------------
(***************************************************************************)
(* The staff's lists of users and of projects: a search field, dropdowns   *)
(* and a pager, each change of which sends a request.  Requests are not    *)
(* cancelled, and each answer is shown when it arrives.                    *)
(*                                                                         *)
(*   list       which of the two lists is open                             *)
(*   existing   the users, or projects, of the API; an integer is one and  *)
(*              its place in the API's order                               *)
(*   search, dropdown, plan, pageNo   the inputs of the page: a search     *)
(*              term is typed in or not, a dropdown narrows the list or    *)
(*              not; the dropdown of plans, which only users have, is one  *)
(*              of its own, because the API applies it last                *)
(*   rows, total, listing       users (projects), total and loading of the *)
(*              component                                                  *)
(*   ask[i]     the i-th request; asked is how many were sent              *)
(***************************************************************************)
EXTENDS Integers, FiniteSets

CONSTANTS Users,     \* the users or projects there can be: natural numbers
          Named,     \* those the search term finds
          Narrowed,  \* those the other dropdowns leave
          OnPlan,    \* those the dropdown of plans leaves
          Size,      \* rows of a page: 25 in the code
          MaxAsked   \* bound on the requests

ListAssumption ==
    /\ IsFiniteSet(Users) /\ Users \subseteq Nat
    /\ Size \in Nat \ {0} /\ MaxAsked \in Nat \ {0}

VARIABLES
    list, existing, search, dropdown, plan, pageNo, rows, total, listing, ask, asked,
    shownAsk,  \* history: the request whose answer is shown
    hasty,     \* history: paged by the total of an older request
    moved      \* history: users came or went while the page was open

query == <<search, dropdown, plan, pageNo>>
answer == <<rows, total, shownAsk>>
listVars == <<list, existing, query, answer, listing, ask, asked, hasty, moved>>

Asks == 1 .. MaxAsked

NoAsk == [at |-> "idle", search |-> FALSE, dropdown |-> FALSE, plan |-> FALSE, page |-> 1,
          rows |-> {}, total |-> 0]

ListTypeOK ==
    /\ list \in {"users", "projects"} /\ existing \subseteq Users
    /\ search \in BOOLEAN /\ dropdown \in BOOLEAN /\ plan \in BOOLEAN
    /\ pageNo \in 1 .. MaxAsked + 1
    /\ rows \subseteq Users /\ Cardinality(rows) <= Size /\ total \in 0 .. Cardinality(Users)
    /\ listing \in BOOLEAN
    /\ asked \in 1 .. MaxAsked /\ shownAsk \in 0 .. asked
    /\ \A i \in Asks :
          /\ ask[i].at \in {"idle", "sent", "answered", "over"}
          /\ ask[i].at = "idle" <=> i > asked
    /\ hasty \in BOOLEAN /\ moved \in BOOLEAN

Waiting == {i \in Asks : ask[i].at \in {"sent", "answered"}}

Sent(s, d, l, p) ==
    [NoAsk EXCEPT !.at = "sent", !.search = s, !.dropdown = d, !.plan = l, !.page = p]

\* The list of projects may open with a goal, which the URL names.
ListInit ==
    /\ \/ list = "users" /\ dropdown = FALSE
       \/ list = "projects" /\ dropdown \in BOOLEAN
    /\ existing \in SUBSET Users
    /\ search = FALSE /\ plan = FALSE /\ pageNo = 1
    /\ rows = {} /\ total = 0 /\ shownAsk = 0
    /\ listing = TRUE
    /\ asked = 1
    /\ ask = [i \in Asks |-> IF i = 1 THEN Sent(FALSE, dropdown, FALSE, 1) ELSE NoAsk]
    /\ hasty = FALSE /\ moved = FALSE

-----------------------------------------------------------------------------
\* The inputs change, and the effect that closes over them runs fetchUsers, or fetchProjects.
fetchUsers(s, d, l, p) ==
    /\ search' = s /\ dropdown' = d /\ plan' = l /\ pageNo' = p
    /\ asked < MaxAsked
    /\ asked' = asked + 1
    /\ ask' = [ask EXCEPT ![asked + 1] = Sent(s, d, l, p)]
    /\ listing' = TRUE
    /\ UNCHANGED <<list, existing, answer, moved>>

\* A bug: the page number stays when the search changes.
searchKeepsPage == fetchUsers(~search, dropdown, plan, pageNo) /\ UNCHANGED hasty

\* The search field.
setSearch == fetchUsers(~search, dropdown, plan, 1) /\ UNCHANGED hasty

\* The dropdowns of role, mode and status, or of goal and health, behind the Filters button.
setDropdown ==
    /\ ~dropdown
    /\ fetchUsers(search, TRUE, plan, 1)
    /\ UNCHANGED hasty

\* The dropdown of plans.
setPlan ==
    /\ ~plan
    /\ fetchUsers(search, dropdown, TRUE, 1)
    /\ UNCHANGED hasty

\* Clear, shown while a dropdown narrows the list; the search term stays.
clearFilters ==
    /\ dropdown \/ plan
    /\ fetchUsers(search, FALSE, FALSE, 1)
    /\ UNCHANGED hasty

\* A bug: Prev is enabled on the first page, and does not stop there.
turnPageBelowOne ==
    /\ total > Size
    /\ \/ fetchUsers(search, dropdown, plan, pageNo - 1)
       \/ pageNo * Size < total /\ fetchUsers(search, dropdown, plan, pageNo + 1)
    /\ hasty' = (hasty \/ shownAsk # asked)

\* The pager, shown when there is more than a page.  It goes by the total that is shown.
turnPage ==
    /\ total > Size
    /\ \/ pageNo > 1 /\ fetchUsers(search, dropdown, plan, pageNo - 1)
       \/ pageNo * Size < total /\ fetchUsers(search, dropdown, plan, pageNo + 1)
    /\ hasty' = (hasty \/ shownAsk # asked)

\* The inputs of each list.
UserControls ==
    list = "users" /\ (setSearch \/ setDropdown \/ setPlan \/ clearFilters \/ turnPage)
ProjectControls == list = "projects" /\ (setSearch \/ setDropdown \/ clearFilters)
ProjectPager == list = "projects" /\ turnPage

-----------------------------------------------------------------------------
\* The users that fit a request but for its plan, and those of them on its page.
Fitting(r) == {u \in existing : (r.search => u \in Named) /\ (r.dropdown => u \in Narrowed)}

Slice(S, p) ==
    {u \in S : (Cardinality({v \in S : v <= u}) - 1) \div Size = p - 1}

\* The API answers.  It counts and pages before it applies the plan to the rows of the page.
ListUsers(i) ==
    /\ ask[i].at = "sent"
    /\ ask' = [ask EXCEPT
                  ![i].at = "answered",
                  ![i].rows = {u \in Slice(Fitting(ask[i]), ask[i].page) :
                                  ask[i].plan => u \in OnPlan},
                  ![i].total = Cardinality(Fitting(ask[i]))]
    /\ UNCHANGED <<list, existing, query, answer, listing, asked, hasty, moved>>

\* An answer arrives, and is shown whichever was asked for last.
AnswerLands(i) ==
    /\ ask[i].at = "answered"
    /\ rows' = ask[i].rows /\ total' = ask[i].total /\ shownAsk' = i
    /\ ask' = [ask EXCEPT ![i] = [NoAsk EXCEPT !.at = "over", !.search = ask[i].search,
                                     !.dropdown = ask[i].dropdown, !.plan = ask[i].plan,
                                     !.page = ask[i].page]]
    /\ listing' = FALSE
    /\ UNCHANGED <<list, existing, query, asked, hasty, moved>>

\* The tables of the lists.
UsersLand(i) == list = "users" /\ AnswerLands(i)
ProjectsLand(i) == list = "projects" /\ AnswerLands(i)

\* A request fails: what is shown stays.
UsersFail(i) ==
    /\ i \in Waiting
    /\ ask' = [ask EXCEPT ![i].at = "over", ![i].rows = {}, ![i].total = 0]
    /\ listing' = FALSE
    /\ UNCHANGED <<list, existing, query, answer, asked, hasty, moved>>

\* A user registers or is suspended, a project is created or deleted.
UsersMove(u) ==
    /\ existing' = IF u \in existing THEN existing \ {u} ELSE existing \cup {u}
    /\ moved' = TRUE
    /\ UNCHANGED <<list, query, answer, listing, ask, asked, hasty>>

ListNext ==
    \/ UserControls \/ ProjectControls \/ ProjectPager
    \/ \E i \in Asks : ListUsers(i) \/ UsersLand(i) \/ ProjectsLand(i) \/ UsersFail(i)
    \/ \E u \in Users : UsersMove(u)

-----------------------------------------------------------------------------
(* When the newest answer is the one that is shown, it is the answer to    *)
(* the filters and the page that are shown; and "No users match your       *)
(* filters" is said only when none do, unless users came or went, the      *)
(* user paged before the answer came, or a plan was chosen: the API        *)
(* filters one page of users by plan, and an empty page does not mean that *)
(* none is on that plan.                                                   *)
ListAnswersFilters ==
    shownAsk = asked =>
        /\ ask[asked].search = search /\ ask[asked].dropdown = dropdown
        /\ ask[asked].plan = plan /\ ask[asked].page = pageNo
        /\ rows = {} /\ ~hasty /\ ~moved /\ ~plan => total = 0

(* "Loading" is shown only while a request is under way.                   *)
ListSpinnerHasCause == listing => Waiting # {}
=============================================================================
