------------------------------ MODULE AdminPanel -------------------------------
(***************************************************************************)
(* The admin panel in one browser tab: the session in localStorage, the    *)
(* axios interceptors that refresh it, the pages and the data they show    *)
(* from the query cache, and the calls their buttons send.                 *)
(*                                                                         *)
(* The data of a query is the number of changes the API has made to it,    *)
(* and whether its month is approved.  The query cache is modelled from    *)
(* how the pages use it; what the API makes of a call is in CheckIn,       *)
(* Timesheets, Shifts, Tablets and Devices: here it may refuse any.        *)
(***************************************************************************)
EXTENDS Naturals, FiniteSets

CONSTANTS
  Pages,                     \* the pages the administrator visits
  Tables,                    \* the data they are shown of those pages
  Months, ThisMonth,
  Calls,                     \* calls of buttons under way at a time
  None,
  MaxChanges,                \* bound: changes of the API's data
  MaxInputs                  \* bound: clicks and visits, lost requests and answers, 401s

ASSUME AdminPanelConstants ==
  /\ Pages \subseteq {"timesheets", "employees", "assign", "shifts", "tablets", "records",
                      "dashboard"}
  /\ ThisMonth \in Months /\ None \notin Months \cup Nat
  /\ None \notin [n : Nat, locked : BOOLEAN]
  /\ MaxChanges \in Nat /\ MaxInputs \in Nat

VARIABLES
  data,        \* number of changes of each query's data at the API
  approved,    \* months whose timesheet is approved
  page, month, \* the page shown ("login" when signed out) and its month
  tokens,      \* whether localStorage holds tokens
  refreshing,  \* whether a refresh is under way
  cache,       \* the data each query shows: [n, locked] or None
  get,         \* the latest fetch of each query
  call,        \* the calls of the buttons
  told,        \* history: changes of each query the panel was told of
  changes, inputs

vars == <<data, approved, page, month, tokens, refreshing, cache,
          get, call, told, changes, inputs>>
api == <<data, approved, changes>>
session == <<tokens, refreshing>>
view == <<page, month>>

-----------------------------------------------------------------------------
(* The queries of each page                                                *)

TimesheetsPage == {"timesheets", "attendance", "extra-work", "leaves"}
EmployeesPage == {"users", "devices"}
AssignShiftModal == EmployeesPage \cup {"shifts", "user-shifts"}
ShiftsPage == {"shifts"}
TabletsPage == {"tablets"}
AttendanceTab == {"users", "tablets", "attendance-list"}
DashboardPage == {"reports", "audit"}

QueriesOf(p) ==
  CASE p = "timesheets" -> TimesheetsPage   [] p = "employees" -> EmployeesPage
    [] p = "assign" -> AssignShiftModal     [] p = "shifts" -> ShiftsPage
    [] p = "tablets" -> TabletsPage         [] p = "records" -> AttendanceTab
    [] p = "dashboard" -> DashboardPage     [] p = "login" -> {}

\* Only the queries of the timesheets page are keyed by month.
Key(t, m) == <<t, IF t \in TimesheetsPage THEN m ELSE None>>
KeysOf(ts, m) == {Key(t, m) : t \in ts \cap Tables}
Keys == UNION {KeysOf(Tables, m) : m \in Months}
Shown == KeysOf(QueriesOf(page), month)

Input == inputs < MaxInputs /\ inputs' = inputs + 1

-----------------------------------------------------------------------------
(* The buttons: the data each one's call changes, and the queries it        *)
(* invalidates when it has succeeded.                                       *)

Button(name, p, alters, invalidates, posts) ==
  [name |-> name, page |-> p, alters |-> alters, invalidates |-> invalidates,
   posts |-> posts]

\* A row of the page that is not locked.
Row(t) == /\ t \in Tables => cache[Key(t, month)] # None /\ ~cache[Key(t, month)].locked
Pending(name) == \E c \in Calls : call[c].pc # "idle" /\ call[c].button.name = name

\* Mutant of TimesheetsInvalidate: the list of leaves is left as it is.
InvalidateSheets == {"timesheets", "attendance", "extra-work"}

TimesheetsInvalidate == TimesheetsPage

\* A leave, deleted or added, makes the API generate its month again.
DeleteLeave ==
  {b \in {Button("deleteLeave", "timesheets", {"leaves", "timesheets", "extra-work"},
                 TimesheetsInvalidate, 1)} : Row("leaves") /\ ~Pending("deleteLeave")}
Classify ==
  {b \in {Button("classify", "timesheets", {"extra-work", "timesheets"},
                 TimesheetsInvalidate, 1)} : Row("extra-work") /\ ~Pending("classify")}
Generate ==
  {b \in {Button("generate", "timesheets", {"timesheets", "extra-work"},
                 TimesheetsInvalidate, 1)} : ~Pending("generate")}
Approve ==
  {b \in {Button("approve", "timesheets", {"timesheets", "extra-work", "leaves"},
                 TimesheetsInvalidate, 1)} : Row("timesheets")}
AddLeaveModal ==
  {b \in {Button("addLeave", "timesheets", {"leaves", "timesheets", "extra-work"},
                 TimesheetsInvalidate, 1)} : ~Pending("addLeave")}
CellEditModal ==
  {b \in {Button("saveCell", "timesheets", {"attendance", "attendance-list"},
                 TimesheetsInvalidate, 1)} :
     "attendance" \in Tables => cache[Key("attendance", month)] # None}

EmployeesInvalidate == EmployeesPage
DeviceAction == {Button("deviceAction", "employees", {"devices"}, EmployeesInvalidate, 1)}
SetActive == {Button("setActive", "employees", {"users"}, EmployeesInvalidate, 1)}
\* Editing an account patches it, then posts its password if there is one.
UserModal ==
  {b \in {Button("saveUser", "employees", {"users", "devices"}, EmployeesInvalidate, n) :
            n \in 1..2} : ~Pending("saveUser")}
AssignShift ==
  {b \in {Button("assign", "assign", {"user-shifts"}, {"user-shifts"}, 1)} :
     Row("shifts") /\ ~Pending("assign")}

RemoveShift == {b \in {Button("removeShift", "shifts", {"shifts", "user-shifts"}, ShiftsPage, 1)} : Row("shifts")}
ShiftModal ==
  {b \in {Button("saveShift", "shifts", {"shifts", "user-shifts"}, ShiftsPage, 1)} :
     ~Pending("saveShift")}
RotateOrToggle == {b \in {Button("tablet", "tablets", {"tablets"}, TabletsPage, 1)} : Row("tablets")}
ProvisionModal ==
  {b \in {Button("provision", "tablets", {"tablets"}, TabletsPage, 1)} : ~Pending("provision")}

Modals == {"addLeave", "saveCell", "saveUser", "saveShift", "provision"}
Buttons ==
  {b \in UNION {DeleteLeave, Classify, Generate, Approve, AddLeaveModal, CellEditModal,
                DeviceAction, SetActive, UserModal, AssignShift, RemoveShift, ShiftModal,
                RotateOrToggle, ProvisionModal} :
     b.page = page /\ b.alters \cap Tables # {}}

-----------------------------------------------------------------------------
(* The query cache                                                         *)

\* A request: "sent", "unauthorized", "waiting" for the refresh,
\* "ok" or "error".  late: a change was announced that no fetch follows.
NoFetch == [pc |-> "idle", retried |-> FALSE, value |-> None, again |-> FALSE,
            late |-> FALSE]
Fetch == [NoFetch EXCEPT !.pc = "sent"]
NoCall == [pc |-> "idle", retried |-> FALSE, button |-> None,
           month |-> None, shows |-> None, left |-> 0, applied |-> 0, upto |-> None]

Settled(k) == get[k].pc \in {"idle", "failed"}

\* What mounts is fetched, or joins the fetch under way.
Mounted(ks) == [k \in Keys |-> IF k \in ks /\ Settled(k) THEN Fetch ELSE get[k]]

\* What is shown of the queries invalidated is fetched again, and an older fetch
\* of it dropped unless it is the first; other fetches under way go on.  What else
\* of its own page a call has altered is to be fetched; the rest may stay behind.
Invalidated(b, m, altered) ==
  [k \in Keys |->
     IF k \in KeysOf(b.invalidates, m) \cap Shown /\ (Settled(k) \/ cache[k] # None) THEN Fetch
     ELSE IF k \in altered /\ (~Settled(k) \/ k \notin KeysOf(QueriesOf(b.page), m))
     THEN [get[k] EXCEPT !.late = TRUE]
     ELSE get[k]]

Init ==
  /\ data = [k \in Keys |-> 0] /\ approved = {}
  /\ page = "login" /\ month = ThisMonth
  /\ tokens = FALSE /\ refreshing = FALSE
  /\ cache = [k \in Keys |-> None] /\ get = [k \in Keys |-> NoFetch]
  /\ call = [c \in Calls |-> NoCall]
  /\ told = [k \in Keys |-> 0] /\ changes = 0 /\ inputs = 0

-----------------------------------------------------------------------------
(* The session                                                             *)

\* AuthProvider.login: a manager's or an administrator's tokens are stored.
Login(p) ==
  /\ page = "login" /\ p # "assign" /\ tokens' = TRUE
  /\ page' = p /\ month' = ThisMonth
  /\ get' = Mounted(KeysOf(QueriesOf(p), ThisMonth))
  /\ UNCHANGED <<api, refreshing, cache, call, told, inputs>>

\* The cache and what is under way outlive a logout.
Logout ==
  /\ Input /\ page # "login" /\ page' = "login" /\ tokens' = FALSE
  /\ UNCHANGED <<api, month, refreshing, cache, get, call, told>>

\* Another page, whose queries all mount, at the current month; or the modal over
\* the employees page, whose own queries do.
Visit(p) ==
  /\ Input /\ page \notin {p, "login"} /\ (p = "assign" => page = "employees")
  /\ page' = p /\ month' = ThisMonth
  /\ get' = Mounted(KeysOf(QueriesOf(p) \ (IF p = "assign" THEN EmployeesPage ELSE {}),
                           ThisMonth))
  /\ UNCHANGED <<api, session, cache, call, told>>

\* The calls of the page's own buttons will invalidate the month shown by then.
SetMonth(m) ==
  /\ Input /\ page = "timesheets" /\ month # m /\ month' = m
  /\ get' = Mounted(KeysOf(TimesheetsPage, m))
  /\ call' = [c \in Calls |->
       IF call[c].pc # "idle" /\ call[c].button.page = page /\ call[c].button.name \notin Modals
       THEN [call[c] EXCEPT !.shows = m] ELSE call[c]]
  /\ UNCHANGED <<api, session, page, cache, told>>

-----------------------------------------------------------------------------
(* Requests.  A query's value and a call's effect are the API's.            *)

ServeFetch(k) ==
  /\ get[k].pc = "sent"
  /\ get' = [get EXCEPT ![k].pc = "ok",
                        ![k].value = [n |-> data[k], locked |-> k[2] \in approved]]
  /\ UNCHANGED <<api, session, view, cache, call, told, inputs>>

Final(b) == b.page = "timesheets" /\ b.name # "saveCell"

\* A post is refused, or done, or done in part and answered with an error; one
\* of an approved month is refused (a corrected record is not).
ServeCall(c) ==
  LET r == call[c]
      altered == KeysOf(r.button.alters, r.month) IN
  /\ r.pc = "sent"
  /\ \/ /\ call' = [call EXCEPT ![c].pc = "error"]
        /\ UNCHANGED api
     \/ /\ changes < MaxChanges
        /\ ~(Final(r.button) /\ r.month \in approved)
        /\ changes' = changes + 1
        /\ data' = [k \in Keys |-> data[k] + (IF k \in altered THEN 1 ELSE 0)]
        /\ approved' = approved \cup (IF r.button.name = "approve" THEN {r.month} ELSE {})
        /\ \E pc \in {"ok", "error"} :
             call' = [call EXCEPT ![c].pc = pc, ![c].applied = @ + 1,
                                  ![c].upto = [k \in altered |-> data'[k]]]
  /\ UNCHANGED <<session, view, cache, get, told, inputs>>

\* Mutant of Retries: any failed request is sent again once.
RetriesAny(r) == r.pc \in {"unauthorized", "error"} /\ ~r.retried

\* The response interceptor sends a request again after one 401.
Retries(r) == r.pc = "unauthorized" /\ ~r.retried
Failed(r) == r.pc \in {"unauthorized", "error"} /\ ~Retries(r)

\* The page is loaded anew, without a session.
Reload ==
  /\ tokens' = FALSE /\ refreshing' = FALSE
  /\ page' = "login" /\ month' = ThisMonth
  /\ cache' = [k \in Keys |-> None] /\ get' = [k \in Keys |-> NoFetch]
  /\ call' = [c \in Calls |-> NoCall] /\ told' = [k \in Keys |-> 0]

\* All that meet a 401 wait for one refresh; without tokens there is none.
Await ==
  /\ \/ ~tokens /\ ~refreshing /\ Reload
     \/ (tokens \/ refreshing) /\ refreshing' = TRUE /\ UNCHANGED <<tokens, view, cache, told>>
  /\ UNCHANGED <<api, inputs>>

InterceptFetch(k) ==
  /\ Retries(get[k]) /\ Await
  /\ refreshing' => get' = [get EXCEPT ![k].pc = "waiting", ![k].retried = TRUE]
                    /\ UNCHANGED call
InterceptCall(c) ==
  /\ Retries(call[c]) /\ Await
  /\ refreshing' => call' = [call EXCEPT ![c].pc = "waiting", ![c].retried = TRUE]
                    /\ UNCHANGED get

Resumed(rs) ==
  [r \in DOMAIN rs |-> IF rs[r].pc = "waiting" THEN [rs[r] EXCEPT !.pc = "sent"] ELSE rs[r]]

\* Mutant of RefreshTokens: only the fetches hear of the new tokens.
RefreshTokensFetches ==
  /\ refreshing /\ refreshing' = FALSE /\ tokens' = TRUE
  /\ get' = Resumed(get)
  /\ UNCHANGED <<api, view, cache, call, told, inputs>>

\* The refresh succeeds, its tokens are stored and all that waited are sent again;
\* or it fails for any reason, and the panel is loaded anew at the login.
RefreshTokens ==
  /\ refreshing
  /\ \/ /\ tokens' = TRUE /\ refreshing' = FALSE
        /\ get' = Resumed(get) /\ call' = Resumed(call)
        /\ UNCHANGED <<view, cache, told>>
     \/ Reload
  /\ UNCHANGED <<api, inputs>>

\* A failed fetch of something shown is tried once more.
ReceiveFetch(k) ==
  /\ \/ /\ get[k].pc = "ok"
        /\ cache' = [cache EXCEPT ![k] = get[k].value]
        /\ get' = [get EXCEPT ![k] = [NoFetch EXCEPT !.late = get[k].late]]
     \/ /\ Failed(get[k])
        /\ get' = [get EXCEPT ![k] =
             IF k \in Shown /\ ~@.again THEN [Fetch EXCEPT !.again = TRUE, !.late = get[k].late]
             ELSE [NoFetch EXCEPT !.pc = "failed"]]
        /\ UNCHANGED cache
  /\ UNCHANGED <<api, session, view, call, told, inputs>>

\* The dashboard and the tablets poll; a fetch under way is joined.
Poll(k) ==
  /\ Input /\ k \in Shown /\ page \in {"dashboard", "tablets"} /\ Settled(k)
  /\ get' = [get EXCEPT ![k] = Fetch]
  /\ UNCHANGED <<api, session, view, cache, call, told>>

Click(c, b) ==
  /\ Input /\ call[c].pc = "idle" /\ b \in Buttons
  /\ \E m \in (IF b.name = "addLeave" THEN Months ELSE {month}) :
       call' = [call EXCEPT ![c] = [NoCall EXCEPT !.pc = "sent",
                  !.button = b, !.month = m, !.shows = month, !.left = b.posts]]
  /\ UNCHANGED <<api, session, view, cache, get, told>>

\* The next post of a modal; or the page is told of the success, closes its modal
\* and invalidates; or an error is shown.
ReceiveCall(c) ==
  LET r == call[c] IN
  /\ \/ /\ r.pc = "ok" /\ r.left > 1
        /\ call' = [call EXCEPT ![c] = [@ EXCEPT
                      !.pc = IF tokens THEN "sent" ELSE "unauthorized", !.retried = FALSE, !.left = r.left - 1, !.applied = 0]]
        /\ UNCHANGED <<page, get, told>>
     \/ /\ r.pc = "ok" /\ r.left = 1
        /\ call' = [call EXCEPT ![c] = NoCall]
        /\ told' = [k \in Keys |-> IF k \in DOMAIN r.upto /\ r.upto[k] > told[k]
                                   THEN r.upto[k] ELSE told[k]]
        /\ get' = Invalidated(r.button, r.shows, DOMAIN r.upto)
        /\ page' = IF r.button.name = page THEN "employees" ELSE page
     \/ /\ Failed(r)
        /\ call' = [call EXCEPT ![c] = NoCall]
        /\ UNCHANGED <<page, get, told>>
  /\ UNCHANGED <<api, session, month, cache, inputs>>

-----------------------------------------------------------------------------
(* Time and faults                                                         *)

\* The request, or the API's answer to it, is lost, or its token has expired.
FailFetch(k) ==
  /\ Input
  /\ \/ get[k].pc = "sent" /\ get' = [get EXCEPT ![k].pc = "unauthorized"]
     \/ get[k].pc \in {"sent", "ok"} /\ get' = [get EXCEPT ![k].pc = "error"]
  /\ UNCHANGED <<api, session, view, cache, call, told>>
FailCall(c) ==
  /\ Input
  /\ \/ call[c].pc = "sent" /\ call' = [call EXCEPT ![c].pc = "unauthorized"]
     \/ call[c].pc \in {"sent", "ok"} /\ call' = [call EXCEPT ![c].pc = "error"]
  /\ UNCHANGED <<api, session, view, cache, get, told>>

AdvanceFetch(k) == ServeFetch(k) \/ InterceptFetch(k) \/ ReceiveFetch(k)
AdvanceCall(c) == ServeCall(c) \/ InterceptCall(c) \/ ReceiveCall(c)

Next ==
  \/ \E p \in Pages : Login(p) \/ Visit(p)
  \/ \E m \in Months : SetMonth(m)
  \/ \E k \in Keys : AdvanceFetch(k) \/ Poll(k) \/ FailFetch(k)
  \/ \E c \in Calls : AdvanceCall(c) \/ FailCall(c) \/ \E b \in Buttons : Click(c, b)
  \/ RefreshTokens \/ Logout

Spec == Init /\ [][Next]_vars

\* What is awaited comes or fails, and no other step waits for a person.
FairSpec ==
  /\ Spec
  /\ \A c \in Calls : WF_vars(AdvanceCall(c))
  /\ WF_vars(RefreshTokens)

-----------------------------------------------------------------------------
(* What the panel promises                                                 *)

\* What a page shows when its fetches have ended takes in every change the panel
\* was told had succeeded; unless that came during a fetch that was not dropped
\* (the first of its query, or one of a query not shown), for another month than
\* the one a leave was added over, or from a call of another page than the data's
\* (the records page is not told of a corrected cell, nor the shift of an employee
\* of a changed shift).
CaughtUp ==
  \A k \in Shown : get[k].pc = "idle" =>
    get[k].late \/ (cache[k] # None /\ cache[k].n >= told[k])

\* However often a request is sent, what was clicked once is done at most once.
AppliedOnce == \A c \in Calls : call[c].applied <= 1

\* A click ends: in a success, an error, or at the login page.
ClicksEnd == \A c \in Calls : call[c].pc # "idle" ~> call[c].pc = "idle"
=============================================================================
