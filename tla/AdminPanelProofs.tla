--------------------------- MODULE AdminPanelProofs ----------------------------
(***************************************************************************)
(* What was clicked once is done at most once, and a page at rest shows    *)
(* what the panel was told of, for any number of calls, pages, months and  *)
(* faults.                                                                 *)
(***************************************************************************)
EXTENDS AdminPanel, TLAPS

\* A post that is on its way, or will be sent again, has not been done.
Sound(r) ==
  /\ r \in [pc : {"idle", "sent", "unauthorized", "waiting", "ok", "error"},
            retried : BOOLEAN, button : {r.button}, month : {r.month},
            shows : {r.shows}, left : {r.left}, applied : {0, 1}, upto : {r.upto}]
  /\ r.pc \in {"sent", "unauthorized", "waiting"} => r.applied = 0

IInv == call = [c \in Calls |-> call[c]] /\ \A c \in Calls : Sound(call[c])

LEMMA NoCallSound == Sound(NoCall)
BY DEF NoCall, Sound

\* A step of one call, to something sound.
LEMMA CallStep ==
  ASSUME IInv, NEW c \in Calls, NEW r, Sound(r), call' = [call EXCEPT ![c] = r]
  PROVE  IInv'
<1>1. \A b \in Calls : call'[b] = IF b = c THEN r ELSE call[b]
  BY DEF IInv
<1>2. call' = [b \in Calls |-> call'[b]]
  BY DEF IInv
<1> QED BY <1>1, <1>2 DEF IInv

\* A call goes on without being done.
LEMMA MovesOn ==
  ASSUME IInv, NEW c \in Calls,
         NEW pc \in {"sent", "unauthorized", "waiting", "ok", "error"}, NEW b \in BOOLEAN,
         call[c].pc \in {"sent", "unauthorized", "waiting"} \/ pc \in {"ok", "error"},
         call' = [call EXCEPT ![c].pc = pc, ![c].retried = b]
  PROVE  IInv'
<1> DEFINE r == [call[c] EXCEPT !.pc = pc, !.retried = b]
<1>1. Sound(call[c])
  BY DEF IInv
<1>2. Sound(r)
  BY <1>1 DEF Sound
<1>3. call' = [call EXCEPT ![c] = r]
  OBVIOUS
<1> QED BY <1>2, <1>3, CallStep

LEMMA ReloadStep == ASSUME Reload PROVE IInv'
<1>1. call' = [c \in Calls |-> NoCall]
  BY DEF Reload
<1>2. \A c \in Calls : call'[c] = NoCall
  BY <1>1
<1> QED BY <1>1, <1>2, NoCallSound DEF IInv

LEMMA ServeStep == ASSUME IInv, NEW c \in Calls, ServeCall(c) PROVE IInv'
<1>1. Sound(call[c]) /\ call[c].pc = "sent"
  BY DEF IInv, ServeCall
<1>2. CASE call' = [call EXCEPT ![c].pc = "error"]
  <2>1. call' = [call EXCEPT ![c] = [call[c] EXCEPT !.pc = "error"]]
    BY <1>2
  <2>2. Sound([call[c] EXCEPT !.pc = "error"])
    BY <1>1 DEF Sound
  <2> QED BY <2>1, <2>2, CallStep
<1>3. ASSUME NEW pc \in {"ok", "error"}, NEW n,
             call' = [call EXCEPT ![c].pc = pc, ![c].applied = @ + 1, ![c].upto = n]
      PROVE  IInv'
  <2> DEFINE r == [call[c] EXCEPT !.pc = pc, !.applied = 1, !.upto = n]
  <2>1. call[c].applied + 1 = 1
    BY <1>1 DEF Sound
  <2>2. call' = [call EXCEPT ![c] = r]
    BY <1>3, <2>1
  <2>3. Sound(r)
    BY <1>1 DEF Sound
  <2> QED BY <2>2, <2>3, CallStep
<1> QED BY <1>2, <1>3 DEF ServeCall

LEMMA InterceptStep == ASSUME IInv, NEW c \in Calls, InterceptCall(c) PROVE IInv'
<1>1. Sound(call[c]) /\ call[c].pc = "unauthorized"
  BY DEF IInv, InterceptCall, Retries
<1>2. CASE refreshing'
  <2>1. call' = [call EXCEPT ![c].pc = "waiting", ![c].retried = TRUE]
    BY <1>2 DEF InterceptCall
  <2> QED BY <1>1, <2>1, MovesOn
<1>3. CASE ~refreshing'
  BY <1>3, ReloadStep DEF InterceptCall, Await
<1> QED BY <1>2, <1>3

LEMMA ReceiveStep == ASSUME IInv, NEW c \in Calls, ReceiveCall(c) PROVE IInv'
<1>1. Sound(call[c])
  BY DEF IInv
<1>2. CASE call' = [call EXCEPT ![c] = NoCall]
  BY <1>2, NoCallSound, CallStep
<1>3. CASE call' = [call EXCEPT ![c] = [@ EXCEPT
                      !.pc = IF tokens THEN "sent" ELSE "unauthorized",
                      !.retried = FALSE, !.left = call[c].left - 1, !.applied = 0]]
  <2> DEFINE r == [call[c] EXCEPT !.pc = IF tokens THEN "sent" ELSE "unauthorized",
                     !.retried = FALSE, !.left = call[c].left - 1, !.applied = 0]
  <2>1. Sound(r)
    BY <1>1 DEF Sound
  <2> QED BY <1>3, <2>1, CallStep
<1> QED BY <1>2, <1>3 DEF ReceiveCall

LEMMA RefreshStep == ASSUME IInv, RefreshTokens PROVE IInv'
<1>1. CASE call' = Resumed(call)
  <2>1. call' = [c \in Calls |-> IF call[c].pc = "waiting"
                                 THEN [call[c] EXCEPT !.pc = "sent"] ELSE call[c]]
    BY <1>1 DEF Resumed, IInv
  <2>2. ASSUME NEW c \in Calls PROVE Sound(call'[c])
    <3>1. Sound(call[c])
      BY DEF IInv
    <3>2. call[c].pc = "waiting" => Sound([call[c] EXCEPT !.pc = "sent"])
      BY <3>1 DEF Sound
    <3>3. call'[c] = IF call[c].pc = "waiting" THEN [call[c] EXCEPT !.pc = "sent"] ELSE call[c]
      BY <2>1
    <3> QED BY <3>1, <3>2, <3>3
  <2>3. call' = [c \in Calls |-> call'[c]]
    BY <2>1
  <2> QED BY <2>2, <2>3 DEF IInv
<1> QED BY <1>1, ReloadStep DEF RefreshTokens

LEMMA ClickStep == ASSUME IInv, NEW c \in Calls, NEW b, Click(c, b) PROVE IInv'
<1>1. PICK m : call' = [call EXCEPT ![c] = [NoCall EXCEPT !.pc = "sent",
                  !.button = b, !.month = m, !.shows = month, !.left = b.posts]]
  BY DEF Click
<1>2. Sound([NoCall EXCEPT !.pc = "sent", !.button = b, !.month = m, !.shows = month,
                           !.left = b.posts])
  BY DEF NoCall, Sound
<1> QED BY <1>1, <1>2, CallStep

\* A change of the month shown leaves requests as they are.
LEMMA MonthStep == ASSUME IInv, NEW m \in Months, SetMonth(m) PROVE IInv'
<1>1. \A c \in Calls : call'[c] = call[c] \/ call'[c] = [call[c] EXCEPT !.shows = m]
  BY DEF SetMonth
<1>2. \A c \in Calls : Sound(call[c])
  BY DEF IInv
<1>3. \A c \in Calls : Sound(call'[c])
  BY <1>1, <1>2 DEF Sound
<1>4. call' = [c \in Calls |-> call'[c]]
  BY DEF SetMonth
<1> QED BY <1>3, <1>4 DEF IInv

\* A call that is waiting, or will be sent again, has not been done.
THEOREM Invariance == Spec => []IInv
<1>1. Init => IInv
  <2> SUFFICES ASSUME Init PROVE IInv
    OBVIOUS
  <2>1. call = [c \in Calls |-> NoCall] /\ \A c \in Calls : call[c] = NoCall
    BY DEF Init
  <2> QED BY <2>1, NoCallSound DEF IInv
<1>2. IInv /\ [Next]_vars => IInv'
  <2> SUFFICES ASSUME IInv, [Next]_vars PROVE IInv'
    OBVIOUS
  <2>1. CASE UNCHANGED call
    BY <2>1 DEF IInv
  <2>2. ASSUME NEW k \in Keys, InterceptFetch(k) PROVE IInv'
    <3>1. CASE refreshing'
      BY <2>1, <2>2, <3>1 DEF InterceptFetch
    <3>2. CASE ~refreshing'
      BY <2>2, <3>2, ReloadStep DEF InterceptFetch, Await
    <3> QED BY <3>1, <3>2
  <2>3. ASSUME NEW c \in Calls, FailCall(c) PROVE IInv'
    <3>1. Sound(call[c])
      BY DEF IInv
    <3>2. PICK pc \in {"unauthorized", "error"} :
            /\ call' = [call EXCEPT ![c] = [call[c] EXCEPT !.pc = pc]]
            /\ pc = "unauthorized" => call[c].pc = "sent"
      BY <2>3 DEF FailCall
    <3>3. Sound([call[c] EXCEPT !.pc = pc])
      BY <3>1, <3>2 DEF Sound
    <3> QED BY <3>2, <3>3, CallStep
  <2>4. ASSUME NEW p \in Pages, Login(p) \/ Visit(p) PROVE UNCHANGED call
    BY <2>4 DEF Login, Visit
  <2>5. ASSUME NEW k \in Keys, ServeFetch(k) \/ ReceiveFetch(k) \/ Poll(k) \/ FailFetch(k)
        PROVE  UNCHANGED call
    BY <2>5 DEF ServeFetch, ReceiveFetch, Poll, FailFetch
  <2>6. Logout \/ UNCHANGED vars => UNCHANGED call
    BY DEF Logout, vars
  <2> QED
    BY <2>1, <2>2, <2>3, <2>4, <2>5, <2>6, ServeStep, InterceptStep, ReceiveStep, RefreshStep,
       ClickStep, MonthStep DEF Next, AdvanceFetch, AdvanceCall
<1> QED BY <1>1, <1>2, PTL DEF Spec

\* However often the interceptor sends a request again, the API does what was
\* clicked once at most once (the response interceptor of api.ts).
THEOREM ClicksApplyOnce == Spec => []AppliedOnce
<1>1. IInv => AppliedOnce
  BY DEF IInv, Sound, AppliedOnce
<1> QED BY <1>1, Invariance, PTL

-----------------------------------------------------------------------------
(* What a page shows.  A query shown is either to be served yet, and then  *)
(* at the API's count, which no announcement runs ahead of; or its answer, *)
(* fetched or in the cache, takes in what was announced; or it is late.    *)

\* A call's button fetches what it alters of its own page, and only the
\* modal of the shifts of an employee bears a page's name.
WellMade(b) ==
  /\ b.alters \cap QueriesOf(b.page) \subseteq b.invalidates
  /\ b.name \in Pages \cup {"employees", "login"} => b.name = "assign"

\* What an answered call announces has happened.
Announces(r, now) ==
  /\ r.pc # "idle" => WellMade(r.button) /\ r.month \in Months
  /\ r.pc = "ok" =>
       /\ DOMAIN r.upto = KeysOf(r.button.alters, r.month)
       /\ \A k \in DOMAIN r.upto : r.upto[k] \in Nat /\ r.upto[k] <= now[k]

Request(g) ==
  g \in [pc : {"idle", "sent", "unauthorized", "waiting", "ok", "error", "failed"},
         retried : {g.retried}, value : {g.value}, again : {g.again}, late : BOOLEAN]

\* A value of a query that takes in the changes up to low.
Covers(v, low) == v \in [n : Nat, locked : BOOLEAN] /\ v.n >= low

Current(g, v, low, seen) ==
  /\ g.pc = "ok" => g.late \/ Covers(g.value, low)
  /\ seen /\ g.pc = "idle" => g.late \/ Covers(v, low)

QueryInv(k) ==
  /\ Request(get[k]) /\ Current(get[k], cache[k], told[k], k \in Shown)
  /\ data[k] \in Nat /\ told[k] \in Nat /\ told[k] <= data[k]

QueriesInv ==
  /\ page \in Pages \cup {"employees", "login"} /\ month \in Months
  /\ data = [k \in Keys |-> data[k]] /\ told = [k \in Keys |-> told[k]]
  /\ cache = [k \in Keys |-> cache[k]] /\ get = [k \in Keys |-> get[k]]
  /\ \A k \in Keys : QueryInv(k)

CallsInv == \A c \in Calls : Announces(call[c], data)
PagesInv == QueriesInv /\ CallsInv

LEMMA KeysOfMonth == ASSUME NEW ts, NEW m \in Months PROVE KeysOf(ts, m) \subseteq Keys
BY DEF KeysOf, Keys

LEMMA KeysOfMore ==
  ASSUME NEW s, NEW t, s \subseteq t, NEW m PROVE KeysOf(s, m) \subseteq KeysOf(t, m)
<1> SUFFICES ASSUME NEW k \in KeysOf(s, m) PROVE k \in KeysOf(t, m)
  OBVIOUS
<1>1. PICK q \in s \cap Tables : k = Key(q, m)
  BY DEF KeysOf
<1> QED BY <1>1 DEF KeysOf

LEMMA ButtonsWellMade == \A b \in Buttons : WellMade(b)
<1> SUFFICES ASSUME NEW b \in Buttons PROVE WellMade(b)
  OBVIOUS
<1> USE AdminPanelConstants DEF Button, WellMade, QueriesOf
<1>1. b \in DeleteLeave \cup Classify \cup Generate \cup Approve \cup AddLeaveModal
          \cup CellEditModal => WellMade(b)
  BY DEF DeleteLeave, Classify, Generate, Approve, AddLeaveModal, CellEditModal,
         TimesheetsInvalidate, TimesheetsPage
<1>2. b \in DeviceAction \cup SetActive \cup UserModal => WellMade(b)
  BY DEF DeviceAction, SetActive, UserModal, EmployeesInvalidate, EmployeesPage
<1>3. b \in AssignShift => WellMade(b)
  BY DEF AssignShift, AssignShiftModal, EmployeesPage
<1>4. b \in RemoveShift \cup ShiftModal \cup RotateOrToggle \cup ProvisionModal => WellMade(b)
  BY DEF RemoveShift, ShiftModal, RotateOrToggle, ProvisionModal, ShiftsPage, TabletsPage
<1> QED BY <1>1, <1>2, <1>3, <1>4 DEF Buttons

\* What an announcement says stays true as the API's data changes further.
LEMMA StaysAnnounced ==
  ASSUME NEW r, NEW now, NEW later, Announces(r, now),
         \A k \in Keys : now[k] \in Nat /\ later[k] \in Nat /\ now[k] <= later[k]
  PROVE  Announces(r, later)
<1>1. ASSUME r.pc = "ok", NEW k \in DOMAIN r.upto PROVE k \in Keys
  <2>1. r.month \in Months /\ DOMAIN r.upto = KeysOf(r.button.alters, r.month)
    BY <1>1 DEF Announces
  <2> QED BY <1>1, <2>1, KeysOfMonth
<1>2. ASSUME r.pc = "ok", NEW k \in DOMAIN r.upto
      PROVE  r.upto[k] \in Nat /\ r.upto[k] <= later[k]
  BY <1>1, <1>2 DEF Announces
<1> QED BY <1>2 DEF Announces

\* A step of one call, to one whose announcements are true.
LEMMA OneCall ==
  ASSUME IInv, CallsInv, NEW c \in Calls, NEW r, Announces(r, data),
         call' = [call EXCEPT ![c] = r], UNCHANGED data
  PROVE  CallsInv'
<1>1. \A b \in Calls : call'[b] = IF b = c THEN r ELSE call[b]
  BY DEF IInv
<1> QED BY <1>1 DEF CallsInv

\* A call goes on with nothing to announce, or ends.
LEMMA NothingAnnounced ==
  ASSUME NEW r, NEW pc \in {"sent", "unauthorized", "waiting", "error"}, NEW s, NEW now,
         Announces(r, now), r.pc # "idle",
         s.pc = pc, s.button = r.button, s.month = r.month
  PROVE  Announces(s, now)
BY DEF Announces

LEMMA NoCallAnnounces == \A now : Announces(NoCall, now)
BY DEF Announces, NoCall

LEMMA ReloadCalls == ASSUME Reload PROVE CallsInv'
<1>1. \A c \in Calls : call'[c] = NoCall
  BY DEF Reload
<1> QED BY <1>1, NoCallAnnounces DEF CallsInv

LEMMA ServeCallAnnounces ==
  ASSUME IInv, PagesInv, NEW c \in Calls, ServeCall(c) PROVE CallsInv'
<1> DEFINE r == call[c]
<1> DEFINE altered == KeysOf(r.button.alters, r.month)
<1>1. Sound(r) /\ Announces(r, data) /\ r.pc = "sent"
  BY DEF IInv, PagesInv, CallsInv, ServeCall
<1>2. CASE call' = [call EXCEPT ![c].pc = "error"] /\ UNCHANGED api
  <2> DEFINE s == [r EXCEPT !.pc = "error"]
  <2>1. s.pc = "error" /\ s.button = r.button /\ s.month = r.month
    BY <1>1 DEF Sound
  <2>2. Announces(s, data)
    BY <1>1, <2>1, NothingAnnounced
  <2>3. call' = [call EXCEPT ![c] = s]
    BY <1>2
  <2> QED BY <1>2, <2>2, <2>3, OneCall DEF PagesInv, api
<1>3. ASSUME NEW pc \in {"ok", "error"},
             data' = [k \in Keys |-> data[k] + (IF k \in altered THEN 1 ELSE 0)],
             call' = [call EXCEPT ![c].pc = pc, ![c].applied = @ + 1,
                                  ![c].upto = [k \in altered |-> data'[k]]]
      PROVE  CallsInv'
  <2> DEFINE s == [r EXCEPT !.pc = pc, !.applied = r.applied + 1,
                            !.upto = [k \in altered |-> data'[k]]]
  <2>1. call' = [call EXCEPT ![c] = s]
    BY <1>3
  <2>2. \A k \in Keys : data[k] \in Nat /\ data'[k] \in Nat /\ data[k] <= data'[k]
    BY <1>3 DEF PagesInv, QueriesInv, QueryInv
  <2>3. altered \subseteq Keys
    BY <1>1, KeysOfMonth DEF Announces
  <2>4. s.pc = pc /\ s.button = r.button /\ s.month = r.month
        /\ s.upto = [k \in altered |-> data'[k]]
    BY <1>1 DEF Sound
  <2> HIDE DEF s
  <2>5. Announces(s, data')
    <3>1. WellMade(s.button) /\ s.month \in Months
      BY <1>1, <2>4 DEF Announces
    <3>2. \A k \in altered : s.upto[k] \in Nat /\ s.upto[k] <= data'[k]
      BY <2>2, <2>3, <2>4
    <3>3. DOMAIN s.upto = altered /\ altered = KeysOf(s.button.alters, s.month)
      BY <2>4
    <3> QED BY <3>1, <3>2, <3>3 DEF Announces
  <2>6. \A b \in Calls : Announces(call[b], data')
    BY <2>2, StaysAnnounced DEF PagesInv, CallsInv
  <2>7. \A b \in Calls : call'[b] = IF b = c THEN s ELSE call[b]
    BY <2>1 DEF IInv
  <2> QED BY <2>5, <2>6, <2>7 DEF CallsInv
<1> QED BY <1>2, <1>3 DEF ServeCall

LEMMA InterceptCallAnnounces ==
  ASSUME IInv, CallsInv, NEW c \in Calls, InterceptCall(c) PROVE CallsInv'
<1>1. Sound(call[c]) /\ Announces(call[c], data) /\ call[c].pc = "unauthorized"
  BY DEF IInv, CallsInv, InterceptCall, Retries
<1>2. CASE refreshing'
  <2> DEFINE s == [call[c] EXCEPT !.pc = "waiting", !.retried = TRUE]
  <2>1. call' = [call EXCEPT ![c] = s]
    BY <1>2 DEF InterceptCall
  <2>2. s.pc = "waiting" /\ s.button = call[c].button /\ s.month = call[c].month
    BY <1>1 DEF Sound
  <2>3. Announces(s, data)
    BY <1>1, <2>2, NothingAnnounced
  <2> QED BY <2>1, <2>3, OneCall DEF InterceptCall, Await, api
<1>3. CASE ~refreshing'
  BY <1>3, ReloadCalls DEF InterceptCall, Await
<1> QED BY <1>2, <1>3

LEMMA ReceiveCallAnnounces ==
  ASSUME IInv, CallsInv, NEW c \in Calls, ReceiveCall(c) PROVE CallsInv'
<1>1. Sound(call[c]) /\ Announces(call[c], data)
  BY DEF IInv, CallsInv
<1>2. UNCHANGED data
  BY DEF ReceiveCall, api
<1>3. CASE call' = [call EXCEPT ![c] = NoCall]
  BY <1>2, <1>3, NoCallAnnounces, OneCall
<1>4. ASSUME call[c].pc = "ok",
             call' = [call EXCEPT ![c] = [@ EXCEPT
                      !.pc = IF tokens THEN "sent" ELSE "unauthorized",
                      !.retried = FALSE, !.left = call[c].left - 1, !.applied = 0]]
      PROVE  CallsInv'
  <2> DEFINE s == [call[c] EXCEPT !.pc = IF tokens THEN "sent" ELSE "unauthorized",
                     !.retried = FALSE, !.left = call[c].left - 1, !.applied = 0]
  <2>1. call' = [call EXCEPT ![c] = s]
    BY <1>4
  <2>2. /\ s.pc \in {"sent", "unauthorized"}
        /\ s.button = call[c].button /\ s.month = call[c].month
    BY <1>1 DEF Sound
  <2>3. Announces(s, data)
    BY <1>1, <1>4, <2>2, NothingAnnounced
  <2> QED BY <1>2, <2>1, <2>3, OneCall
<1> QED BY <1>3, <1>4 DEF ReceiveCall

LEMMA RefreshAnnounces == ASSUME IInv, CallsInv, RefreshTokens PROVE CallsInv'
<1>1. CASE call' = Resumed(call)
  <2>1. ASSUME NEW c \in Calls PROVE Announces(call'[c], data)
    <3>1. Sound(call[c]) /\ Announces(call[c], data)
      BY DEF IInv, CallsInv
    <3>2. call'[c] = IF call[c].pc = "waiting" THEN [call[c] EXCEPT !.pc = "sent"] ELSE call[c]
      BY <1>1 DEF Resumed, IInv
    <3> DEFINE s == [call[c] EXCEPT !.pc = "sent"]
    <3>3. s.pc = "sent" /\ s.button = call[c].button /\ s.month = call[c].month
      BY <3>1 DEF Sound
    <3>4. call[c].pc = "waiting" => Announces(s, data)
      BY <3>1, <3>3, NothingAnnounced
    <3> QED BY <3>1, <3>2, <3>4
  <2>2. UNCHANGED data
    BY DEF RefreshTokens, api
  <2> QED BY <2>1, <2>2 DEF CallsInv
<1> QED BY <1>1, ReloadCalls DEF RefreshTokens

LEMMA ClickAnnounces ==
  ASSUME IInv, PagesInv, NEW c \in Calls, NEW b \in Buttons, Click(c, b) PROVE CallsInv'
<1>1. PICK m \in Months : call' = [call EXCEPT ![c] = [NoCall EXCEPT !.pc = "sent",
                  !.button = b, !.month = m, !.shows = month, !.left = b.posts]]
  BY DEF Click, PagesInv, QueriesInv
<1> DEFINE s == [NoCall EXCEPT !.pc = "sent", !.button = b, !.month = m, !.shows = month,
                               !.left = b.posts]
<1>2. s.pc = "sent" /\ s.button = b /\ s.month = m
  BY DEF NoCall
<1>3. Announces(s, data)
  BY <1>2, ButtonsWellMade DEF Announces
<1> QED BY <1>1, <1>3, OneCall DEF Click, PagesInv, api

LEMMA MonthAnnounces == ASSUME IInv, CallsInv, NEW m \in Months, SetMonth(m) PROVE CallsInv'
<1>1. \A c \in Calls : call'[c] = call[c] \/ call'[c] = [call[c] EXCEPT !.shows = m]
  BY DEF SetMonth
<1>2. ASSUME NEW c \in Calls PROVE Announces(call'[c], data)
  <2>1. Sound(call[c]) /\ Announces(call[c], data)
    BY DEF IInv, CallsInv
  <2>2. /\ call'[c].pc = call[c].pc /\ call'[c].button = call[c].button
        /\ call'[c].month = call[c].month /\ call'[c].upto = call[c].upto
    BY <1>1, <2>1 DEF Sound
  <2> QED BY <2>1, <2>2 DEF Announces
<1> QED BY <1>2 DEF CallsInv, SetMonth, api

LEMMA FailCallAnnounces ==
  ASSUME IInv, CallsInv, NEW c \in Calls, FailCall(c) PROVE CallsInv'
<1>1. Sound(call[c]) /\ Announces(call[c], data) /\ call[c].pc # "idle"
  BY DEF IInv, CallsInv, FailCall
<1>2. PICK pc \in {"unauthorized", "error"} : call' = [call EXCEPT ![c].pc = pc]
  BY DEF FailCall
<1> DEFINE s == [call[c] EXCEPT !.pc = pc]
<1>3. s.pc = pc /\ s.button = call[c].button /\ s.month = call[c].month
  BY <1>1 DEF Sound
<1>4. Announces(s, data)
  BY <1>1, <1>3, NothingAnnounced
<1>5. call' = [call EXCEPT ![c] = s]
  BY <1>2
<1> QED BY <1>4, <1>5, OneCall DEF FailCall, api

LEMMA CallsStep == ASSUME IInv, PagesInv, [Next]_vars PROVE CallsInv'
<1>1. CASE UNCHANGED <<call, data>>
  BY <1>1 DEF PagesInv, CallsInv
<1>2. ASSUME NEW k \in Keys, InterceptFetch(k) PROVE CallsInv'
  <2>1. CASE refreshing'
    BY <1>1, <1>2, <2>1 DEF InterceptFetch, Await, api
  <2>2. CASE ~refreshing'
    BY <1>2, <2>2, ReloadCalls DEF InterceptFetch, Await
  <2> QED BY <2>1, <2>2
<1>3. ASSUME NEW p \in Pages, Login(p) \/ Visit(p) PROVE UNCHANGED <<call, data>>
  BY <1>3 DEF Login, Visit, api
<1>4. ASSUME NEW k \in Keys, ServeFetch(k) \/ ReceiveFetch(k) \/ Poll(k) \/ FailFetch(k)
      PROVE  UNCHANGED <<call, data>>
  BY <1>4 DEF ServeFetch, ReceiveFetch, Poll, FailFetch, api
<1>5. Logout \/ UNCHANGED vars => UNCHANGED <<call, data>>
  BY DEF Logout, vars, api
<1> QED
  BY <1>1, <1>2, <1>3, <1>4, <1>5, ServeCallAnnounces, InterceptCallAnnounces,
     ReceiveCallAnnounces, RefreshAnnounces, ClickAnnounces, MonthAnnounces, FailCallAnnounces
  DEF Next, AdvanceFetch, AdvanceCall, PagesInv

LEMMA FetchCurrent == ASSUME NEW v, NEW low, NEW seen PROVE Request(Fetch) /\ Current(Fetch, v, low, seen)
BY DEF Request, Current, Fetch, NoFetch

LEMMA NoFetchRequest == Request(NoFetch)
BY DEF Request, NoFetch

\* A query is fetched anew, or left as it is unless it comes to be shown.
LEMMA KeptOrFetched ==
  ASSUME NEW k \in Keys, QueryInv(k), UNCHANGED <<data, told, cache>>,
         \/ get'[k] = Fetch
         \/ get'[k] = get[k] /\ (k \in Shown' => k \in Shown \/ get[k].pc # "idle")
  PROVE  QueryInv(k)'
<1>1. CASE get'[k] = Fetch
  BY <1>1, FetchCurrent DEF QueryInv
<1>2. CASE get'[k] = get[k] /\ (k \in Shown' => k \in Shown \/ get[k].pc # "idle")
  BY <1>2 DEF QueryInv, Current, Request
<1> QED BY <1>1, <1>2

\* Another page: what comes to be shown is mounted.
LEMMA MountStep ==
  ASSUME QueriesInv, NEW ks, get' = Mounted(ks), UNCHANGED <<data, told, cache>>,
         page' \in Pages \cup {"employees", "login"}, month' \in Months,
         \A k \in Keys : k \in Shown' => k \in ks \/ k \in Shown
  PROVE  QueriesInv'
<1>1. ASSUME NEW k \in Keys PROVE QueryInv(k)'
  <2>1. get'[k] = IF k \in ks /\ Settled(k) THEN Fetch ELSE get[k]
    BY DEF Mounted
  <2>2. QueryInv(k)
    BY DEF QueriesInv
  <2> QED BY <2>1, <2>2, KeptOrFetched DEF Settled
<1>2. get' = [k \in Keys |-> get'[k]]
  BY DEF Mounted
<1> QED BY <1>1, <1>2 DEF QueriesInv

\* A step of one query's fetch, which may set what it shows.
LEMMA OneFetch ==
  ASSUME QueriesInv, NEW k \in Keys, NEW g, NEW v,
         Request(g), Current(g, v, told[k], k \in Shown),
         get' = [get EXCEPT ![k] = g], cache' = [cache EXCEPT ![k] = v],
         UNCHANGED <<data, told, page, month>>
  PROVE  QueriesInv'
<1>1. \A j \in Keys : get'[j] = (IF j = k THEN g ELSE get[j])
                      /\ cache'[j] = (IF j = k THEN v ELSE cache[j])
  BY DEF QueriesInv
<1>2. Shown' = Shown
  BY DEF Shown
<1>3. ASSUME NEW j \in Keys PROVE QueryInv(j)'
  <2>1. QueryInv(j)
    BY DEF QueriesInv
  <2>2. CASE j = k
    BY <1>1, <1>2, <2>1, <2>2 DEF QueryInv
  <2>3. CASE j # k
    BY <1>1, <1>2, <2>1, <2>3 DEF QueryInv
  <2> QED BY <2>2, <2>3
<1>4. get' = [j \in Keys |-> get'[j]] /\ cache' = [j \in Keys |-> cache'[j]]
  BY DEF QueriesInv
<1> QED BY <1>3, <1>4 DEF QueriesInv

\* The same, of a fetch neither answered nor at rest.
LEMMA FetchMoves ==
  ASSUME QueriesInv, NEW k \in Keys, NEW g, Request(g), g.pc \notin {"ok", "idle"},
         get' = [get EXCEPT ![k] = g], UNCHANGED <<data, told, cache, page, month>>
  PROVE  QueriesInv'
<1>1. Current(g, cache[k], told[k], k \in Shown)
  BY DEF Current
<1>2. cache' = [cache EXCEPT ![k] = cache[k]]
  BY DEF QueriesInv
<1> QED BY <1>1, <1>2, OneFetch

LEMMA ReloadQueries == ASSUME QueriesInv, Reload, UNCHANGED data PROVE QueriesInv'
<1>1. \A k \in Keys : get'[k] = NoFetch /\ told'[k] = 0
  BY DEF Reload
<1>2. Shown' = {}
  BY DEF Reload, Shown, KeysOf, QueriesOf
<1>3. ASSUME NEW k \in Keys PROVE QueryInv(k)'
  <2>1. Current(NoFetch, cache'[k], 0, FALSE)
    BY DEF Current, NoFetch
  <2>2. data[k] \in Nat
    BY DEF QueriesInv, QueryInv
  <2>3. Current(NoFetch, cache'[k], 0, k \in Shown')
    BY <1>2, <2>1 DEF Current
  <2> QED BY <1>1, <2>2, <2>3, NoFetchRequest DEF QueryInv
<1>4. /\ data' = [k \in Keys |-> data'[k]] /\ told' = [k \in Keys |-> told'[k]]
      /\ cache' = [k \in Keys |-> cache'[k]] /\ get' = [k \in Keys |-> get'[k]]
  BY DEF Reload, QueriesInv
<1>5. page' \in Pages \cup {"employees", "login"} /\ month' \in Months
  BY AdminPanelConstants DEF Reload
<1> QED BY <1>3, <1>4, <1>5 DEF QueriesInv

LEMMA LoginQueries == ASSUME QueriesInv, NEW p \in Pages, Login(p) PROVE QueriesInv'
<1>1. \A k \in Keys : k \in Shown' => k \in KeysOf(QueriesOf(p), ThisMonth)
  BY DEF Login, Shown
<1> QED BY <1>1, MountStep, AdminPanelConstants DEF Login, api

\* The modal shows what the page under it shows, and mounts the rest.
LEMMA VisitQueries == ASSUME QueriesInv, NEW p \in Pages, Visit(p) PROVE QueriesInv'
<1> DEFINE ks == KeysOf(QueriesOf(p) \ (IF p = "assign" THEN EmployeesPage ELSE {}), ThisMonth)
<1>1. ASSUME NEW k \in Keys, k \in Shown' PROVE k \in ks \/ k \in Shown
  <2>1. k \in KeysOf(QueriesOf(p), ThisMonth)
    BY <1>1 DEF Visit, Shown
  <2>2. PICK t \in QueriesOf(p) \cap Tables : k = Key(t, ThisMonth)
    BY <2>1 DEF KeysOf
  <2>3. CASE p = "assign" /\ t \in EmployeesPage
    <3>1. Key(t, ThisMonth) = Key(t, month)
      BY <2>3 DEF Key, EmployeesPage, TimesheetsPage
    <3>2. QueriesOf(page) = EmployeesPage
      BY <2>3 DEF Visit, QueriesOf
    <3> QED BY <2>2, <2>3, <3>1, <3>2 DEF Shown, KeysOf
  <2>4. CASE ~(p = "assign" /\ t \in EmployeesPage)
    BY <2>2, <2>4 DEF KeysOf
  <2> QED BY <2>3, <2>4
<1> QED BY <1>1, MountStep, AdminPanelConstants DEF Visit, api

LEMMA MonthQueries == ASSUME QueriesInv, NEW m \in Months, SetMonth(m) PROVE QueriesInv'
<1>1. \A k \in Keys : k \in Shown' => k \in KeysOf(TimesheetsPage, m)
  BY DEF SetMonth, Shown, QueriesOf
<1>2. page' \in Pages \cup {"employees", "login"}
  BY DEF SetMonth, QueriesInv
<1> QED BY <1>1, <1>2, MountStep DEF SetMonth, api

\* The API answers with what it holds, which is all it has announced.
LEMMA ServeFetchQueries == ASSUME QueriesInv, NEW k \in Keys, ServeFetch(k) PROVE QueriesInv'
<1> DEFINE v == [n |-> data[k], locked |-> k[2] \in approved]
<1> DEFINE g == [get[k] EXCEPT !.pc = "ok", !.value = v]
<1>1. QueryInv(k)
  BY DEF QueriesInv
<1>2. v \in [n : Nat, locked : BOOLEAN] /\ v.n = data[k]
  BY <1>1 DEF QueryInv
<1> HIDE DEF v
<1>3. Covers(v, told[k])
  BY <1>1, <1>2 DEF QueryInv, Covers
<1>4. Request(g) /\ g.pc = "ok" /\ g.value = v
  BY <1>1 DEF QueryInv, Request
<1>5. Current(g, cache[k], told[k], k \in Shown)
  BY <1>3, <1>4 DEF Current
<1>6. get' = [get EXCEPT ![k] = g] /\ cache' = [cache EXCEPT ![k] = cache[k]]
  BY DEF ServeFetch, QueriesInv, v
<1> QED BY <1>4, <1>5, <1>6, OneFetch DEF ServeFetch, api, view

LEMMA InterceptFetchQueries ==
  ASSUME QueriesInv, NEW k \in Keys, InterceptFetch(k) PROVE QueriesInv'
<1>1. CASE refreshing'
  <2> DEFINE g == [get[k] EXCEPT !.pc = "waiting", !.retried = TRUE]
  <2>1. Request(get[k])
    BY DEF QueriesInv, QueryInv
  <2>2. Request(g) /\ g.pc = "waiting"
    BY <2>1 DEF Request
  <2>3. get' = [get EXCEPT ![k] = g]
    BY <1>1 DEF InterceptFetch
  <2>4. UNCHANGED <<data, told, cache, page, month>>
    BY <1>1 DEF InterceptFetch, Await, api, view, Reload
  <2> QED BY <2>2, <2>3, <2>4, FetchMoves
<1>2. CASE ~refreshing'
  BY <1>2, ReloadQueries DEF InterceptFetch, Await, api
<1> QED BY <1>1, <1>2

LEMMA InterceptCallQueries ==
  ASSUME QueriesInv, NEW c \in Calls, InterceptCall(c) PROVE QueriesInv'
<1>1. CASE refreshing'
  <2>1. UNCHANGED <<get, data, told, cache, page, month>>
    BY <1>1 DEF InterceptCall, Await, api, view, Reload
  <2> QED BY <2>1 DEF QueriesInv, QueryInv, Shown
<1>2. CASE ~refreshing'
  BY <1>2, ReloadQueries DEF InterceptCall, Await, api
<1> QED BY <1>1, <1>2

LEMMA RefreshQueries == ASSUME QueriesInv, RefreshTokens PROVE QueriesInv'
<1>1. CASE get' = Resumed(get) /\ UNCHANGED <<view, cache, told>>
  <2>1. UNCHANGED <<data, told, cache, page, month>> /\ Shown' = Shown
    BY <1>1 DEF RefreshTokens, api, view, Shown
  <2>2. ASSUME NEW k \in Keys PROVE QueryInv(k)'
    <3>1. QueryInv(k) /\ Request(get[k])
      BY DEF QueriesInv, QueryInv
    <3>2. get'[k] = IF get[k].pc = "waiting" THEN [get[k] EXCEPT !.pc = "sent"] ELSE get[k]
      BY <1>1 DEF Resumed, QueriesInv
    <3> DEFINE g == [get[k] EXCEPT !.pc = "sent"]
    <3>3. Request(g) /\ g.pc = "sent"
      BY <3>1 DEF Request
    <3>4. CASE get'[k] = g
      BY <2>1, <3>1, <3>3, <3>4 DEF QueryInv, Current
    <3>5. CASE get'[k] = get[k]
      BY <2>1, <3>1, <3>5 DEF QueryInv
    <3> QED BY <3>2, <3>4, <3>5
  <2>3. get' = [k \in Keys |-> get'[k]]
    BY <1>1 DEF Resumed, QueriesInv
  <2> QED BY <2>1, <2>2, <2>3 DEF QueriesInv
<1>2. CASE Reload
  BY <1>2, ReloadQueries DEF RefreshTokens, api
<1> QED BY <1>1, <1>2 DEF RefreshTokens

\* An answer that takes in what was announced is what the page shows from then.
LEMMA ReceiveFetchQueries == ASSUME QueriesInv, NEW k \in Keys, ReceiveFetch(k) PROVE QueriesInv'
<1>1. QueryInv(k) /\ Request(get[k])
  BY DEF QueriesInv, QueryInv
<1>2. UNCHANGED <<data, told, page, month>>
  BY DEF ReceiveFetch, api, view
<1>3. CASE /\ get[k].pc = "ok" /\ cache' = [cache EXCEPT ![k] = get[k].value]
           /\ get' = [get EXCEPT ![k] = [NoFetch EXCEPT !.late = get[k].late]]
  <2> DEFINE g == [NoFetch EXCEPT !.late = get[k].late]
  <2>1. Request(g) /\ g.pc = "idle" /\ g.late = get[k].late
    BY <1>1 DEF Request, NoFetch
  <2> HIDE DEF g
  <2>2. Current(g, get[k].value, told[k], k \in Shown)
    BY <1>1, <1>3, <2>1 DEF Current, QueryInv
  <2> QED BY <1>2, <1>3, <2>1, <2>2, OneFetch DEF g
<1>4. CASE /\ UNCHANGED cache
           /\ get' = [get EXCEPT ![k] =
             IF k \in Shown /\ ~@.again THEN [Fetch EXCEPT !.again = TRUE, !.late = get[k].late]
             ELSE [NoFetch EXCEPT !.pc = "failed"]]
  <2>1. Request([Fetch EXCEPT !.again = TRUE, !.late = get[k].late])
        /\ [Fetch EXCEPT !.again = TRUE, !.late = get[k].late].pc = "sent"
    BY <1>1 DEF Request, Fetch, NoFetch
  <2>2. Request([NoFetch EXCEPT !.pc = "failed"]) /\ [NoFetch EXCEPT !.pc = "failed"].pc = "failed"
    BY DEF Request, NoFetch
  <2>3. PICK g : Request(g) /\ g.pc \notin {"ok", "idle"} /\ get' = [get EXCEPT ![k] = g]
    BY <1>4, <2>1, <2>2
  <2> QED BY <1>2, <1>4, <2>3, FetchMoves
<1> QED BY <1>3, <1>4 DEF ReceiveFetch

LEMMA PollQueries == ASSUME QueriesInv, NEW k \in Keys, Poll(k) PROVE QueriesInv'
<1>1. Request(Fetch) /\ Fetch.pc = "sent"
  BY FetchCurrent DEF Fetch, NoFetch
<1> QED BY <1>1, FetchMoves DEF Poll, api, view

LEMMA FailFetchQueries == ASSUME QueriesInv, NEW k \in Keys, FailFetch(k) PROVE QueriesInv'
<1>1. PICK pc \in {"unauthorized", "error"} : get' = [get EXCEPT ![k].pc = pc]
  BY DEF FailFetch
<1> DEFINE g == [get[k] EXCEPT !.pc = pc]
<1>2. Request(get[k])
  BY DEF QueriesInv, QueryInv
<1>3. Request(g) /\ g.pc = pc
  BY <1>2 DEF Request
<1>4. get' = [get EXCEPT ![k] = g]
  BY <1>1
<1> QED BY <1>3, <1>4, FetchMoves DEF FailFetch, api, view

LEMMA ServeCallQueries == ASSUME QueriesInv, NEW c \in Calls, ServeCall(c) PROVE QueriesInv'
<1>1. UNCHANGED <<told, cache, get, page, month>> /\ Shown' = Shown
  BY DEF ServeCall, view, Shown
<1>2. PICK altered : data' = data \/ data' = [k \in Keys |-> data[k] + (IF k \in altered THEN 1 ELSE 0)]
  BY DEF ServeCall, api
<1>3. ASSUME NEW k \in Keys PROVE QueryInv(k)'
  <2>1. QueryInv(k)
    BY DEF QueriesInv
  <2>2. data'[k] \in Nat /\ data[k] <= data'[k]
    BY <1>2, <2>1 DEF QueryInv
  <2> QED BY <1>1, <2>1, <2>2 DEF QueryInv
<1>4. data' = [k \in Keys |-> data'[k]]
  BY <1>2 DEF QueriesInv
<1> QED BY <1>1, <1>3, <1>4 DEF QueriesInv

\* A query the call has altered is announced: it is fetched, or marked late,
\* or its fetch is still to be answered.
LEMMA Announced ==
  ASSUME QueriesInv, NEW r, WellMade(r.button), NEW k \in Keys,
         k \in KeysOf(r.button.alters, r.month),
         NEW g, g = Invalidated(r.button, r.shows, KeysOf(r.button.alters, r.month))[k]
  PROVE  Request(g) /\ (g.late \/ g.pc \notin {"ok", "idle"} \/ (g = get[k] /\ g.pc = "idle" /\ k \notin Shown))
<1> DEFINE b == r.button
<1> DEFINE late == [get[k] EXCEPT !.late = TRUE]
<1> DEFINE fetched == k \in KeysOf(b.invalidates, r.shows) \cap Shown /\ (Settled(k) \/ cache[k] # None)
<1> DEFINE marked == ~Settled(k) \/ k \notin KeysOf(QueriesOf(b.page), r.shows)
<1>1. g = IF fetched THEN Fetch ELSE IF marked THEN late ELSE get[k]
  BY DEF Invalidated
<1>2. Request(get[k])
  BY DEF QueriesInv, QueryInv
<1>3. Request(late) /\ late.late
  BY <1>2 DEF Request
<1>4. Request(Fetch) /\ Fetch.pc = "sent"
  BY FetchCurrent DEF Fetch, NoFetch
<1>5. ASSUME ~fetched, ~marked PROVE get[k].pc # "ok" /\ (get[k].pc = "idle" => k \notin Shown)
  <2>1. Settled(k) /\ k \in KeysOf(QueriesOf(b.page), r.shows)
    BY <1>5
  <2>2. PICK t \in b.alters \cap Tables : k = Key(t, r.month)
    BY DEF KeysOf
  <2>3. PICK u \in QueriesOf(b.page) \cap Tables : k = Key(u, r.shows)
    BY <2>1 DEF KeysOf
  <2>4. t = u
    BY <2>2, <2>3 DEF Key
  <2>5. k \in KeysOf(b.invalidates, r.shows)
    BY <2>2, <2>3, <2>4 DEF WellMade, KeysOf
  <2> QED BY <1>5, <2>1, <2>5 DEF Settled
<1> HIDE DEF late, fetched, marked
<1>6. CASE fetched
  BY <1>1, <1>4, <1>6
<1>7. CASE ~fetched /\ marked
  BY <1>1, <1>3, <1>7
<1>8. CASE ~fetched /\ ~marked
  BY <1>1, <1>2, <1>5, <1>8
<1> QED BY <1>6, <1>7, <1>8

LEMMA ReceiveCallQueries ==
  ASSUME PagesInv, NEW c \in Calls, ReceiveCall(c) PROVE QueriesInv'
<1> DEFINE r == call[c]
<1>1. UNCHANGED <<data, cache, month>>
  BY DEF ReceiveCall, api
<1>2. Announces(r, data) /\ QueriesInv
  BY DEF PagesInv, CallsInv
<1>3. CASE UNCHANGED <<page, get, told>>
  BY <1>1, <1>2, <1>3 DEF QueriesInv, QueryInv, Shown
<1>4. CASE /\ r.pc = "ok"
           /\ told' = [k \in Keys |-> IF k \in DOMAIN r.upto /\ r.upto[k] > told[k]
                                   THEN r.upto[k] ELSE told[k]]
           /\ get' = Invalidated(r.button, r.shows, DOMAIN r.upto)
           /\ page' = IF r.button.name = page THEN "employees" ELSE page
  <2> DEFINE altered == KeysOf(r.button.alters, r.month)
  <2>1. /\ WellMade(r.button) /\ DOMAIN r.upto = altered
        /\ \A k \in altered : r.upto[k] \in Nat /\ r.upto[k] <= data[k]
    BY <1>2, <1>4 DEF Announces
  <2>2. page' \in Pages \cup {"employees", "login"} /\ \A k \in Shown' : k \in Shown
    <3>1. CASE r.button.name = page
      <4>1. page = "assign" /\ page' = "employees"
        BY <1>2, <1>4, <2>1, <3>1 DEF WellMade, QueriesInv
      <4>2. QueriesOf(page') \subseteq QueriesOf(page)
        BY <4>1 DEF QueriesOf, AssignShiftModal
      <4>3. \A k \in Shown' : k \in Shown
        <5>1. Shown' = KeysOf(QueriesOf(page'), month)
          BY <1>1 DEF Shown
        <5>2. KeysOf(QueriesOf(page'), month) \subseteq KeysOf(QueriesOf(page), month)
          BY <4>2, KeysOfMore
        <5> QED BY <5>1, <5>2 DEF Shown
      <4> QED BY <4>1, <4>3
    <3>2. CASE r.button.name # page
      BY <1>1, <1>2, <1>4, <3>2 DEF Shown, QueriesInv
    <3> QED BY <3>1, <3>2
  <2>3. ASSUME NEW k \in Keys PROVE QueryInv(k)'
    <3>1. QueryInv(k)
      BY <1>2 DEF QueriesInv
    <3>2. get'[k] = Invalidated(r.button, r.shows, altered)[k]
      BY <1>4, <2>1
    <3>3. told'[k] = IF k \in altered /\ r.upto[k] > told[k] THEN r.upto[k] ELSE told[k]
      BY <1>4, <2>1
    <3>4. data'[k] \in Nat /\ told'[k] \in Nat /\ told'[k] <= data'[k]
      BY <1>1, <2>1, <3>1, <3>3 DEF QueryInv
    <3>5. CASE k \in altered
      <4> DEFINE g == get'[k]
      <4>1. /\ Request(g)
            /\ g.late \/ g.pc \notin {"ok", "idle"} \/ (g = get[k] /\ g.pc = "idle" /\ k \notin Shown)
        BY <1>2, <2>1, <3>2, <3>5, Announced
      <4>2. Current(g, cache'[k], told'[k], k \in Shown')
        BY <2>2, <4>1 DEF Current
      <4> QED BY <3>4, <4>1, <4>2 DEF QueryInv
    <3>6. CASE k \notin altered
      <4>1. get'[k] = Fetch \/ get'[k] = get[k]
        BY <3>2, <3>6 DEF Invalidated
      <4>2. told'[k] = told[k] /\ cache'[k] = cache[k]
        BY <1>1, <3>3, <3>6
      <4>3. CASE get'[k] = Fetch
        BY <3>4, <4>3, FetchCurrent DEF QueryInv
      <4>4. CASE get'[k] = get[k]
        BY <2>2, <3>1, <3>4, <4>2, <4>4 DEF QueryInv, Current
      <4> QED BY <4>1, <4>3, <4>4
    <3> QED BY <3>5, <3>6
  <2>4. get' = [k \in Keys |-> get'[k]] /\ told' = [k \in Keys |-> told'[k]]
    BY <1>4 DEF Invalidated
  <2> QED BY <1>1, <1>2, <2>2, <2>3, <2>4 DEF QueriesInv
<1> QED BY <1>3, <1>4 DEF ReceiveCall

LEMMA QueriesStep == ASSUME PagesInv, [Next]_vars PROVE QueriesInv'
<1>1. QueriesInv
  BY DEF PagesInv
<1>2. CASE UNCHANGED <<data, told, cache, get, page, month>>
  BY <1>1, <1>2 DEF QueriesInv, QueryInv, Shown
<1>3. ASSUME Logout PROVE QueriesInv'
  <2>1. /\ UNCHANGED <<data, told, cache, get, month>> /\ page' = "login"
    BY <1>3 DEF Logout, api
  <2>2. Shown' = {}
    BY <2>1 DEF Shown, KeysOf, QueriesOf
  <2>3. ASSUME NEW k \in Keys PROVE QueryInv(k)'
    BY <1>1, <2>1, <2>2 DEF QueriesInv, QueryInv, Current
  <2> QED BY <1>1, <2>1, <2>3 DEF QueriesInv
<1>4. ASSUME NEW c \in Calls, FailCall(c) \/ \E b \in Buttons : Click(c, b)
      PROVE  UNCHANGED <<data, told, cache, get, page, month>>
  BY <1>4 DEF FailCall, Click, api, view
<1>5. UNCHANGED vars => UNCHANGED <<data, told, cache, get, page, month>>
  BY DEF vars
<1> QED
  BY <1>1, <1>2, <1>3, <1>4, <1>5, LoginQueries, VisitQueries, MonthQueries, ServeFetchQueries,
     InterceptFetchQueries, InterceptCallQueries, RefreshQueries, ReceiveFetchQueries,
     PollQueries, FailFetchQueries, ServeCallQueries, ReceiveCallQueries
  DEF Next, AdvanceFetch, AdvanceCall

\* What is on its way to a page, or at rest there, is accounted for.
THEOREM PagesInvariance == Spec => []PagesInv
<1>1. Init => PagesInv
  <2> SUFFICES ASSUME Init PROVE PagesInv
    OBVIOUS
  <2>1. Shown = {}
    BY DEF Init, Shown, KeysOf, QueriesOf
  <2>2. ASSUME NEW k \in Keys PROVE QueryInv(k)
    <3>1. get[k] = NoFetch /\ data[k] = 0 /\ told[k] = 0
      BY DEF Init
    <3>2. Current(NoFetch, cache[k], 0, k \in Shown)
      BY <2>1 DEF Current, NoFetch
    <3> QED BY <3>1, <3>2, NoFetchRequest DEF QueryInv
  <2>3. CallsInv
    BY NoCallAnnounces DEF Init, CallsInv
  <2>4. QueriesInv
    BY <2>2, AdminPanelConstants DEF Init, QueriesInv
  <2> QED BY <2>3, <2>4 DEF PagesInv
<1>2. IInv /\ PagesInv /\ [Next]_vars => PagesInv'
  BY CallsStep, QueriesStep DEF PagesInv
<1> QED BY <1>1, <1>2, Invariance, PTL DEF Spec

\* What a page shows at rest takes in every change the panel was told of, for any
\* pages, months, calls under way and faults (the invalidations in the pages'
\* onSuccess, against the fetches under way in the query cache).
THEOREM PagesCatchUp == Spec => []CaughtUp
<1>1. PagesInv => CaughtUp
  <2> SUFFICES ASSUME PagesInv, NEW k \in Shown, get[k].pc = "idle"
               PROVE  get[k].late \/ (cache[k] # None /\ cache[k].n >= told[k])
    BY DEF CaughtUp
  <2>1. k \in Keys
    BY KeysOfMonth DEF PagesInv, QueriesInv, Shown
  <2>2. Current(get[k], cache[k], told[k], k \in Shown)
    BY <2>1 DEF PagesInv, QueriesInv, QueryInv
  <2>3. get[k].late \/ Covers(cache[k], told[k])
    BY <2>2 DEF Current
  <2> QED BY <2>3, AdminPanelConstants DEF Covers
<1> QED BY <1>1, PagesInvariance, PTL
==============================================================================
