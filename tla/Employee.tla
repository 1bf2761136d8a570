------------------------------- MODULE Employee --------------------------------
(***************************************************************************)
(* The employee app on one phone: its session in AsyncStorage, checks that *)
(* are queued while offline, and the flushes of the home screen.  Each     *)
(* await lets the others in; every flush writes back what it makes of the  *)
(* list it read first.                                                     *)
(*                                                                         *)
(* Checks are numbered as their challenges are issued, tokens as they are; *)
(* an access token and its refresh token are one.  How a check is judged   *)
(* is CheckIn's, how the BLE answer is fetched KioskLink's, and how a      *)
(* device gets approved Devices'.                                          *)
(***************************************************************************)
EXTENDS Naturals, Sequences, SequencesExt

CONSTANTS
  Users,
  Flushes,                   \* flushQueue calls under way at a time
  Check,                     \* the performCheck of the check screen
  None,
  MaxChecks, MaxTokens,      \* bounds: challenges issued, tokens issued
  MaxFaults                  \* bound: lost requests and answers, restarts

ASSUME EmployeeConstants ==
  /\ None \notin Users \cup Nat \cup [by : Users, n : Nat] /\ Check \notin Flushes
  /\ MaxChecks \in Nat /\ MaxTokens \in Nat /\ MaxFaults \in Nat

VARIABLES
  screen,      \* "loading", "login", "home" or "check"
  session,     \* AsyncStorage: tokens [by, n] or None, and user or None
  expired,     \* tokens the API answers with 401
  tokens,      \* number of tokens issued
  queue,       \* quanta.offlineQueue
  act,         \* what each flush, and the check, is at
  owner,       \* the user of each challenge issued
  recorded,    \* checks the API has recorded
  answered,    \* history: checks a request for which was answered
  signedOut,   \* history: checks a flush gave up because its session was over
  behind,      \* history: runs whose copy of the queue is older than the queue
  entering,    \* whose login is between its two writes, or None
  crossed,     \* history: a request outlived the session it was for, or a login
               \* died between its two writes
  faults

vars == <<screen, session, expired, tokens, queue, act, owner, recorded,
          answered, signedOut, behind, entering, crossed, faults>>
server == <<expired, owner, recorded>>
login == <<entering, crossed>>
ended == <<answered, signedOut>>

Runs == Flushes \cup {Check}

\* A run: the checks to send, those to keep, and the request under way.
Idle == [pc |-> "idle", todo |-> <<>>, keep |-> <<>>, token |-> None, retried |-> FALSE]
At(a, pc) == act[a].pc = pc
Step(a, pc) == act' = [act EXCEPT ![a].pc = pc]

\* The challenge request is check number 0.
Item(a) == Head(act[a].todo)

Init ==
  /\ screen = "loading" /\ session = [tokens |-> None, user |-> None]
  /\ expired = {} /\ tokens = 0 /\ queue = <<>>
  /\ act = [a \in Runs |-> Idle] /\ owner = <<>> /\ recorded = {}
  /\ answered = {} /\ signedOut = {} /\ behind = {} /\ entering = None /\ crossed = FALSE /\ faults = 0

-----------------------------------------------------------------------------
(* Session                                                                 *)

\* A login or a refresh stores a new token.
NewToken(u) == [by |-> u, n |-> tokens + 1]
Issue(t) == tokens < MaxTokens /\ tokens' = tokens + 1

\* A request, or its refresh, has the tokens of the session in hand.
OnItsWay(a) == At(a, "sent") \/ At(a, "unauthorized")

\* Mutant of ClearSession: the tokens stay in storage.
ClearUserOnly ==
  /\ session' = [session EXCEPT !.user = None]
  /\ crossed' = (crossed \/ \E a \in Runs : OnItsWay(a))

ClearSession ==
  /\ session' = [tokens |-> None, user |-> None]
  /\ crossed' = (crossed \/ \E a \in Runs : OnItsWay(a))

\* The answer to a login: first its tokens are stored ...
Login(u) ==
  /\ screen = "login" /\ entering = None /\ Issue(u)
  /\ session' = [session EXCEPT !.tokens = NewToken(u)]
  /\ entering' = u /\ crossed' = (crossed \/ \E a \in Runs : OnItsWay(a))
  /\ UNCHANGED <<screen, server, queue, act, ended, behind, faults>>

\* ... then its user.
LoginUser ==
  /\ entering # None
  /\ session' = [session EXCEPT !.user = entering]
  /\ entering' = None /\ screen' = "loading"
  /\ UNCHANGED <<server, tokens, queue, act, ended, behind, crossed, faults>>

\* resolveEntryRoute: no session, or no answer about the device, is the login.
ResolveEntryRoute ==
  /\ screen = "loading"
  /\ \/ session.tokens # None /\ screen' = "home"
     \/ screen' = "login"
  /\ UNCHANGED <<session, server, tokens, queue, act, ended, behind, login, faults>>

Logout ==
  /\ screen = "home" /\ screen' = "login"
  /\ ClearSession
  /\ UNCHANGED <<server, tokens, queue, act, ended, behind, entering, faults>>

-----------------------------------------------------------------------------
(* apiRequest, for the first of a run's checks                             *)

\* Tokens are read when the request starts; without any there is no request.
ApiRequest(a) ==
  /\ At(a, "send")
  /\ act' = [act EXCEPT ![a].token = session.tokens, ![a].retried = FALSE,
               ![a].pc = IF session.tokens = None THEN "signed out" ELSE "sent"]
  /\ UNCHANGED <<screen, session, server, tokens, queue, ended, behind, login, faults>>

\* The API: 401 for an expired token; a check counts once, for its own user, and
\* may be refused for many reasons.
Serve(a) ==
  LET t == act[a].token IN
  /\ At(a, "sent")
  /\ IF t.n \in expired
     THEN /\ Step(a, IF act[a].retried THEN "error" ELSE "unauthorized")
          /\ UNCHANGED <<owner, recorded>>
     ELSE \/ Step(a, "error") /\ UNCHANGED <<owner, recorded>>
          \/ /\ Item(a) = 0 /\ Len(owner) < MaxChecks
             /\ owner' = Append(owner, t.by)
             /\ act' = [act EXCEPT ![a].pc = "ok", ![a].keep = <<Len(owner')>>]
             /\ UNCHANGED recorded
          \/ /\ Item(a) # 0 /\ Item(a) \notin recorded /\ owner[Item(a)] = t.by
             /\ recorded' = recorded \cup {Item(a)}
             /\ Step(a, "ok")
             /\ UNCHANGED owner
  /\ UNCHANGED <<screen, session, expired, tokens, queue, ended, behind, login, faults>>

\* One refresh: its new token is stored and the request sent again; whatever
\* goes wrong with it, offline included, ends the session and the request.
Refresh(a) ==
  /\ At(a, "unauthorized")
  /\ \/ /\ Issue(act[a].token.by)
        /\ session' = [session EXCEPT !.tokens = NewToken(act[a].token.by)]
        /\ act' = [act EXCEPT ![a].pc = "sent", ![a].retried = TRUE,
                     ![a].token = session'.tokens]
        /\ UNCHANGED crossed
     \/ /\ session' = [tokens |-> None, user |-> None]
        /\ crossed' = (crossed \/ \E b \in Runs \ {a} : OnItsWay(b))
        /\ Step(a, "signed out")
        /\ UNCHANGED tokens
  /\ UNCHANGED <<screen, server, queue, ended, behind, entering, faults>>

-----------------------------------------------------------------------------
(* The queue.  "ok" and "error" are answers; "signed out" is an ApiError    *)
(* that is none, raised without tokens or after a failed refresh; "network" *)
(* is a NetworkError.                                                       *)

Answered(a) == At(a, "ok") \/ At(a, "error")
Outcome(a) == Answered(a) \/ At(a, "signed out") \/ At(a, "network")

\* How the request for the next check of a flush ended, for the properties.
Remember(f) ==
  /\ answered' = IF Answered(f) THEN answered \cup {Item(f)} ELSE answered
  /\ signedOut' = IF At(f, "signed out") THEN signedOut \cup {Item(f)} ELSE signedOut

\* A write makes every older copy of the list obsolete.
Behind == behind' = (IF queue' = queue THEN behind
                     ELSE behind \cup {a \in Runs : ~At(a, "idle")})

\* HomeScreen's mount, and its interval: read the list.
StartFlush(f) ==
  /\ screen = "home" /\ queue # <<>> /\ At(f, "idle")
  /\ act' = [act EXCEPT ![f] = [Idle EXCEPT !.pc = "send", !.todo = queue]]
  /\ behind' = behind \ {f}
  /\ UNCHANGED <<screen, session, server, tokens, queue, ended, login, faults>>

\* Mutant of FlushItem: whatever was tried leaves the list.
FlushItemDropped(f) ==
  /\ Outcome(f)
  /\ act' = [act EXCEPT ![f].todo = Tail(@),
       ![f].pc = IF Len(act[f].todo) = 1 THEN "write" ELSE "send"]
  /\ Remember(f)
  /\ UNCHANGED <<screen, session, server, tokens, queue, behind, login, faults>>


\* The loop of flushQueue: a NetworkError keeps the check, an ApiError drops it
\* whether or not it is the API's answer.
FlushItem(f) ==
  /\ Outcome(f)
  /\ act' = [act EXCEPT ![f].todo = Tail(@),
       ![f].keep = IF At(f, "network") THEN Append(@, Item(f)) ELSE @,
       ![f].pc = IF Len(act[f].todo) = 1 THEN "write" ELSE "send"]
  /\ Remember(f)
  /\ UNCHANGED <<screen, session, server, tokens, queue, behind, login, faults>>

\* writeQueue: the list is what the run made of the one it read.
WriteQueue(a) ==
  /\ At(a, "write")
  /\ queue' = act[a].keep
  /\ act' = [act EXCEPT ![a] = Idle]
  /\ Behind
  /\ UNCHANGED <<screen, session, server, tokens, ended, login, faults>>

-----------------------------------------------------------------------------
(* The check screen                                                        *)

\* From the home screen over a scanned QR: performCheck asks for a challenge.
StartCheck ==
  /\ screen = "home" /\ screen' = "check" /\ At(Check, "idle")
  /\ act' = [act EXCEPT ![Check] = [Idle EXCEPT !.pc = "send", !.todo = <<0>>]]
  /\ UNCHANGED <<session, server, tokens, queue, ended, behind, login, faults>>

\* The challenge, then the BLE answer, which may fail; then the check itself,
\* queued if it meets a NetworkError.
PerformCheck ==
  /\ Outcome(Check)
  /\ \/ /\ Item(Check) = 0 /\ At(Check, "ok")
        /\ act' = [act EXCEPT ![Check] = [Idle EXCEPT !.pc = "send", !.todo = act[Check].keep]]
     \/ /\ Item(Check) = 0 \/ ~At(Check, "network")
        /\ act' = [act EXCEPT ![Check] = Idle]
     \/ /\ Item(Check) # 0 /\ At(Check, "network")
        /\ Step(Check, "enqueue")
  /\ UNCHANGED <<screen, session, server, tokens, queue, ended, behind, login, faults>>

\* enqueueCheck: read the list; WriteQueue writes it with one more.
EnqueueCheck ==
  /\ At(Check, "enqueue")
  /\ act' = [act EXCEPT ![Check].pc = "write", ![Check].keep = Append(queue, Item(Check))]
  /\ behind' = behind \ {Check}
  /\ UNCHANGED <<screen, session, server, tokens, queue, ended, login, faults>>

Done ==
  /\ screen = "check" /\ At(Check, "idle") /\ screen' = "home"
  /\ UNCHANGED <<session, server, tokens, queue, act, ended, behind, login, faults>>

-----------------------------------------------------------------------------
(* Time and faults                                                         *)

Expire ==
  /\ session.tokens # None
  /\ expired' = expired \cup {session.tokens.n}
  /\ UNCHANGED <<screen, session, tokens, queue, act, owner, recorded, ended,
                 behind, login, faults>>

Fault == faults < MaxFaults /\ faults' = faults + 1

\* The request, or the answer the API has given already, is lost.
LoseRequest(a) ==
  /\ Fault /\ \E pc \in {"sent", "ok", "error", "unauthorized"} : At(a, pc)
  /\ Step(a, "network")
  /\ UNCHANGED <<screen, session, server, tokens, queue, ended, behind, login>>

\* The app dies, with every run in it; AsyncStorage survives.
Restart ==
  /\ Fault /\ screen' = "loading"
  /\ act' = [a \in Runs |-> Idle]
  /\ entering' = None /\ crossed' = (crossed \/ entering # None)
  /\ UNCHANGED <<session, server, tokens, queue, ended, behind>>

Advance(a) == ApiRequest(a) \/ Serve(a) \/ Refresh(a) \/ WriteQueue(a)

Next ==
  \/ LoginUser \/ \E u \in Users : Login(u)
  \/ \E a \in Runs : Advance(a) \/ LoseRequest(a)
  \/ \E f \in Flushes : StartFlush(f) \/ FlushItem(f)
  \/ PerformCheck \/ EnqueueCheck \/ StartCheck \/ Done
  \/ ResolveEntryRoute \/ Logout \/ Expire \/ Restart

Spec == Init /\ [][Next]_vars

\* What is awaited comes or fails, results are dismissed, and each mount of the
\* home screen flushes.  Nobody must log in, check in, or be back online.
FairSpec ==
  /\ Spec
  /\ \A a \in Runs : WF_vars(Advance(a))
  /\ \A f \in Flushes : WF_vars(FlushItem(f))
  /\ WF_vars(PerformCheck \/ EnqueueCheck) /\ WF_vars(Done)
  /\ WF_vars(LoginUser) /\ WF_vars(ResolveEntryRoute)
  /\ SF_vars(\E f \in Flushes : StartFlush(f))

-----------------------------------------------------------------------------
(* What the app promises                                                   *)

Queued(c) == c \in ToSet(queue)
Gone(c) == Queued(c) /\ ~Queued(c)'

\* A queued check leaves the list when the API answered a request for it, when a
\* flush came to it without a session to send it in (no tokens, or a refresh that
\* failed, offline too: apiRequest), or by a run that overwrites a list it has not
\* read (flushQueue, enqueueCheck).  No lost request or answer, restart, expired
\* token or other flush takes it off the list.
KeptUnlessAnswered ==
  [][\A c \in 1..MaxChecks : Gone(c) =>
       \/ c \in answered \cup signedOut
       \/ \E a \in behind : At(a, "write") /\ ~At(a, "write")']_vars

\* "stale entries will be rejected with 403 and are dropped; only network failures
\* keep an entry queued" (flushQueue): what leaves the list was sent and answered,
\* or could not be sent for want of a session.
OnlyVerdictsDrop ==
  [][\A c \in 1..MaxChecks : Gone(c) => c \in answered \cup signedOut]_vars

\* "still offline - keep it" (flushQueue): without an answer a check stays, unless
\* it is overwritten.  Not so: a request without tokens, or with a refresh that fails
\* offline, drops it too.
OnlyAnswersDrop ==
  [][\A c \in 1..MaxChecks : Gone(c) =>
       \/ c \in answered
       \/ \E a \in behind : At(a, "write") /\ ~At(a, "write")']_vars

\* Requests go out as the user whom the app shows, once a login is complete:
\* unless a request outlived the session it was for (its refresh stores the tokens
\* whoever is logged in by then), or the app died between a login's two writes.
TokenOfUser ==
  session.tokens # None /\ entering = None /\ ~crossed =>
    session.tokens.by = session.user

=============================================================================
