---------------------------- MODULE EmployeeProofs -----------------------------
(***************************************************************************)
(* Theorems about Employee, for any number of users and flushes.           *)
(***************************************************************************)
EXTENDS Employee, SequenceTheorems, TLAPS

-----------------------------------------------------------------------------
(* Types, as far as the proofs need them                                   *)

Token == [by : Users, n : Nat]
Pcs == {"idle", "send", "sent", "unauthorized", "ok", "error", "signed out", "network", "enqueue",
        "write"}
Checks == Nat \ {0}
Run == [pc : Pcs, todo : Seq(Nat), keep : Seq(Checks), token : Token \cup {None},
        retried : BOOLEAN]

\* What run a may be at: what is being sent has a first check and a token, a flush
\* asks for no challenge and goes through its whole list, and the check screen keeps
\* the challenge it got.
Sound(a, r) ==
  /\ r \in Run
  /\ r.pc \notin {"idle", "write"} => r.todo # <<>>
  /\ r.pc \in {"sent", "unauthorized"} => r.token # None
  /\ r.pc = "ok" /\ Head(r.todo) = 0 => r.keep # <<>>
  /\ r.pc = "enqueue" => a \notin Flushes /\ Head(r.todo) # 0
  /\ a \in Flushes => r.todo \in Seq(Checks) /\ (r.pc = "write" => r.todo = <<>>)

TypeOK ==
  /\ session \in [tokens : Token \cup {None}, user : Users \cup {None}]
  /\ entering \in Users \cup {None}
  /\ tokens \in Nat
  /\ queue \in Seq(Checks)
  /\ owner \in Seq(Users)
  /\ act \in [Runs -> Run] /\ \A a \in Runs : Sound(a, act[a])

-----------------------------------------------------------------------------
(* Whose tokens                                                            *)

\* A request on its way belongs to whom the session's tokens belong to, and so
\* does the login that is about to store its user.
OneOwner ==
  crossed \/ /\ \A a \in Runs : OnItsWay(a) =>
                  session.tokens # None /\ act[a].token.by = session.tokens.by
             /\ entering # None /\ session.tokens # None => session.tokens.by = entering
             /\ TokenOfUser

-----------------------------------------------------------------------------
(* What is on a list                                                       *)

\* A flush that is not behind has every check of the queue on one of its lists, or
\* it was answered or given up.
Accounted ==
  \A f \in Flushes : ~At(f, "idle") /\ f \notin behind =>
    \A c \in Checks : Queued(c) =>
      c \in ToSet(act[f].todo) \cup ToSet(act[f].keep) \cup answered \cup signedOut

\* A list that the check screen is about to write has all of the queue.
AddsOnly ==
  At(Check, "write") /\ Check \notin behind =>
    \A c \in Checks : Queued(c) => c \in ToSet(act[Check].keep)

IInv == TypeOK /\ OneOwner /\ Accounted /\ AddsOnly

-----------------------------------------------------------------------------
(* Sequences                                                               *)

LEMMA HeadAndTail ==
  ASSUME NEW S, NEW s \in Seq(S), s # <<>>
  PROVE  /\ Head(s) \in S /\ Tail(s) \in Seq(S)
         /\ ToSet(s) = {Head(s)} \cup ToSet(Tail(s))
         /\ Len(s) = 1 <=> Tail(s) = <<>>
<1>1. Len(s) \in Nat \ {0} /\ Head(s) = s[1] /\ Head(s) \in S /\ Tail(s) \in Seq(S)
  OBVIOUS
<1>2. Len(Tail(s)) = Len(s) - 1 /\ \A i \in 1..Len(Tail(s)) : Tail(s)[i] = s[i + 1]
  BY <1>1
<1>3. \A i \in 1..Len(s) : s[i] = Head(s) \/ \E j \in 1..Len(Tail(s)) : Tail(s)[j] = s[i]
  <2> SUFFICES ASSUME NEW i \in 1..Len(s), i # 1
               PROVE  \E j \in 1..Len(Tail(s)) : Tail(s)[j] = s[i]
    BY <1>1
  <2>1. i - 1 \in 1..Len(Tail(s)) /\ (i - 1) + 1 = i
    BY <1>1, <1>2
  <2> QED BY <1>2, <2>1
<1>4. \A j \in 1..Len(Tail(s)) : j + 1 \in 1..Len(s)
  BY <1>1, <1>2
<1>5. ToSet(s) = {Head(s)} \cup ToSet(Tail(s))
  <2>1. DOMAIN s = 1..Len(s) /\ 1 \in 1..Len(s)
    BY <1>1
  <2>2. ASSUME NEW t \in Seq(S) PROVE DOMAIN t = 1..Len(t)
    OBVIOUS
  <2>3. DOMAIN Tail(s) = 1..Len(Tail(s))
    BY <1>1, <2>2
  <2>4. ASSUME NEW i \in 1..Len(s) PROVE s[i] = Head(s) \/ s[i] \in ToSet(Tail(s))
    BY <1>3, <2>3 DEF ToSet
  <2>5. \A x \in ToSet(s) : x = Head(s) \/ x \in ToSet(Tail(s))
    BY <2>4, <2>1 DEF ToSet
  <2>6. Head(s) \in ToSet(s)
    BY <1>1, <2>1 DEF ToSet
  <2>7. \A x \in ToSet(Tail(s)) : x \in ToSet(s)
    BY <1>2, <1>4, <2>1, <2>3 DEF ToSet
  <2> QED BY <2>5, <2>6, <2>7
<1>6. Len(s) = 1 <=> Tail(s) = <<>>
  <2>1. Tail(s) = <<>> <=> Len(Tail(s)) = 0
    BY <1>1, EmptySeq
  <2>2. Len(s) = 1 <=> Len(Tail(s)) = 0
    BY <1>1, <1>2
  <2> QED BY <2>1, <2>2
<1> QED BY <1>1, <1>5, <1>6

LEMMA AppendSet ==
  ASSUME NEW S, NEW s \in Seq(S), NEW e \in S
  PROVE  Append(s, e) \in Seq(S) /\ ToSet(Append(s, e)) = ToSet(s) \cup {e}
<1>1. /\ Append(s, e) \in Seq(S) /\ Len(s) \in Nat
      /\ DOMAIN Append(s, e) = 1..(Len(s) + 1) /\ DOMAIN s = 1..Len(s)
  OBVIOUS
<1>2. \A i \in 1..(Len(s) + 1) : Append(s, e)[i] = IF i = Len(s) + 1 THEN e ELSE s[i]
  OBVIOUS
<1>3. Len(s) + 1 \in DOMAIN Append(s, e) /\ \A i \in DOMAIN s : i \in DOMAIN Append(s, e) /\ i # Len(s) + 1
  BY <1>1
<1>4. \A i \in DOMAIN Append(s, e) : i \in DOMAIN s \/ i = Len(s) + 1
  BY <1>1
<1> QED BY <1>1, <1>2, <1>3, <1>4 DEF ToSet

-----------------------------------------------------------------------------
(* Types                                                                   *)

LEMMA NoneIsNone ==
  /\ None \notin Users /\ None \notin Token /\ Check \notin Flushes /\ Check \in Runs
  /\ Flushes \subseteq Runs /\ \A a \in Runs : a = Check \/ a \in Flushes
BY EmployeeConstants DEF Token, Runs

\* A step of one run, to something it may be at.
LEMMA RunStep ==
  ASSUME TypeOK, NEW a \in Runs, NEW r, Sound(a, r), act' = [act EXCEPT ![a] = r]
  PROVE  act' \in [Runs -> Run] /\ \A b \in Runs : Sound(b, act'[b])
<1>1. r \in Run
  BY DEF Sound
<1>2. act' \in [Runs -> Run]
  BY <1>1 DEF TypeOK
<1>3. \A b \in Runs : act'[b] = IF b = a THEN r ELSE act[b]
  BY DEF TypeOK
<1> QED BY <1>2, <1>3 DEF TypeOK

LEMMA IdleSound == ASSUME NEW a PROVE Sound(a, Idle)
<1>1. <<>> \in Seq(Nat) /\ <<>> \in Seq(Checks)
  OBVIOUS
<1>2. Idle \in Run
  BY <1>1 DEF Idle, Run, Pcs
<1> QED BY <1>1, <1>2 DEF Idle, Sound

\* A run keeps its lists while its request gets on.
LEMMA StepSound ==
  ASSUME TypeOK, NEW a \in Runs, NEW pc \in Pcs \ {"idle", "enqueue", "write"}, NEW t \in Token \cup {None},
         NEW b \in BOOLEAN, act[a].pc \notin {"idle", "write"},
         pc \in {"sent", "unauthorized"} => t # None,
         pc = "ok" => Item(a) # 0
  PROVE  Sound(a, [act[a] EXCEPT !.pc = pc, !.token = t, !.retried = b])
<1>1. Sound(a, act[a])
  BY DEF TypeOK
<1> QED BY <1>1 DEF Sound, Run, Item

\* What a step of the check screen may do to its own run.
LEMMA CheckMoves ==
  ASSUME TypeOK, PerformCheck \/ StartCheck \/ EnqueueCheck
  PROVE  /\ act'[Check].pc \in {"idle", "send", "enqueue", "write"}
         /\ act'[Check].pc = "write" => EnqueueCheck
         /\ \A b \in Runs : b # Check => act'[b] = act[b]
<1>1. ASSUME NEW r, act' = [act EXCEPT ![Check] = r]
      PROVE  act'[Check] = r /\ \A b \in Runs : b # Check => act'[b] = act[b]
  BY <1>1, NoneIsNone DEF TypeOK
<1>2. CASE EnqueueCheck
  <2> DEFINE r == [act[Check] EXCEPT !.pc = "write", !.keep = Append(queue, Item(Check))]
  <2>1. act' = [act EXCEPT ![Check] = r]
    BY <1>2 DEF EnqueueCheck
  <2>2. r.pc = "write"
    BY NoneIsNone DEF TypeOK, Run
  <2> QED BY <1>1, <1>2, <2>1, <2>2
<1>3. ASSUME NEW items, act' = [act EXCEPT ![Check] = [Idle EXCEPT !.pc = "send", !.todo = items]]
      PROVE  act'[Check].pc = "send" /\ \A b \in Runs : b # Check => act'[b] = act[b]
  <2>1. [Idle EXCEPT !.pc = "send", !.todo = items].pc = "send"
    BY DEF Idle
  <2> QED BY <1>1, <1>3, <2>1
<1>4. CASE StartCheck
  BY <1>3, <1>4 DEF StartCheck
<1>5. CASE PerformCheck
  <2>1. CASE act' = [act EXCEPT ![Check] = [Idle EXCEPT !.pc = "send", !.todo = act[Check].keep]]
    BY <1>3, <2>1
  <2>2. CASE act' = [act EXCEPT ![Check] = Idle]
    <3>1. Idle.pc = "idle"
      BY DEF Idle
    <3> QED BY <1>1, <2>2, <3>1
  <2>3. CASE Step(Check, "enqueue")
    <3>1. act'[Check].pc = "enqueue" /\ \A b \in Runs : b # Check => act'[b] = act[b]
      BY <2>3, NoneIsNone DEF Step, TypeOK, Run
    <3> QED BY <3>1
  <2> QED BY <1>5, <2>1, <2>2, <2>3 DEF PerformCheck
<1> QED BY <1>2, <1>4, <1>5

LEMMA InitInv == Init => IInv
<1> SUFFICES ASSUME Init PROVE IInv
  OBVIOUS
<1>1. TypeOK
  <2>1. act \in [Runs -> Run] /\ \A a \in Runs : act[a] = Idle
    BY IdleSound DEF Init, Sound
  <2>2. \A a \in Runs : Sound(a, act[a])
    BY <2>1, IdleSound
  <2>3. <<>> \in Seq(Checks) /\ <<>> \in Seq(Users)
    OBVIOUS
  <2> QED BY <2>1, <2>2, <2>3 DEF Init, TypeOK
<1>2. \A a \in Runs : act[a].pc = "idle"
  BY DEF Init, Idle
<1>3. OneOwner
  BY <1>2, NoneIsNone DEF Init, OneOwner, TokenOfUser, OnItsWay, At
<1>4. Accounted /\ AddsOnly
  BY <1>2, NoneIsNone DEF Accounted, AddsOnly, At
<1> QED BY <1>1, <1>3, <1>4 DEF IInv

LEMMA SubsetSteps ==
  /\ Checks \subseteq Nat /\ Seq(Checks) \subseteq Seq(Nat)
  /\ \A n \in Nat : n # 0 => n \in Checks
<1>1. Checks \subseteq Nat
  BY DEF Checks
<1>2. ASSUME NEW s \in Seq(Checks) PROVE s \in Seq(Nat)
  <2>1. Len(s) \in Nat /\ s \in [1..Len(s) -> Checks]
    OBVIOUS
  <2>2. s \in [1..Len(s) -> Nat]
    BY <1>1, <2>1
  <2> QED BY <2>1, <2>2, SeqDef
<1> QED BY <1>1, <1>2 DEF Checks

LEMMA TypeStep ==
  ASSUME TypeOK, [Next]_vars
  PROVE  TypeOK'
<1> USE NoneIsNone
<1>1. ASSUME NEW a \in Runs, ApiRequest(a) PROVE TypeOK'
  <2> DEFINE pc == IF session.tokens = None THEN "signed out" ELSE "sent"
             r == [act[a] EXCEPT !.pc = pc, !.token = session.tokens, !.retried = FALSE]
  <2>1. act[a].pc = "send" /\ session.tokens \in Token \cup {None}
    BY <1>1 DEF ApiRequest, At, TypeOK
  <2>2. pc \in Pcs \ {"idle", "enqueue", "write"} /\ (pc \in {"sent", "unauthorized"} => session.tokens # None)
    BY DEF Pcs
  <2>3. Sound(a, r)
    BY <2>1, <2>2, StepSound
  <2>4. act' = [act EXCEPT ![a] = r]
    BY <1>1 DEF ApiRequest
  <2>5. act' \in [Runs -> Run] /\ \A b \in Runs : Sound(b, act'[b])
    BY <2>3, <2>4, RunStep
  <2> QED BY <1>1, <2>5 DEF ApiRequest, TypeOK, server, login
<1>2. ASSUME NEW a \in Runs, Serve(a) PROVE TypeOK'
  <2>1. act[a].pc = "sent" /\ Sound(a, act[a]) /\ act[a].token \in Token /\ act[a].retried \in BOOLEAN
    BY <1>2 DEF Serve, At, TypeOK, Sound, Run
  <2>2. ASSUME NEW pc \in {"error", "unauthorized", "ok"}, Step(a, pc),
                 pc = "ok" => Item(a) # 0
        PROVE  act' \in [Runs -> Run] /\ \A b \in Runs : Sound(b, act'[b])
    <3> DEFINE r == [act[a] EXCEPT !.pc = pc, !.token = act[a].token, !.retried = act[a].retried]
    <3>1. pc \in Pcs \ {"idle", "enqueue", "write"}
      BY DEF Pcs
    <3>2. Sound(a, r)
      BY <2>1, <2>2, <3>1, StepSound
    <3>3. act' = [act EXCEPT ![a] = r]
      BY <2>1, <2>2 DEF Step, Sound, Run
    <3> QED BY <3>2, <3>3, RunStep
  <2>3. CASE /\ owner' = Append(owner, act[a].token.by)
             /\ act' = [act EXCEPT ![a].pc = "ok", ![a].keep = <<Len(owner')>>]
    <3> DEFINE r == [act[a] EXCEPT !.pc = "ok", !.keep = <<Len(owner')>>]
    <3>1. owner' \in Seq(Users) /\ Len(owner') \in Checks
      BY <2>1, <2>3 DEF Token, TypeOK, Checks
    <3>2. <<Len(owner')>> \in Seq(Checks) /\ <<Len(owner')>> # <<>>
      BY <3>1
    <3>3. Sound(a, r)
      BY <2>1, <3>2 DEF Sound, Run, Pcs
    <3>4. act' = [act EXCEPT ![a] = r]
      BY <2>3
    <3>5. act' \in [Runs -> Run] /\ \A b \in Runs : Sound(b, act'[b])
      BY <3>3, <3>4, RunStep
    <3> QED BY <1>2, <3>1, <3>5 DEF Serve, TypeOK, login
  <2>4. CASE owner' = owner /\ \E pc \in {"error", "unauthorized", "ok"} :
                                   Step(a, pc) /\ (pc = "ok" => Item(a) # 0)
    BY <1>2, <2>2, <2>4 DEF Serve, TypeOK, login
  <2> QED BY <1>2, <2>3, <2>4 DEF Serve
<1>3. ASSUME NEW a \in Runs, Refresh(a) PROVE TypeOK'
  <2>1. /\ act[a].pc = "unauthorized" /\ Sound(a, act[a]) /\ act[a].token \in Token
        /\ act[a].retried \in BOOLEAN
    BY <1>3 DEF Refresh, At, TypeOK, Sound, Run
  <2>2. CASE session' = [tokens |-> None, user |-> None] /\ Step(a, "signed out") /\ UNCHANGED tokens
    <3> DEFINE r == [act[a] EXCEPT !.pc = "signed out", !.token = act[a].token, !.retried = act[a].retried]
    <3>1. Sound(a, r)
      BY <2>1, StepSound DEF Pcs
    <3>2. act' = [act EXCEPT ![a] = r]
      BY <2>1, <2>2 DEF Step, Sound, Run
    <3>3. act' \in [Runs -> Run] /\ \A b \in Runs : Sound(b, act'[b])
      BY <3>1, <3>2, RunStep
    <3> QED BY <1>3, <2>2, <3>3 DEF Refresh, TypeOK, server
  <2>3. CASE /\ Issue(act[a].token.by)
             /\ session' = [session EXCEPT !.tokens = NewToken(act[a].token.by)]
             /\ act' = [act EXCEPT ![a].pc = "sent", ![a].retried = TRUE,
                          ![a].token = session'.tokens]
    <3> DEFINE t == NewToken(act[a].token.by)
               r == [act[a] EXCEPT !.pc = "sent", !.token = t, !.retried = TRUE]
    <3>1. t \in Token /\ tokens' \in Nat
      BY <2>1, <2>3 DEF NewToken, Token, Issue, TypeOK
    <3>2. /\ session' \in [tokens : Token \cup {None}, user : Users \cup {None}]
          /\ session'.tokens = t
      BY <2>3, <3>1 DEF TypeOK
    <3>3. Sound(a, r)
      BY <2>1, <3>1, StepSound DEF Pcs
    <3>4. act' = [act EXCEPT ![a] = r]
      BY <2>3, <3>2
    <3>5. act' \in [Runs -> Run] /\ \A b \in Runs : Sound(b, act'[b])
      BY <3>3, <3>4, RunStep
    <3> QED BY <1>3, <3>1, <3>2, <3>5 DEF Refresh, TypeOK, server
  <2> QED BY <1>3, <2>2, <2>3 DEF Refresh
<1>4. ASSUME NEW a \in Runs, WriteQueue(a) PROVE TypeOK'
  <2>1. act' = [act EXCEPT ![a] = Idle] /\ Sound(a, Idle)
    BY <1>4, IdleSound DEF WriteQueue
  <2>2. act' \in [Runs -> Run] /\ \A b \in Runs : Sound(b, act'[b])
    BY <2>1, RunStep
  <2>3. queue' \in Seq(Checks)
    BY <1>4 DEF WriteQueue, TypeOK, Run
  <2> QED BY <1>4, <2>2, <2>3 DEF WriteQueue, TypeOK, server, login
<1>5. ASSUME NEW a \in Runs, LoseRequest(a) PROVE TypeOK'
  <2>1. /\ act[a].pc \in {"sent", "ok", "error", "unauthorized"} /\ Sound(a, act[a])
        /\ act[a].token \in Token \cup {None} /\ act[a].retried \in BOOLEAN
    BY <1>5 DEF LoseRequest, At, TypeOK, Sound, Run
  <2> DEFINE r == [act[a] EXCEPT !.pc = "network", !.token = act[a].token, !.retried = act[a].retried]
  <2>2. Sound(a, r)
    BY <2>1, StepSound DEF Pcs
  <2>3. act' = [act EXCEPT ![a] = r]
    BY <1>5, <2>1 DEF LoseRequest, Step, Sound, Run
  <2>4. act' \in [Runs -> Run] /\ \A b \in Runs : Sound(b, act'[b])
    BY <2>2, <2>3, RunStep
  <2> QED BY <1>5, <2>4 DEF LoseRequest, TypeOK, server, login
<1>6. ASSUME NEW f \in Flushes, StartFlush(f) PROVE TypeOK'
  <2> DEFINE r == [Idle EXCEPT !.pc = "send", !.todo = queue]
  <2>1. Sound(f, r)
    BY <1>6, IdleSound, SubsetSteps DEF StartFlush, Idle, Sound, Run, Pcs, TypeOK
  <2>2. act' = [act EXCEPT ![f] = r]
    BY <1>6 DEF StartFlush
  <2>3. act' \in [Runs -> Run] /\ \A b \in Runs : Sound(b, act'[b])
    BY <2>1, <2>2, RunStep
  <2> QED BY <1>6, <2>3 DEF StartFlush, TypeOK, server, login
<1>7. ASSUME NEW f \in Flushes, FlushItem(f) PROVE TypeOK'
  <2>1. Sound(f, act[f]) /\ act[f].pc \in {"ok", "error", "signed out", "network"} /\ act[f].todo # <<>>
    BY <1>7 DEF FlushItem, Outcome, Answered, At, TypeOK, Sound
  <2>2. /\ Item(f) \in Checks /\ Tail(act[f].todo) \in Seq(Checks)
        /\ Len(act[f].todo) = 1 <=> Tail(act[f].todo) = <<>>
    BY <2>1, HeadAndTail DEF Sound, Item
  <2>3. act[f].keep \in Seq(Checks) /\ Append(act[f].keep, Item(f)) \in Seq(Checks)
    BY <2>1, <2>2, AppendSet DEF Sound, Run
  <2> DEFINE r == [act[f] EXCEPT !.todo = Tail(act[f].todo),
                     !.keep = IF At(f, "network") THEN Append(act[f].keep, Item(f)) ELSE act[f].keep,
                     !.pc = IF Len(act[f].todo) = 1 THEN "write" ELSE "send"]
  <2>4. Sound(f, r)
    BY <2>1, <2>2, <2>3, SubsetSteps DEF Sound, Run, Pcs
  <2>5. act' = [act EXCEPT ![f] = r]
    BY <1>7 DEF FlushItem
  <2>6. act' \in [Runs -> Run] /\ \A b \in Runs : Sound(b, act'[b])
    BY <2>4, <2>5, RunStep
  <2> QED BY <1>7, <2>6 DEF FlushItem, TypeOK, server, login
<1>8. CASE PerformCheck
  <2>1. /\ Sound(Check, act[Check]) /\ act[Check].pc \in {"ok", "error", "signed out", "network"}
        /\ act[Check].todo # <<>>
    BY <1>8 DEF PerformCheck, Outcome, Answered, At, TypeOK, Sound
  <2>2. ASSUME NEW r, Sound(Check, r), act' = [act EXCEPT ![Check] = r] PROVE TypeOK'
    <3>1. act' \in [Runs -> Run] /\ \A b \in Runs : Sound(b, act'[b])
      BY <2>2, RunStep
    <3> QED BY <1>8, <3>1 DEF PerformCheck, TypeOK, server, login
  <2>3. CASE act' = [act EXCEPT ![Check] = [Idle EXCEPT !.pc = "send", !.todo = act[Check].keep]]
             /\ Item(Check) = 0 /\ At(Check, "ok")
    <3> DEFINE r == [Idle EXCEPT !.pc = "send", !.todo = act[Check].keep]
    <3>1. act[Check].keep \in Seq(Checks) /\ act[Check].keep # <<>>
      BY <2>1, <2>3 DEF Sound, Run, Item, At
    <3>2. Sound(Check, r)
      BY <3>1, IdleSound, SubsetSteps DEF Idle, Sound, Run, Pcs
    <3> QED BY <2>2, <2>3, <3>2
  <2>4. CASE act' = [act EXCEPT ![Check] = Idle]
    BY <2>2, <2>4, IdleSound
  <2>5. CASE Item(Check) # 0 /\ At(Check, "network") /\ Step(Check, "enqueue")
    <3> DEFINE r == [act[Check] EXCEPT !.pc = "enqueue"]
    <3>1. Sound(Check, r)
      BY <2>1, <2>5 DEF Sound, Run, Pcs, Item
    <3>2. act' = [act EXCEPT ![Check] = r]
      BY <2>5 DEF Step
    <3> QED BY <2>2, <3>1, <3>2
  <2> QED BY <1>8, <2>3, <2>4, <2>5 DEF PerformCheck
<1>9. CASE EnqueueCheck
  <2>1. Sound(Check, act[Check]) /\ act[Check].pc = "enqueue" /\ act[Check].todo # <<>>
    BY <1>9 DEF EnqueueCheck, At, TypeOK, Sound
  <2>2. Item(Check) \in Checks
    BY <2>1, HeadAndTail, SubsetSteps DEF Sound, Run, Item
  <2>3. Append(queue, Item(Check)) \in Seq(Checks)
    BY <2>2, AppendSet DEF TypeOK
  <2> DEFINE r == [act[Check] EXCEPT !.pc = "write", !.keep = Append(queue, Item(Check))]
  <2>4. Sound(Check, r)
    BY <2>1, <2>3 DEF Sound, Run, Pcs
  <2>5. act' = [act EXCEPT ![Check] = r]
    BY <1>9 DEF EnqueueCheck
  <2>6. act' \in [Runs -> Run] /\ \A b \in Runs : Sound(b, act'[b])
    BY <2>4, <2>5, RunStep
  <2> QED BY <1>9, <2>6 DEF EnqueueCheck, TypeOK, server, login
<1>10. CASE StartCheck
  <2> DEFINE r == [Idle EXCEPT !.pc = "send", !.todo = <<0>>]
  <2>1. <<0>> \in Seq(Nat) /\ <<0>> # <<>>
    OBVIOUS
  <2>2. Sound(Check, r)
    BY <2>1, IdleSound DEF Idle, Sound, Run, Pcs
  <2>3. act' = [act EXCEPT ![Check] = r]
    BY <1>10 DEF StartCheck
  <2>4. act' \in [Runs -> Run] /\ \A b \in Runs : Sound(b, act'[b])
    BY <2>2, <2>3, RunStep
  <2> QED BY <1>10, <2>4 DEF StartCheck, TypeOK, server, login
<1>11. CASE Restart
  <2>1. act' \in [Runs -> Run] /\ \A b \in Runs : act'[b] = Idle
    BY <1>11, IdleSound DEF Restart, Sound
  <2>2. \A b \in Runs : Sound(b, act'[b])
    BY <2>1, IdleSound
  <2> QED BY <1>11, <2>1, <2>2 DEF Restart, TypeOK, server
<1>12. ASSUME NEW u \in Users, Login(u) PROVE TypeOK'
  <2>1. NewToken(u) \in Token /\ tokens' \in Nat
    BY <1>12 DEF Login, NewToken, Token, Issue, TypeOK
  <2>2. session' \in [tokens : Token \cup {None}, user : Users \cup {None}]
    BY <1>12, <2>1 DEF Login, TypeOK
  <2> QED BY <1>12, <2>1, <2>2 DEF Login, TypeOK, server
<1>13. CASE LoginUser \/ Logout
  BY <1>13 DEF LoginUser, Logout, ClearSession, TypeOK, server
<1>14. CASE ResolveEntryRoute \/ Done \/ Expire \/ UNCHANGED vars
  BY <1>14 DEF ResolveEntryRoute, Done, Expire, vars, TypeOK, server, login
<1> QED
  BY <1>1, <1>2, <1>3, <1>4, <1>5, <1>6, <1>7, <1>8, <1>9, <1>10, <1>11, <1>12, <1>13, <1>14
  DEF Next, Advance

-----------------------------------------------------------------------------
(* Whose tokens                                                            *)

LEMMA OwnerStep ==
  ASSUME TypeOK, TypeOK', OneOwner, [Next]_vars
  PROVE  OneOwner'
<1> SUFFICES ASSUME ~crossed' PROVE OneOwner'
  BY DEF OneOwner
<1> USE NoneIsNone
<1>0. ASSUME ~crossed
      PROVE  /\ \A a \in Runs : OnItsWay(a) =>
                  session.tokens # None /\ act[a].token.by = session.tokens.by
             /\ entering # None /\ session.tokens # None => session.tokens.by = entering
             /\ session.tokens # None /\ entering = None => session.tokens.by = session.user
  BY <1>0 DEF OneOwner, TokenOfUser
<1>1. ASSUME UNCHANGED <<session, entering, crossed>>,
             \A a \in Runs : OnItsWay(a)' => \/ OnItsWay(a) /\ act'[a].token = act[a].token
                                             \/ act'[a].token = session.tokens
      PROVE  OneOwner'
  <2>1. \A a \in Runs : OnItsWay(a)' => act'[a].token # None
    BY DEF TypeOK, Sound, OnItsWay, At
  <2> QED BY <1>0, <1>1, <2>1 DEF OneOwner, TokenOfUser
<1>2. ASSUME NEW a \in Runs, ApiRequest(a) \/ Serve(a) \/ LoseRequest(a) \/ WriteQueue(a)
      PROVE  OneOwner'
  <2>1. UNCHANGED <<session, entering, crossed>>
    BY <1>2 DEF ApiRequest, Serve, LoseRequest, WriteQueue, login
  <2>2. ASSUME NEW b \in Runs, OnItsWay(b)'
        PROVE  \/ OnItsWay(b) /\ act'[b].token = act[b].token
               \/ act'[b].token = session.tokens
    <3>1. CASE b # a
      BY <1>2, <2>2, <3>1 DEF ApiRequest, Serve, LoseRequest, WriteQueue, Step, OnItsWay, At, TypeOK
    <3>2. CASE b = a /\ ApiRequest(a)
      BY <2>2, <3>2 DEF ApiRequest, TypeOK, Run
    <3>3. CASE b = a /\ Serve(a)
      BY <2>2, <3>3 DEF Serve, Step, OnItsWay, At, TypeOK, Run
    <3>4. CASE b = a /\ (LoseRequest(a) \/ WriteQueue(a))
      BY <2>2, <3>4 DEF LoseRequest, WriteQueue, Step, OnItsWay, At, TypeOK, Run, Idle
    <3> QED BY <1>2, <3>1, <3>2, <3>3, <3>4
  <2> QED BY <1>1, <2>1, <2>2
<1>3. ASSUME NEW a \in Runs, Refresh(a) PROVE OneOwner'
  <2>1. OnItsWay(a) /\ act[a].token \in Token
    BY <1>3 DEF Refresh, OnItsWay, At, TypeOK, Sound, Run
  <2>2. CASE UNCHANGED crossed /\ session' = [session EXCEPT !.tokens = NewToken(act[a].token.by)]
             /\ act' = [act EXCEPT ![a].pc = "sent", ![a].retried = TRUE, ![a].token = session'.tokens]
    <3>1. /\ session'.tokens = NewToken(act[a].token.by) /\ session'.user = session.user
          /\ session'.tokens.by = act[a].token.by /\ entering' = entering
      BY <1>3, <2>2 DEF Refresh, TypeOK, NewToken
    <3>2. session.tokens # None /\ session'.tokens.by = session.tokens.by
      BY <1>0, <2>1, <2>2, <3>1
    <3>3. \A b \in Runs : OnItsWay(b)' => \/ OnItsWay(b) /\ act'[b].token = act[b].token
                                          \/ act'[b].token = session'.tokens
      BY <2>2 DEF OnItsWay, At, TypeOK, Run
    <3>4. session'.tokens # None
      BY <2>1, <3>1 DEF NewToken, Token, TypeOK
    <3> QED BY <1>0, <2>2, <3>1, <3>2, <3>3, <3>4 DEF OneOwner, TokenOfUser
  <2>3. CASE /\ session' = [tokens |-> None, user |-> None] /\ Step(a, "signed out")
             /\ crossed' = (crossed \/ \E b \in Runs \ {a} : OnItsWay(b))
    <3>1. \A b \in Runs : ~OnItsWay(b)'
      BY <2>3 DEF Step, OnItsWay, At, TypeOK, Run
    <3> QED BY <2>3, <3>1 DEF OneOwner, TokenOfUser
  <2> QED BY <1>3, <2>2, <2>3 DEF Refresh
<1>4. ASSUME NEW f \in Flushes, StartFlush(f) \/ FlushItem(f) PROVE OneOwner'
  <2>1. UNCHANGED <<session, entering, crossed>>
    BY <1>4 DEF StartFlush, FlushItem, login
  <2>2. \A b \in Runs : OnItsWay(b)' => OnItsWay(b) /\ act'[b].token = act[b].token
    <3>1. CASE StartFlush(f)
      BY <3>1 DEF StartFlush, OnItsWay, At, TypeOK, Run, Idle
    <3>2. CASE FlushItem(f)
      BY <3>2 DEF FlushItem, OnItsWay, At, TypeOK, Run
    <3> QED BY <1>4, <3>1, <3>2
  <2> QED BY <1>1, <2>1, <2>2
<1>5. CASE PerformCheck \/ EnqueueCheck \/ StartCheck
  <2>1. UNCHANGED <<session, entering, crossed>>
    BY <1>5 DEF PerformCheck, EnqueueCheck, StartCheck, login
  <2>2. \A b \in Runs : OnItsWay(b)' => OnItsWay(b) /\ act'[b].token = act[b].token
    BY <1>5, CheckMoves DEF OnItsWay, At
  <2> QED BY <1>1, <2>1, <2>2
<1>6. CASE Restart
  <2>1. \A b \in Runs : ~OnItsWay(b)'
    BY <1>6 DEF Restart, OnItsWay, At, Idle
  <2> QED BY <1>0, <1>6, <2>1 DEF Restart, OneOwner, TokenOfUser
<1>7. ASSUME NEW u \in Users, Login(u) PROVE OneOwner'
  <2>1. session'.tokens.by = u /\ entering' = u
    BY <1>7 DEF Login, NewToken, TypeOK
  <2>2. \A b \in Runs : ~OnItsWay(b)'
    BY <1>7 DEF Login, OnItsWay, At
  <2> QED BY <2>1, <2>2 DEF OneOwner, TokenOfUser
<1>8. CASE LoginUser
  <2>1. session'.tokens = session.tokens /\ session'.user = entering
    BY <1>8 DEF LoginUser, TypeOK
  <2>2. \A b \in Runs : OnItsWay(b)' => OnItsWay(b) /\ act'[b].token = act[b].token
    BY <1>8 DEF LoginUser, OnItsWay, At
  <2> QED BY <1>0, <1>8, <2>1, <2>2 DEF LoginUser, OneOwner, TokenOfUser
<1>9. CASE Logout
  <2>1. \A b \in Runs : ~OnItsWay(b)'
    BY <1>9 DEF Logout, ClearSession, OnItsWay, At
  <2> QED BY <1>9, <2>1 DEF Logout, ClearSession, OneOwner, TokenOfUser
<1>10. CASE ResolveEntryRoute \/ Done \/ Expire \/ UNCHANGED vars
  <2>1. UNCHANGED <<session, entering, crossed, act>>
    BY <1>10 DEF ResolveEntryRoute, Done, Expire, vars, login
  <2> QED BY <1>1, <2>1 DEF OnItsWay, At
<1> QED
  BY <1>2, <1>3, <1>4, <1>5, <1>6, <1>7, <1>8, <1>9, <1>10 DEF Next, Advance

-----------------------------------------------------------------------------
(* What is on a list                                                       *)

\* Steps that leave the lists alone: a run goes on with those it has, and none is
\* on a list that it was not on.
SameLists ==
  /\ UNCHANGED <<queue, behind, answered, signedOut>>
  /\ \A a \in Runs : act'[a].pc # "idle" =>
       act[a].pc # "idle" /\ act'[a].todo = act[a].todo /\ act'[a].keep = act[a].keep
  /\ At(Check, "write")' => At(Check, "write")

LEMMA ListsStay ==
  ASSUME TypeOK, Accounted, AddsOnly, SameLists
  PROVE  Accounted' /\ AddsOnly'
BY NoneIsNone DEF SameLists, Accounted, AddsOnly, At, Queued

LEMMA ListStep ==
  ASSUME TypeOK, TypeOK', Accounted, AddsOnly, [Next]_vars
  PROVE  Accounted' /\ AddsOnly'
<1> USE NoneIsNone
<1>1. ASSUME NEW a \in Runs, ApiRequest(a) \/ Refresh(a) \/ LoseRequest(a) PROVE SameLists
  <2>1. UNCHANGED <<queue, behind, answered, signedOut>>
    BY <1>1 DEF ApiRequest, Refresh, LoseRequest, ended
  <2>2. \A b \in Runs : b # a => act'[b] = act[b]
    BY <1>1 DEF ApiRequest, Refresh, LoseRequest, Step, TypeOK
  <2>3. /\ act'[a].todo = act[a].todo /\ act'[a].keep = act[a].keep
        /\ act[a].pc # "idle" /\ act'[a].pc # "write"
    <3>1. CASE ApiRequest(a)
      BY <3>1 DEF ApiRequest, At, TypeOK, Run
    <3>2. CASE Refresh(a)
      <4>1. act[a] \in Run /\ act[a].pc = "unauthorized" /\ a \in DOMAIN act
        BY <3>2 DEF Refresh, At, TypeOK
      <4>2. PICK t, b, pc : pc \in {"sent", "signed out"} /\
              act' = [act EXCEPT ![a] = [act[a] EXCEPT !.pc = pc, !.retried = b, !.token = t]]
        <5>1. CASE Step(a, "signed out")
          <6>1. act' = [act EXCEPT ![a] = [act[a] EXCEPT !.pc = "signed out",
                          !.retried = act[a].retried, !.token = act[a].token]]
            BY <4>1, <5>1 DEF Step, Run
          <6> QED BY <6>1
        <5>2. CASE act' = [act EXCEPT ![a].pc = "sent", ![a].retried = TRUE,
                             ![a].token = session'.tokens]
          BY <5>2
        <5> QED BY <3>2, <5>1, <5>2 DEF Refresh
      <4>3. act'[a] = [act[a] EXCEPT !.pc = pc, !.retried = b, !.token = t]
        BY <4>1, <4>2
      <4>4. act'[a].pc = pc /\ act'[a].todo = act[a].todo /\ act'[a].keep = act[a].keep
        BY <4>1, <4>3 DEF Run
      <4> QED BY <4>1, <4>2, <4>4
    <3>3. CASE LoseRequest(a)
      BY <3>3 DEF LoseRequest, Step, At, TypeOK, Run
    <3> QED BY <1>1, <3>1, <3>2, <3>3
  <2> QED BY <2>1, <2>2, <2>3 DEF SameLists, At
<1>2. ASSUME NEW a \in Runs, Serve(a) PROVE Accounted' /\ AddsOnly'
  <2>1. UNCHANGED <<queue, behind, answered, signedOut>>
    BY <1>2 DEF Serve, ended
  <2>2. \A b \in Runs : b # a => act'[b] = act[b]
    BY <1>2 DEF Serve, Step, TypeOK
  <2>3. act[a].pc # "idle" /\ act'[a].pc # "write" /\ act'[a].todo = act[a].todo
    BY <1>2 DEF Serve, Step, At, TypeOK, Run
  <2>4. a \in Flushes => act'[a].keep = act[a].keep
    <3>1. a \in Flushes => Item(a) # 0
      <4>1. Sound(a, act[a]) /\ act[a].pc = "sent"
        BY <1>2 DEF TypeOK, Serve, At
      <4>2. a \in Flushes => act[a].todo \in Seq(Checks) /\ act[a].todo # <<>>
        BY <4>1 DEF Sound
      <4> QED BY <4>2, HeadAndTail DEF Item, Checks
    <3> QED BY <1>2, <3>1 DEF Serve, Step, At, TypeOK, Run
  <2>5. Accounted'
    BY <2>1, <2>2, <2>3, <2>4 DEF Accounted, At, Queued
  <2>6. AddsOnly'
    BY <2>1, <2>2, <2>3 DEF AddsOnly, At, Queued
  <2> QED BY <2>5, <2>6
<1>3. ASSUME NEW a \in Runs, WriteQueue(a) PROVE Accounted' /\ AddsOnly'
  <2>1. act'[a].pc = "idle" /\ \A b \in Runs : b # a => act'[b] = act[b]
    BY <1>3 DEF WriteQueue, TypeOK, Idle
  <2>2. CASE queue' = queue
    <3>1. UNCHANGED <<queue, behind, answered, signedOut>>
      BY <1>3, <2>2 DEF WriteQueue, Behind, ended
    <3> QED BY <2>1, <3>1, ListsStay DEF SameLists, At
  <2>3. CASE queue' # queue
    <3>1. \A b \in Runs : act[b].pc # "idle" => b \in behind'
      BY <1>3, <2>3 DEF WriteQueue, Behind, At
    <3> QED BY <2>1, <3>1 DEF Accounted, AddsOnly, At
  <2> QED BY <2>2, <2>3
<1>4. ASSUME NEW f \in Flushes, StartFlush(f) PROVE Accounted' /\ AddsOnly'
  <2>1. /\ act'[f].todo = queue /\ act'[f].pc = "send"
        /\ \A b \in Runs : b # f => act'[b] = act[b] /\ (b \in behind' <=> b \in behind)
        /\ queue' = queue /\ answered' = answered /\ signedOut' = signedOut
    BY <1>4 DEF StartFlush, TypeOK, Idle, ended
  <2> QED BY <2>1 DEF Accounted, AddsOnly, At, Queued
<1>5. ASSUME NEW f \in Flushes, FlushItem(f) PROVE Accounted' /\ AddsOnly'
  <2>1. Sound(f, act[f]) /\ act[f].pc \in {"ok", "error", "signed out", "network"} /\ act[f].todo # <<>>
    BY <1>5 DEF FlushItem, Outcome, Answered, At, TypeOK, Sound
  <2>2. Item(f) \in Checks /\ ToSet(act[f].todo) = {Item(f)} \cup ToSet(Tail(act[f].todo))
    BY <2>1, HeadAndTail DEF Sound, Item
  <2>3. ToSet(Append(act[f].keep, Item(f))) = ToSet(act[f].keep) \cup {Item(f)}
    <3>1. act[f].keep \in Seq(Checks)
      BY <2>1 DEF Sound, Run
    <3> QED BY <2>2, <3>1, AppendSet
  <2>4. /\ act'[f].todo = Tail(act[f].todo)
        /\ act'[f].keep = IF At(f, "network") THEN Append(act[f].keep, Item(f)) ELSE act[f].keep
        /\ answered' = IF Answered(f) THEN answered \cup {Item(f)} ELSE answered
        /\ signedOut' = IF At(f, "signed out") THEN signedOut \cup {Item(f)} ELSE signedOut
        /\ Answered(f) \/ At(f, "signed out") \/ At(f, "network")
    BY <1>5 DEF FlushItem, Remember, Outcome, TypeOK, Run
  <2>5. \A c \in Checks :
          c \in ToSet(act[f].todo) \cup ToSet(act[f].keep) \cup answered \cup signedOut =>
          c \in ToSet(act'[f].todo) \cup ToSet(act'[f].keep) \cup answered' \cup signedOut'
    BY <2>2, <2>3, <2>4
  <2>6. /\ \A b \in Runs : b # f => act'[b] = act[b]
        /\ queue' = queue /\ behind' = behind /\ ~At(f, "idle")
        /\ answered \subseteq answered' /\ signedOut \subseteq signedOut'
    BY <1>5, <2>1, <2>4 DEF FlushItem, TypeOK, At
  <2>7. Accounted'
    BY <2>5, <2>6 DEF Accounted, At, Queued
  <2>8. AddsOnly'
    BY <2>6 DEF AddsOnly, At, Queued
  <2> QED BY <2>7, <2>8
<1>6. CASE EnqueueCheck
  <2>1. Sound(Check, act[Check]) /\ act[Check].pc = "enqueue" /\ act[Check].todo # <<>>
    BY <1>6 DEF EnqueueCheck, At, TypeOK, Sound
  <2>2. Item(Check) \in Checks
    BY <2>1, HeadAndTail, SubsetSteps DEF Sound, Run, Item
  <2>3. ToSet(Append(queue, Item(Check))) = ToSet(queue) \cup {Item(Check)}
    BY <2>2, AppendSet DEF TypeOK
  <2>4. /\ act'[Check].keep = Append(queue, Item(Check)) /\ queue' = queue /\ answered' = answered /\ signedOut' = signedOut
        /\ \A b \in Runs : b # Check => act'[b] = act[b] /\ (b \in behind' <=> b \in behind)
    BY <1>6 DEF EnqueueCheck, TypeOK, Run, ended
  <2> QED BY <2>3, <2>4 DEF Accounted, AddsOnly, At, Queued
<1>7. CASE PerformCheck \/ StartCheck
  <2>1. UNCHANGED <<queue, behind, answered, signedOut>>
    BY <1>7 DEF PerformCheck, StartCheck, ended
  <2>2. \A b \in Runs : b # Check => act'[b] = act[b]
    BY <1>7 DEF PerformCheck, StartCheck, Step, TypeOK
  <2>3. act'[Check].pc # "write"
    <3>1. ~EnqueueCheck
      BY <1>7 DEF PerformCheck, StartCheck, EnqueueCheck, Outcome, Answered, At
    <3> QED BY <1>7, <3>1, CheckMoves
  <2> QED BY <2>1, <2>2, <2>3 DEF Accounted, AddsOnly, At, Queued
<1>8. CASE Restart
  <2>1. \A b \in Runs : act'[b].pc = "idle"
    BY <1>8 DEF Restart, Idle
  <2> QED BY <2>1 DEF Accounted, AddsOnly, At
<1>9. CASE \/ LoginUser \/ \E u \in Users : Login(u)
           \/ ResolveEntryRoute \/ Logout \/ Done \/ Expire \/ UNCHANGED vars
  <2>1. UNCHANGED <<queue, behind, answered, signedOut, act>>
    BY <1>9 DEF LoginUser, Login, ResolveEntryRoute, Logout, Done, Expire, vars, ended
  <2> QED BY <2>1, ListsStay DEF SameLists, At
<1> QED
  BY <1>1, <1>2, <1>3, <1>4, <1>5, <1>6, <1>7, <1>8, <1>9, ListsStay DEF Next, Advance

-----------------------------------------------------------------------------
(* Theorems                                                                *)

\* The types, whose the tokens and the requests on their way are, and what the
\* runs have accounted for, in every reachable state.
THEOREM Invariance == Spec => []IInv
<1>1. IInv /\ [Next]_vars => IInv'
  BY TypeStep, OwnerStep, ListStep DEF IInv
<1> QED BY <1>1, InitInv, PTL DEF Spec

\* Requests go out as the user whom the app shows, whoever logs in, however
\* often tokens expire, and however many flushes are under way (apiRequest).
THEOREM TokensAreTheUsers == Spec => []TokenOfUser
<1>1. IInv => TokenOfUser
  BY DEF IInv, OneOwner, TokenOfUser
<1> QED BY <1>1, Invariance, PTL

\* A queued check leaves the list when it was answered, when a flush found no session
\* to send it in, or by a run that writes back an older list (flushQueue, enqueueCheck).
THEOREM QueuedChecksAreKept == Spec => KeptUnlessAnswered
<1>1. IInv /\ IInv' /\ [Next]_vars =>
        [\A c \in 1..MaxChecks : Gone(c) =>
           \/ c \in answered \cup signedOut
           \/ \E a \in behind : At(a, "write") /\ ~At(a, "write")']_vars
  <2> SUFFICES ASSUME IInv, IInv', [Next]_vars, NEW c \in 1..MaxChecks, Gone(c)
               PROVE  \/ c \in answered \cup signedOut
                      \/ \E a \in behind : At(a, "write") /\ ~At(a, "write")'
    OBVIOUS
  <2>1. PICK a \in Runs : WriteQueue(a)
    <3>1. queue' # queue
      BY DEF Gone, Queued
    <3> QED BY <3>1 DEF Next, Advance, ApiRequest, Serve, Refresh, LoseRequest, LoginUser, Login,
              StartFlush, FlushItem, PerformCheck, EnqueueCheck, StartCheck, Done,
              ResolveEntryRoute, Logout, Expire, Restart, vars
  <2>2. At(a, "write") /\ ~At(a, "write")' /\ queue' = act[a].keep
    BY <2>1 DEF WriteQueue, At, IInv, TypeOK, Idle
  <2>3. ASSUME a \notin behind PROVE c \in answered \cup signedOut
    <3>1. c \in Checks /\ c \in ToSet(queue) /\ c \notin ToSet(act[a].keep)
      BY <2>2 DEF Gone, Queued, Checks
    <3>2. CASE a = Check
      BY <2>2, <2>3, <3>1, <3>2 DEF IInv, AddsOnly, Queued
    <3>3. CASE a \in Flushes
      <4>1. Sound(a, act[a]) /\ act[a].pc = "write"
        BY <2>2 DEF IInv, TypeOK, At
      <4>2. ToSet(act[a].todo) = {}
        BY <3>3, <4>1 DEF Sound, ToSet
      <4> QED BY <2>2, <2>3, <3>1, <3>3, <4>2 DEF IInv, Accounted, Queued, At
    <3> QED BY <3>2, <3>3, NoneIsNone
  <2> QED BY <2>2, <2>3
<1> QED BY <1>1, Invariance, PTL DEF Spec, KeptUnlessAnswered
=============================================================================
