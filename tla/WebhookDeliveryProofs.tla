------------------------ MODULE WebhookDeliveryProofs ------------------------
(***************************************************************************)
(* Theorems about WebhookDelivery, for every value of its constants: its   *)
(* types, and what it guarantees always and when webhook calls are         *)
(* processed one at a time.                                                *)
(***************************************************************************)
EXTENDS WebhookDelivery, TLAPS

PostType ==
  [pc : {"idle", "next", "update"}, events : Seq(Event), left : 0..MaxEvents,
   time : Time, patch : PatchType \cup {None}]

\* A post about to write has its patch, and one at an event may still handle it.
Shaped(q) ==
  q.pc = "update" => q.patch \in PatchType /\ q.events # <<>> /\ q.left > 0
PostShape == \A p \in Posts : Shaped(post[p])

\* A send under way has its number.
SenderShape == sender.pc # "idle" => budget.sends \in Ids

TypeInv == TypeOK /\ PostShape /\ SenderShape

\* The idle post is well typed.
LEMMA IdleType == IdlePost \in PostType
  BY LimitsAssumption, BoundsAssumption DEF IdlePost, PostType, Time

\* A modelled status of Meta names a stage other than PENDING.
LEMMA MapType == \A raw \in DOMAIN WebhookStatusMap : WebhookStatusMap[raw] \in Columns
  BY DEF WebhookStatusMap, Columns

\* Moving on to the next event keeps a post well typed.
LEMMA NextEventType ==
  ASSUME TypeOK, NEW p \in Posts, post[p].events # <<>>, post[p].left > 0
  PROVE  NextEvent(p) \in PostType /\ NextEvent(p).pc = "next"
  <1>1. post[p] \in PostType  BY DEF TypeOK, PostType
  <1>2. Tail(post[p].events) \in Seq(Event)  BY <1>1 DEF PostType
  <1>3. post[p].left - 1 \in 0..MaxEvents  BY <1>1, LimitsAssumption DEF PostType
  <1>. QED  BY <1>1, <1>2, <1>3 DEF NextEvent, PostType

\* Replacing one post by a well-typed one keeps all of them well typed.
LEMMA PostUpdate ==
  ASSUME TypeInv, NEW p \in Posts, NEW q \in PostType, post' = [post EXCEPT ![p] = q], Shaped(q)
  PROVE  post' \in [Posts -> PostType] /\ PostShape'
  BY DEF TypeInv, TypeOK, PostType, PostShape

\* A behaviour starts well typed.
LEMMA TypeInit == Init => TypeInv
  <1>. SUFFICES ASSUME Init PROVE TypeInv  OBVIOUS
  <1>1. post \in [Posts -> PostType] /\ PostShape
    BY IdleType DEF Init, PostShape, Shaped, IdlePost
  <1>2. NoTimes \in [Columns -> Time \cup {None}]  BY DEF NoTimes, Columns
  <1>3. [NoTimes EXCEPT !["SENT"] = 0] \in [Columns -> Time \cup {None}]
    BY <1>2, BoundsAssumption DEF Time, Columns
  <1>4. /\ row \in [status : DeliveryStatus \cup {"LEGACY"}, id : Ids \cup {None},
                   at : [Columns -> Time \cup {None}]]
        /\ history \in [base : DeliveryStatus \cup {"LEGACY"}, reports : SUBSET Columns]
    <2>1. CASE row.status = "PENDING"
      BY <1>2, <2>1 DEF Init, DeliveryStatus
    <2>2. CASE row.status # "PENDING"
      BY <1>2, <1>3, <2>2, BoundsAssumption DEF Init, DeliveryStatus, Ids
    <2>. QED  BY <2>1, <2>2
  <1>5. /\ sender \in [pc : {"idle", "sending", "accepted"}, ids : SUBSET Ids, retrying : BOOLEAN]
        /\ sender.pc = "idle"
    <2>1. MaxSends > 0 => {1} \subseteq Ids  BY BoundsAssumption DEF Ids
    <2>2. \/ sender = [pc |-> "idle", ids |-> {}, retrying |-> FALSE]
          \/ MaxSends > 0 /\ sender = [pc |-> "idle", ids |-> {1}, retrying |-> FALSE]
      BY DEF Init
    <2>3. CASE sender = [pc |-> "idle", ids |-> {}, retrying |-> FALSE]  BY <2>3
    <2>4. CASE MaxSends > 0 /\ sender = [pc |-> "idle", ids |-> {1}, retrying |-> FALSE]
      BY <2>1, <2>4
    <2>. QED  BY <2>2, <2>3, <2>4
  <1>6. budget \in [sends : 0..MaxSends, posts : 0..MaxPosts, retries : 0..MaxRetries,
                    faults : 0..MaxFaults, crashes : 0..MaxCrashes]
    BY BoundsAssumption DEF Init
  <1>. QED  BY <1>1, <1>4, <1>5, <1>6 DEF TypeInv, TypeOK, PostType, SenderShape

\* A step of the sender keeps the types.
LEMMA TypeSender ==
  ASSUME TypeInv, SendStart \/ MetaAccepts \/ RecordSent \/ RecordUnsent \/ RecordLost
  PROVE  TypeInv'
  <1>t. TypeOK /\ PostShape /\ SenderShape  BY DEF TypeInv
  <1>1. CASE SendStart
    <2>1. budget.sends + 1 \in 0..MaxSends /\ budget.sends + 1 \in Ids
      BY <1>t, <1>1, BoundsAssumption DEF SendStart, TypeOK, Ids
    <2>. QED  BY <1>t, <1>1, <2>1 DEF SendStart, TypeInv, TypeOK, PostShape, SenderShape
  <1>2. CASE MetaAccepts
    BY <1>t, <1>2 DEF MetaAccepts, TypeInv, TypeOK, PostShape, SenderShape
  <1>3. ASSUME NEW status \in DeliveryStatus, NEW id \in Ids \cup {None},
               NEW at \in [Columns -> Time \cup {None}], WriteRow(status, id, at)
        PROVE  TypeInv'
    BY <1>t, <1>3 DEF WriteRow, TypeInv, TypeOK, PostShape, SenderShape
  <1>4. CASE RecordSent
    <2>1. budget.sends \in Ids \cup {None}  BY <1>t, <1>4 DEF RecordSent, SenderShape
    <2>2. [row.at EXCEPT !["SENT"] = 0] \in [Columns -> Time \cup {None}]
      BY <1>t, BoundsAssumption DEF TypeOK, Time, Columns
    <2>. QED  BY <1>3, <1>4, <2>1, <2>2 DEF RecordSent, DeliveryStatus
  <1>5. CASE RecordUnsent
    <2>1. row.id \in Ids \cup {None} /\ row.at \in [Columns -> Time \cup {None}]
      BY <1>t DEF TypeOK
    <2>. QED  BY <1>3, <1>5, <2>1 DEF RecordUnsent, DeliveryStatus
  <1>6. CASE RecordLost
    <2>1. budget' = [budget EXCEPT !.faults = @ + 1] /\ budget.faults < MaxFaults
      BY <1>6 DEF RecordLost
    <2>2. budget \in [sends : 0..MaxSends, posts : 0..MaxPosts, retries : 0..MaxRetries,
                      faults : 0..MaxFaults, crashes : 0..MaxCrashes]
      BY <1>t DEF TypeOK
    <2>3. budget' \in [sends : 0..MaxSends, posts : 0..MaxPosts, retries : 0..MaxRetries,
                       faults : 0..MaxFaults, crashes : 0..MaxCrashes]
      BY <2>1, <2>2, BoundsAssumption
    <2>. QED  BY <1>t, <1>6, <2>3 DEF RecordLost, TypeInv, TypeOK, PostShape, SenderShape
  <1>. QED  BY <1>1, <1>2, <1>4, <1>5, <1>6

\* A step of a retry keeps the types.
LEMMA TypeRetry ==
  ASSUME TypeInv, ReadFailed \/ Requeue \/ RequeueFails
  PROVE  TypeInv'
  <1>t. TypeOK /\ PostShape /\ SenderShape  BY DEF TypeInv
  <1>b. budget \in [sends : 0..MaxSends, posts : 0..MaxPosts, retries : 0..MaxRetries,
                    faults : 0..MaxFaults, crashes : 0..MaxCrashes]
    BY <1>t DEF TypeOK
  <1>1. CASE ReadFailed
    <2>1. budget' \in [sends : 0..MaxSends, posts : 0..MaxPosts, retries : 0..MaxRetries,
                       faults : 0..MaxFaults, crashes : 0..MaxCrashes]
          /\ budget'.sends = budget.sends
      BY <1>b, <1>1, BoundsAssumption DEF ReadFailed
    <2>. QED  BY <1>t, <1>1, <2>1 DEF ReadFailed, TypeInv, TypeOK, PostShape, SenderShape
  <1>2. CASE Requeue
    BY <1>t, <1>2 DEF Requeue, TypeInv, TypeOK, PostShape, SenderShape, DeliveryStatus
  <1>3. CASE RequeueFails
    <2>1. budget' \in [sends : 0..MaxSends, posts : 0..MaxPosts, retries : 0..MaxRetries,
                       faults : 0..MaxFaults, crashes : 0..MaxCrashes]
          /\ budget'.sends = budget.sends
      BY <1>b, <1>3, BoundsAssumption DEF RequeueFails
    <2>. QED  BY <1>t, <1>3, <2>1 DEF RequeueFails, TypeInv, TypeOK, PostShape, SenderShape
  <1>. QED  BY <1>1, <1>2, <1>3

\* The events of a POST are a sequence of events.
LEMMA ReceivedType ==
  ASSUME TypeOK, NEW n \in 1..PostSize,
         NEW events \in [1..n -> [id : sender.ids \cup {None}, status : RawStatus]]
  PROVE  events \in Seq(Event)
  <1>1. n \in Nat  BY LimitsAssumption
  <1>2. [id : sender.ids \cup {None}, status : RawStatus] \subseteq Event  BY DEF TypeOK, Event
  <1>3. events \in [1..n -> Event]  BY <1>2
  <1>. QED  BY <1>1, <1>3

\* A step of a webhook call keeps the types.
LEMMA TypeWebhook ==
  ASSUME TypeInv, NEW p \in Posts,
         Receive(p) \/ PassBy(p) \/ Find(p) \/ Update(p) \/ Fault(p) \/ Reply(p)
  PROVE  TypeInv'
  <1>t. TypeOK /\ PostShape /\ SenderShape /\ post[p] \in PostType /\ Shaped(post[p])
    BY DEF TypeInv, TypeOK, PostType, PostShape
  <1>. DEFINE Kept == UNCHANGED <<row, sender, budget>>
  <1>idle. Shaped(IdlePost)  BY DEF Shaped, IdlePost
  <1>next. ASSUME post[p].events # <<>>, post[p].left > 0
           PROVE  NextEvent(p) \in PostType /\ Shaped(NextEvent(p))
    BY <1>t, <1>next, NextEventType DEF Shaped
  <1>1. CASE Receive(p)
    <2>n. PICK n \in 1..PostSize :
            \E events \in [1..n -> [id : sender.ids \cup {None}, status : RawStatus]] :
              post' = [post EXCEPT ![p] =
                [pc |-> "next", events |-> events, left |-> MaxEvents,
                 time |-> budget.posts + 1, patch |-> None]]
      BY <1>1 DEF Receive
    <2>1. PICK events \in [1..n -> [id : sender.ids \cup {None}, status : RawStatus]] :
            post' = [post EXCEPT ![p] =
              [pc |-> "next", events |-> events, left |-> MaxEvents,
               time |-> budget.posts + 1, patch |-> None]]
      BY <2>n
    <2>. DEFINE q == [pc |-> "next", events |-> events, left |-> MaxEvents,
                      time |-> budget.posts + 1, patch |-> None]
    <2>2. events \in Seq(Event)  BY <1>t, ReceivedType
    <2>3. budget.posts + 1 \in 0..MaxPosts  BY <1>t, <1>1, BoundsAssumption DEF Receive, TypeOK
    <2>4. q \in PostType /\ Shaped(q)
      BY <2>2, <2>3, LimitsAssumption DEF PostType, Shaped, Time
    <2>5. post' \in [Posts -> PostType] /\ PostShape'
      <3>. HIDE DEF q
      <3>. QED  BY <2>1, <2>4, PostUpdate DEF q
    <2>. QED  BY <1>t, <1>1, <2>3, <2>5 DEF Receive, TypeInv, TypeOK, PostType, SenderShape
  <1>2. CASE PassBy(p)
    <2>1. post' \in [Posts -> PostType] /\ PostShape'
      BY <1>2, <1>next, PostUpdate DEF PassBy, Handling
    <2>. QED  BY <1>t, <1>2, <2>1 DEF PassBy, TypeInv, TypeOK, PostType, SenderShape
  <1>3. CASE Find(p)
    <2>. DEFINE event == Head(post[p].events)
                next == WebhookStatusMap[event.status]
    <2>1. next \in Columns  BY <1>3, MapType DEF Find, Usable
    <2>2. history' \in [base : DeliveryStatus \cup {"LEGACY"}, reports : SUBSET Columns]
      <3>1. history' = [history EXCEPT !.reports = @ \cup {next}] \/ history' = history
        BY <1>3 DEF Find
      <3>2. history \in [base : DeliveryStatus \cup {"LEGACY"}, reports : SUBSET Columns]
        BY <1>t DEF TypeOK
      <3>. HIDE DEF next
      <3>. QED  BY <2>1, <3>1, <3>2
    <2>3. post' \in [Posts -> PostType] /\ PostShape'
      <3>1. CASE event.id = row.id /\ Applies(row.status, next)
        <4>. DEFINE q == [post[p] EXCEPT !.pc = "update", !.patch = Patch(next)]
        <4>1. Patch(next) \in PatchType  BY <2>1 DEF Patch, PatchType
        <4>2. q \in PostType /\ Shaped(q)
          BY <1>t, <1>3, <4>1 DEF PostType, Shaped, Find, Handling
        <4>3. post' = [post EXCEPT ![p] = q]  BY <1>3, <3>1 DEF Find
        <4>. QED  BY <4>2, <4>3, PostUpdate
      <3>2. CASE ~(event.id = row.id /\ Applies(row.status, next))
        <4>1. post' = [post EXCEPT ![p] = NextEvent(p)]  BY <1>3, <3>2 DEF Find
        <4>. QED  BY <1>3, <4>1, <1>next, PostUpdate DEF Find, Handling
      <3>. QED  BY <3>1, <3>2
    <2>. QED  BY <1>t, <1>3, <2>2, <2>3 DEF Find, TypeInv, TypeOK, PostType, SenderShape
  <1>4. CASE Update(p)
    <2>. DEFINE patch == post[p].patch
    <2>1. patch \in PatchType /\ post[p].events # <<>> /\ post[p].left > 0
      BY <1>t, <1>4 DEF Update, Shaped
    <2>2. post' \in [Posts -> PostType] /\ PostShape'
      BY <1>4, <1>next, <2>1, PostUpdate DEF Update
    <2>3. /\ row'.status = patch.status /\ row'.id = row.id
          /\ row'.at = IF patch.stamp THEN [row.at EXCEPT ![patch.status] = post[p].time] ELSE row.at
          /\ row' = [status |-> row'.status, id |-> row'.id, at |-> row'.at]
      BY <1>t, <1>4 DEF Update, TypeOK
    <2>4. row'.at \in [Columns -> Time \cup {None}]
      BY <1>t, <2>1, <2>3 DEF TypeOK, PostType, PatchType
    <2>5. patch.status \in DeliveryStatus /\ patch.status \in Columns
      BY <2>1 DEF PatchType, Columns, DeliveryStatus
    <2>6. row' \in [status : DeliveryStatus \cup {"LEGACY"}, id : Ids \cup {None},
                    at : [Columns -> Time \cup {None}]]
      BY <1>t, <2>3, <2>4, <2>5 DEF TypeOK
    <2>7. history' \in [base : DeliveryStatus \cup {"LEGACY"}, reports : SUBSET Columns]
      BY <1>t, <1>4, <2>5 DEF Update, TypeOK
    <2>. QED  BY <1>t, <1>4, <2>2, <2>6, <2>7 DEF Update, TypeInv, TypeOK, PostType, SenderShape
  <1>5. CASE Fault(p)
    <2>1. post' \in [Posts -> PostType] /\ PostShape'
      BY <1>t, <1>5, <1>next, <1>idle, IdleType, PostUpdate DEF Fault, Shaped
    <2>2. budget' \in [sends : 0..MaxSends, posts : 0..MaxPosts, retries : 0..MaxRetries,
                       faults : 0..MaxFaults, crashes : 0..MaxCrashes]
      <3>1. budget' = [budget EXCEPT !.faults = @ + 1] /\ budget.faults < MaxFaults
        BY <1>5 DEF Fault
      <3>2. budget \in [sends : 0..MaxSends, posts : 0..MaxPosts, retries : 0..MaxRetries,
                        faults : 0..MaxFaults, crashes : 0..MaxCrashes]
        BY <1>t DEF TypeOK
      <3>. QED  BY <3>1, <3>2, BoundsAssumption
    <2>3. budget'.sends = budget.sends  BY <1>t, <1>5 DEF Fault, TypeOK
    <2>. QED  BY <1>t, <1>5, <2>1, <2>2, <2>3 DEF Fault, TypeInv, TypeOK, PostType, SenderShape
  <1>6. CASE Reply(p)
    <2>1. post' \in [Posts -> PostType] /\ PostShape'
      BY <1>6, <1>idle, IdleType, PostUpdate DEF Reply
    <2>. QED  BY <1>t, <1>6, <2>1 DEF Reply, TypeInv, TypeOK, PostType, SenderShape
  <1>. QED  BY <1>1, <1>2, <1>3, <1>4, <1>5, <1>6

\* Every step keeps the types.
LEMMA TypeStep == TypeInv /\ [Next]_vars => TypeInv'
  <1>. SUFFICES ASSUME TypeInv, [Next]_vars PROVE TypeInv'  OBVIOUS
  <1>1. CASE Crash
    <2>1. post' \in [Posts -> PostType] /\ PostShape'
      BY <1>1, IdleType DEF Crash, PostShape, Shaped, IdlePost
    <2>2. sender' \in [pc : {"idle", "sending", "accepted"}, ids : SUBSET Ids, retrying : BOOLEAN]
          /\ SenderShape'
      BY <1>1 DEF Crash, TypeInv, TypeOK, SenderShape
    <2>3. budget' \in [sends : 0..MaxSends, posts : 0..MaxPosts, retries : 0..MaxRetries,
                       faults : 0..MaxFaults, crashes : 0..MaxCrashes]
      <3>1. budget' = [budget EXCEPT !.crashes = @ + 1] /\ budget.crashes < MaxCrashes
        BY <1>1 DEF Crash
      <3>2. budget \in [sends : 0..MaxSends, posts : 0..MaxPosts, retries : 0..MaxRetries,
                        faults : 0..MaxFaults, crashes : 0..MaxCrashes]
        BY DEF TypeInv, TypeOK
      <3>. QED  BY <3>1, <3>2, BoundsAssumption
    <2>. QED  BY <1>1, <2>1, <2>2, <2>3 DEF Crash, TypeInv, TypeOK, PostType
  <1>2. CASE UNCHANGED vars
    BY <1>2 DEF vars, TypeInv, TypeOK, PostShape, Shaped, SenderShape
  <1>. QED  BY <1>1, <1>2, TypeSender, TypeRetry, TypeWebhook DEF Next

\* The state stays well typed, and no request handles more events than the
\* ceiling allows.
THEOREM TypeCorrect == Spec => []TypeOK
  <1>1. Init => TypeInv  BY TypeInit
  <1>2. TypeInv /\ [Next]_vars => TypeInv'  BY TypeStep
  <1>3. TypeInv => TypeOK  BY DEF TypeInv
  <1>. QED  BY <1>1, <1>2, <1>3, PTL DEF Spec

-----------------------------------------------------------------------------
\* No two webhook calls are processed at once.
OneAtATime == \A p, q \in Posts : p = q

Writing(p) == post[p].pc = "update"

\* A patch without a time is made for a column that is filled.
Filled == \A p \in Posts : Writing(p) /\ ~post[p].patch.stamp => row.at[post[p].patch.status] # None

TimedInv == TypeInv /\ StagesHaveTimes /\ Filled

\* Until a retry, a message to be sent has no id yet, and was never reported on.
Unreported == ~Retried /\ row.status = "PENDING" => row.id = None /\ row.at = NoTimes

\* Until a retry, only a message to be sent is being sent.
SentWhilePending == ~Retried /\ sender.pc # "idle" => row.status = "PENDING"

\* A retry under way has been counted.
RetryCounted == sender.retrying => Retried

\* A webhook call about to write would, until a retry, advance the row as it is now.
Fresh ==
  \A p \in Posts : Writing(p) /\ ~Retried =>
    row.id # None /\ Lifecycle!Later(row.status, post[p].patch.status)

\* It sets a time exactly if there is none now, but for the time of sending of a
\* message that was retried.
FreshTime ==
  \A p \in Posts : Writing(p) /\ (post[p].patch.status = "SENT" => ~Retried) =>
    (post[p].patch.stamp <=> row.at[post[p].patch.status] = None)

OrderInv == TypeInv /\ Unreported /\ SentWhilePending /\ RetryCounted /\ Fresh /\ FreshTime

\* The rank policy is the order of the lifecycle.
LEMMA AppliesIsLater ==
  ASSUME NEW from \in DeliveryStatus \cup {"LEGACY"}, NEW to \in Columns
  PROVE  Applies(from, to) <=> Lifecycle!Later(from, to)
  BY DEF Applies, DeliveryStatus, Columns, Rank, Lifecycle!Later, Lifecycle!Stage

\* How a webhook call changes the row, from the types alone.
LEMMA UpdateEffect ==
  ASSUME TypeInv, NEW p \in Posts, Update(p)
  PROVE  LET patch == post[p].patch
         IN  /\ patch \in PatchType
             /\ row'.status = patch.status
             /\ row'.id = row.id
             /\ row'.at \in [Columns -> Time \cup {None}]
             /\ \A c \in Columns :
                  row'.at[c] = IF patch.stamp /\ c = patch.status THEN post[p].time ELSE row.at[c]
             /\ post[p].time \in Time
  <1>. DEFINE patch == post[p].patch
  <1>1. /\ patch \in PatchType
        /\ post[p].time \in Time
        /\ row.at \in [Columns -> Time \cup {None}]
        /\ row \in [status : DeliveryStatus \cup {"LEGACY"}, id : Ids \cup {None},
                    at : [Columns -> Time \cup {None}]]
    BY DEF TypeInv, TypeOK, PostShape, Shaped, Update
  <1>2. row' = [row EXCEPT
           !.status = patch.status,
           !.at = IF patch.stamp THEN [@ EXCEPT ![patch.status] = post[p].time] ELSE @]
    BY DEF Update
  <1>3. /\ row'.status = patch.status /\ row'.id = row.id
        /\ row'.at = IF patch.stamp THEN [row.at EXCEPT ![patch.status] = post[p].time] ELSE row.at
    BY <1>1, <1>2
  <1>4. patch.status \in Columns  BY <1>1 DEF PatchType
  <1>. HIDE DEF patch
  <1>5. /\ row'.at \in [Columns -> Time \cup {None}]
        /\ \A c \in Columns :
             row'.at[c] = IF patch.stamp /\ c = patch.status THEN post[p].time ELSE row.at[c]
    BY <1>1, <1>3, <1>4
  <1>. QED  BY <1>1, <1>3, <1>5 DEF patch

\* How a step of the sender that writes the row changes it.
LEMMA RecordEffect ==
  ASSUME TypeInv, RecordSent \/ RecordUnsent
  PROVE  /\ row'.status \in {"PENDING", "SENT", "FAILED"}
         /\ row'.status # "SENT" => row'.id = row.id /\ row'.at = row.at
         /\ row'.status = "SENT" => row'.at = [row.at EXCEPT !["SENT"] = 0]
         /\ sender.pc # "idle"
         /\ sender' = [sender EXCEPT !.pc = "idle"]
         /\ history' = [base |-> row'.status, reports |-> {}]
         /\ post' = post
  <1>1. CASE RecordSent
    BY <1>1 DEF RecordSent, WriteRow
  <1>2. CASE RecordUnsent
    BY <1>2 DEF RecordUnsent, WriteRow
  <1>. QED  BY <1>1, <1>2

\* How a retry changes the row.
LEMMA RequeueEffect ==
  ASSUME TypeInv, Requeue
  PROVE  /\ row'.status = "PENDING" /\ row'.id = row.id /\ row'.at = row.at
         /\ post' = post /\ budget' = budget
         /\ sender.retrying /\ sender' = [sender EXCEPT !.retrying = FALSE]
  BY DEF Requeue, TypeInv, TypeOK

\* That there was a retry is never forgotten, and its first step is the reading.
LEMMA RetriedKept ==
  ASSUME TypeInv, [Next]_vars
  PROVE  /\ Retried => Retried'
         /\ ~Retried /\ Retried' => ReadFailed
  <1>t. budget \in [sends : 0..MaxSends, posts : 0..MaxPosts, retries : 0..MaxRetries,
                    faults : 0..MaxFaults, crashes : 0..MaxCrashes]
    BY DEF TypeInv, TypeOK
  <1>1. CASE ReadFailed  BY <1>t, <1>1, BoundsAssumption DEF ReadFailed, Retried
  <1>2. CASE ~ReadFailed
    <2>1. budget'.retries = budget.retries
      BY <1>t, <1>2
      DEF Next, SendStart, MetaAccepts, RecordSent, RecordUnsent, WriteRow, RecordLost, Requeue,
          RequeueFails, Receive, PassBy, Find, Update, Fault, Reply, Crash, vars
    <2>. QED  BY <1>2, <2>1 DEF Retried
  <1>. QED  BY <1>1, <1>2

\* The steps that leave the row alone.
Reading ==
  \/ SendStart \/ MetaAccepts \/ RecordLost \/ ReadFailed \/ RequeueFails
  \/ \E p \in Posts : Receive(p) \/ PassBy(p) \/ Find(p) \/ Fault(p) \/ Reply(p)
  \/ Crash \/ UNCHANGED vars

LEMMA StepKinds ==
  ASSUME [Next]_vars
  PROVE  \/ RecordSent \/ RecordUnsent
         \/ Requeue
         \/ \E p \in Posts : Update(p)
         \/ Reading /\ row' = row
  BY DEF Next, Reading, SendStart, MetaAccepts, RecordLost, ReadFailed, RequeueFails, Receive,
         PassBy, Find, Fault, Reply, Crash, vars

\* A patch carries a time exactly when the column of its status is empty.
LEMMA PatchFields ==
  ASSUME NEW next \in Columns
  PROVE  Patch(next).status = next /\ (Patch(next).stamp <=> row.at[next] = None)
  BY DEF Patch

-----------------------------------------------------------------------------
(* Always: the stages shown have their times.                              *)

\* The patch of a post about to write is made when its row is found.
LEMMA PatchKept ==
  ASSUME TypeInv, Reading, row' = row, NEW p \in Posts, Writing(p)'
  PROVE  \/ Writing(p) /\ post'[p].patch = post[p].patch
         \/ /\ Find(p)
            /\ Handling(p)
            /\ row.id # None
            /\ \E next \in Columns : Applies(row.status, next) /\ post'[p].patch = Patch(next)
  <1>t. post \in [Posts -> PostType]  BY DEF TypeInv, TypeOK, PostType
  <1>1. CASE post' = post  BY <1>1 DEF Writing
  <1>2. CASE Crash  BY <1>2 DEF Crash, Writing, IdlePost
  <1>3. ASSUME NEW q \in Posts, NEW new, post' = [post EXCEPT ![q] = new], new.pc # "update"
        PROVE  Writing(p) /\ post'[p].patch = post[p].patch
    BY <1>t, <1>3 DEF Writing
  <1>n. \A q \in Posts : NextEvent(q).pc = "next"  BY <1>t DEF NextEvent, PostType
  <1>i. IdlePost.pc = "idle"  BY DEF IdlePost
  <1>4. ASSUME NEW q \in Posts, Find(q)
        PROVE  \/ Writing(p) /\ post'[p].patch = post[p].patch
               \/ /\ Find(p)
                  /\ Handling(p)
                  /\ row.id # None
                  /\ \E next \in Columns : Applies(row.status, next) /\ post'[p].patch = Patch(next)
    <2>. DEFINE event == Head(post[q].events)
                next == WebhookStatusMap[event.status]
    <2>1. next \in Columns /\ event.id # None  BY <1>4, MapType DEF Find, Usable
    <2>2. CASE event.id = row.id /\ Applies(row.status, next)
      <3>1. post' = [post EXCEPT ![q] = [@ EXCEPT !.pc = "update", !.patch = Patch(next)]]
        BY <1>4, <2>2 DEF Find
      <3>2. CASE q = p
        <4>1. post'[p].patch = Patch(next)
          <5>. HIDE DEF next
          <5>. QED  BY <1>t, <3>1, <3>2 DEF PostType
        <4>. QED  BY <1>4, <2>1, <2>2, <3>2, <4>1 DEF Find
      <3>3. CASE q # p
        <4>. HIDE DEF next
        <4>. QED  BY <1>t, <3>1, <3>3 DEF Writing
      <3>. QED  BY <3>2, <3>3
    <2>3. CASE ~(event.id = row.id /\ Applies(row.status, next))
      <3>1. post' = [post EXCEPT ![q] = NextEvent(q)]  BY <1>4, <2>3 DEF Find
      <3>. QED  BY <1>3, <1>n, <3>1
    <2>. QED  BY <2>2, <2>3
  <1>5. ASSUME NEW q \in Posts, Receive(q)
        PROVE  Writing(p) /\ post'[p].patch = post[p].patch
    <2>1. PICK n \in 1..PostSize :
            \E events \in [1..n -> [id : sender.ids \cup {None}, status : RawStatus]] :
              post' = [post EXCEPT ![q] =
                [pc |-> "next", events |-> events, left |-> MaxEvents,
                 time |-> budget.posts + 1, patch |-> None]]
      BY <1>5 DEF Receive
    <2>2. PICK events :
            post' = [post EXCEPT ![q] =
              [pc |-> "next", events |-> events, left |-> MaxEvents,
               time |-> budget.posts + 1, patch |-> None]]
      BY <2>1
    <2>. DEFINE new == [pc |-> "next", events |-> events, left |-> MaxEvents,
                        time |-> budget.posts + 1, patch |-> None]
    <2>3. new.pc # "update"  OBVIOUS
    <2>4. post' = [post EXCEPT ![q] = new]  BY <2>2
    <2>. HIDE DEF new
    <2>. QED  BY <1>3, <2>3, <2>4
  <1>6. ASSUME NEW q \in Posts, PassBy(q) \/ Fault(q) \/ Reply(q)
        PROVE  Writing(p) /\ post'[p].patch = post[p].patch
    BY <1>3, <1>6, <1>n, <1>i DEF PassBy, Fault, Reply
  <1>. QED
    BY <1>1, <1>2, <1>4, <1>5, <1>6
    DEF Reading, SendStart, MetaAccepts, RecordLost, ReadFailed, RequeueFails, vars

\* No step takes a lifecycle time away.
LEMMA TimesKept ==
  ASSUME TypeInv, [Next]_vars, NEW c \in Columns, row.at[c] # None
  PROVE  row'.at[c] # None
  <1>t. row.at \in [Columns -> Time \cup {None}]  BY DEF TypeInv, TypeOK
  <1>n. None \notin Time  BY NoneAssumption, BoundsAssumption DEF Time
  <1>1. CASE RecordSent \/ RecordUnsent
    <2>1. row'.at = row.at \/ row'.at = [row.at EXCEPT !["SENT"] = 0]  BY <1>1, RecordEffect
    <2>. QED  BY <1>t, <1>n, <2>1, BoundsAssumption DEF Time
  <1>2. ASSUME NEW p \in Posts, Update(p) PROVE row'.at[c] # None
    BY <1>2, <1>n, UpdateEffect
  <1>3. CASE Requeue  BY <1>3, RequeueEffect
  <1>. QED  BY <1>1, <1>2, <1>3, StepKinds

\* Every step keeps the invariant behind the times.
LEMMA TimedStep == TimedInv /\ [Next]_vars => TimedInv'
  <1>. SUFFICES ASSUME TimedInv, [Next]_vars PROVE TimedInv'  OBVIOUS
  <1>t. TypeInv /\ TypeInv'  BY TypeStep DEF TimedInv
  <1>k. \A c \in Columns : row.at[c] # None => row'.at[c] # None  BY <1>t, TimesKept
  <1>p. \A p \in Posts : Writing(p) => post[p].patch \in PatchType
    BY <1>t DEF TypeInv, PostShape, Shaped, Writing
  <1>1. CASE RecordSent \/ RecordUnsent
    <2>1. StagesHaveTimes'  BY <1>1, <1>t, RecordEffect DEF StagesHaveTimes
    <2>2. post' = post  BY <1>1, <1>t, RecordEffect
    <2>3. Filled'  BY <1>k, <1>p, <2>2 DEF Filled, TimedInv, Writing, PatchType
    <2>. QED  BY <1>t, <2>1, <2>3 DEF TimedInv
  <1>2. ASSUME NEW p \in Posts, Update(p) PROVE TimedInv'
    <2>. DEFINE patch == post[p].patch
    <2>1. /\ patch \in PatchType /\ row'.status = patch.status /\ post[p].time \in Time
          /\ \A c \in Columns :
               row'.at[c] = IF patch.stamp /\ c = patch.status THEN post[p].time ELSE row.at[c]
      BY <1>2, <1>t, UpdateEffect
    <2>2. post[p].time # None  BY <2>1, NoneAssumption, BoundsAssumption DEF Time
    <2>3. ~patch.stamp => row.at[patch.status] # None
      BY <1>2 DEF Filled, TimedInv, Writing, Update
    <2>4. StagesHaveTimes'  BY <2>1, <2>2, <2>3 DEF StagesHaveTimes, PatchType
    <2>5. ASSUME NEW q \in Posts, Writing(q)' PROVE Writing(q) /\ post'[q].patch = post[q].patch
      BY <1>2, <1>t, <2>5 DEF Update, NextEvent, Writing, TypeInv, TypeOK
    <2>6. Filled'  BY <1>k, <1>p, <2>5 DEF Filled, TimedInv, PatchType
    <2>. QED  BY <1>t, <2>4, <2>6 DEF TimedInv
  <1>3. CASE Reading /\ row' = row
    <2>1. ASSUME NEW p \in Posts, Writing(p)', ~post'[p].patch.stamp
          PROVE  row'.at[post'[p].patch.status] # None
      <3>1. CASE Writing(p) /\ post'[p].patch = post[p].patch
        BY <1>3, <2>1, <3>1 DEF Filled, TimedInv
      <3>2. CASE \E next \in Columns : post'[p].patch = Patch(next)
        <4>1. PICK next \in Columns : post'[p].patch = Patch(next)  BY <3>2
        <4>2. post'[p].patch.status = next /\ row.at[next] # None  BY <2>1, <4>1, PatchFields
        <4>. QED  BY <1>3, <4>2
      <3>. QED  BY <1>3, <1>t, <2>1, <3>1, <3>2, PatchKept
    <2>2. Filled'  BY <2>1 DEF Filled
    <2>. QED  BY <1>3, <1>t, <2>2 DEF TimedInv, StagesHaveTimes
  <1>4. CASE Requeue
    <2>1. row'.status = "PENDING" /\ post' = post  BY <1>4, <1>t, RequeueEffect
    <2>2. Filled'  BY <1>k, <1>p, <2>1 DEF Filled, TimedInv, Writing, PatchType
    <2>. QED  BY <1>t, <2>1, <2>2 DEF TimedInv, StagesHaveTimes
  <1>. QED  BY <1>1, <1>2, <1>3, <1>4, StepKinds

\* However many webhook calls run at once, and whatever fails, a message shown
\* as delivered or read has the time of it (buildPatch reads the empty column
\* and nothing empties one).
THEOREM StagesAlwaysTimed == Spec => []StagesHaveTimes
  <1>1. Init => TimedInv
    <2>. SUFFICES ASSUME Init PROVE TimedInv  OBVIOUS
    <2>1. TypeInv  BY TypeInit
    <2>2. StagesHaveTimes  BY DEF Init, StagesHaveTimes
    <2>3. Filled  BY DEF Init, Filled, Writing, IdlePost
    <2>. QED  BY <2>1, <2>2, <2>3 DEF TimedInv
  <1>2. TimedInv /\ [Next]_vars => TimedInv'  BY TimedStep
  <1>3. TimedInv => StagesHaveTimes  BY DEF TimedInv
  <1>. QED  BY <1>1, <1>2, <1>3, PTL DEF Spec

-----------------------------------------------------------------------------
(* With one webhook call at a time.                                        *)

\* A behaviour starts with no webhook call about to write.
LEMMA OrderInit == Init => OrderInv
  <1>. SUFFICES ASSUME Init PROVE OrderInv  OBVIOUS
  <1>1. TypeInv  BY TypeInit
  <1>2. Unreported /\ SentWhilePending /\ RetryCounted
    BY DEF Init, Unreported, SentWhilePending, RetryCounted
  <1>3. Fresh /\ FreshTime  BY DEF Init, Fresh, FreshTime, Writing, IdlePost
  <1>. QED  BY <1>1, <1>2, <1>3 DEF OrderInv

\* When the sender first writes the row, no webhook call is about to write it too.
LEMMA SenderAlone ==
  ASSUME OrderInv, sender.pc # "idle", ~Retried
  PROVE  row.id = None /\ row.at = NoTimes /\ \A p \in Posts : ~Writing(p)
  BY DEF OrderInv, Unreported, SentWhilePending, Fresh

\* Every step keeps that a retry under way has been counted.
LEMMA RetryCountedStep ==
  ASSUME OrderInv, [Next]_vars
  PROVE  RetryCounted'
  <1>t. TypeInv  BY DEF OrderInv
  <1>r. Retried => Retried'  BY <1>t, RetriedKept
  <1>s. sender \in [pc : {"idle", "sending", "accepted"}, ids : SUBSET Ids, retrying : BOOLEAN]
    BY <1>t DEF TypeInv, TypeOK
  <1>1. CASE ReadFailed
    BY <1>1, <1>t, BoundsAssumption DEF ReadFailed, RetryCounted, Retried, TypeInv, TypeOK
  <1>2. CASE ~ReadFailed
    <2>1. sender'.retrying => sender.retrying
      BY <1>s, <1>2
      DEF Next, SendStart, MetaAccepts, RecordSent, RecordUnsent, WriteRow, RecordLost, Requeue,
          RequeueFails, Receive, PassBy, Find, Update, Fault, Reply, Crash, vars
    <2>. QED  BY <1>r, <2>1 DEF OrderInv, RetryCounted
  <1>. QED  BY <1>1, <1>2

\* Every step keeps the invariant behind the order.
LEMMA OrderStep ==
  ASSUME OneAtATime, OrderInv, [Next]_vars
  PROVE  OrderInv'
  <1>t. TypeInv /\ TypeInv'  BY TypeStep DEF OrderInv
  <1>c. RetryCounted'  BY RetryCountedStep
  <1>r. ~Retried' => ~Retried  BY <1>t, RetriedKept
  <1>p. \A p \in Posts : Writing(p) => post[p].patch \in PatchType
    BY <1>t DEF TypeInv, PostShape, Shaped, Writing
  <1>1. CASE RecordSent \/ RecordUnsent
    <2>1. ~Retried => row.id = None /\ row.at = NoTimes /\ \A p \in Posts : ~Writing(p)
      BY <1>1, <1>t, RecordEffect, SenderAlone
    <2>2. Unreported'  BY <1>1, <1>t, <1>r, <2>1, RecordEffect DEF Unreported
    <2>3. SentWhilePending'  BY <1>1, <1>t, RecordEffect DEF SentWhilePending, TypeInv, TypeOK
    <2>4. Fresh'  BY <1>1, <1>t, <1>r, <2>1, RecordEffect DEF Fresh, Writing
    <2>5. FreshTime'
      <3>1. \A c \in Columns : c # "SENT" => row'.at[c] = row.at[c]
        <4>1. row.at \in [Columns -> Time \cup {None}]  BY <1>t DEF TypeInv, TypeOK
        <4>2. row'.at = row.at \/ row'.at = [row.at EXCEPT !["SENT"] = 0]
          BY <1>1, <1>t, RecordEffect
        <4>. QED  BY <4>1, <4>2
      <3>2. post' = post  BY <1>1, <1>t, RecordEffect
      <3>3. ASSUME NEW p \in Posts, Writing(p), post[p].patch.status = "SENT" => ~Retried'
            PROVE  post[p].patch.stamp <=> row'.at[post[p].patch.status] = None
        <4>1. post[p].patch.status \in Columns  BY <1>p, <3>3 DEF PatchType
        <4>2. post[p].patch.status # "SENT"  BY <1>r, <2>1, <3>3
        <4>. QED  BY <3>1, <3>3, <4>1, <4>2 DEF OrderInv, FreshTime
      <3>. QED  BY <3>2, <3>3 DEF FreshTime, Writing
    <2>. QED  BY <1>t, <1>c, <2>2, <2>3, <2>4, <2>5 DEF OrderInv
  <1>2. ASSUME NEW p \in Posts, Update(p) PROVE OrderInv'
    <2>. DEFINE patch == post[p].patch
    <2>1. patch \in PatchType /\ row'.status = patch.status  BY <1>2, <1>t, UpdateEffect
    <2>2. row'.status # "PENDING"  BY <2>1 DEF PatchType, Columns
    <2>3. sender' = sender /\ budget' = budget  BY <1>2 DEF Update
    <2>4. ~Retried => row.id # None /\ row.status # "PENDING"
      BY <1>2 DEF Update, Writing, Fresh, OrderInv, Unreported
    <2>5. SentWhilePending'  BY <2>3, <2>4 DEF SentWhilePending, OrderInv, Retried
    <2>6. \A q \in Posts : ~Writing(q)'
      BY <1>2, <1>t DEF OneAtATime, Update, NextEvent, Writing, TypeInv, TypeOK
    <2>7. Unreported' /\ Fresh' /\ FreshTime'  BY <2>2, <2>6 DEF Unreported, Fresh, FreshTime
    <2>. QED  BY <1>t, <1>c, <2>5, <2>7 DEF OrderInv
  <1>3. CASE Reading /\ row' = row
    <2>1. SentWhilePending'
      BY <1>3, <1>t, <1>r
      DEF Reading, SendStart, MetaAccepts, RecordLost, ReadFailed, RequeueFails, Receive, PassBy, Find,
          Fault, Reply, Crash, vars, SentWhilePending, OrderInv, TypeInv, TypeOK
    <2>2. ASSUME NEW p \in Posts, Writing(p)'
          PROVE  /\ ~Retried' => row.id # None /\ Lifecycle!Later(row.status, post'[p].patch.status)
                 /\ (post'[p].patch.status = "SENT" => ~Retried') =>
                      (post'[p].patch.stamp <=> row.at[post'[p].patch.status] = None)
      <3>1. CASE Writing(p) /\ post'[p].patch = post[p].patch
        BY <1>r, <3>1 DEF OrderInv, Fresh, FreshTime
      <3>2. ASSUME NEW next \in Columns, Applies(row.status, next), post'[p].patch = Patch(next)
            PROVE  /\ Lifecycle!Later(row.status, post'[p].patch.status)
                   /\ post'[p].patch.stamp <=> row.at[post'[p].patch.status] = None
        <4>1. row.status \in DeliveryStatus \cup {"LEGACY"}  BY <1>t DEF TypeInv, TypeOK
        <4>. QED  BY <3>2, <4>1, AppliesIsLater, PatchFields
      <3>. QED  BY <1>3, <1>t, <2>2, <3>1, <3>2, PatchKept
    <2>3. Fresh' /\ FreshTime'  BY <1>3, <2>2 DEF Fresh, FreshTime
    <2>4. Unreported'  BY <1>3, <1>r DEF OrderInv, Unreported
    <2>. QED  BY <1>t, <1>c, <2>1, <2>3, <2>4 DEF OrderInv
  <1>4. CASE Requeue
    <2>1. /\ row'.at = row.at /\ post' = post /\ budget' = budget /\ sender.retrying
      BY <1>4, <1>t, RequeueEffect
    <2>2. Retried /\ Retried'  BY <2>1 DEF OrderInv, RetryCounted, Retried
    <2>3. Unreported' /\ SentWhilePending' /\ Fresh'
      BY <2>2 DEF Unreported, SentWhilePending, Fresh
    <2>4. FreshTime'  BY <2>1, <2>2 DEF OrderInv, FreshTime, Writing
    <2>. QED  BY <1>t, <1>c, <2>3, <2>4 DEF OrderInv
  <1>. QED  BY <1>1, <1>2, <1>3, <1>4, StepKinds

\* One webhook call at a time: until a retry the status follows the lifecycle of
\* one delivery, whatever Meta reports, repeats, reorders or loses, and whatever
\* crashes (resolveTransition decides on the row that update then writes).
THEOREM OrderedImplementsLifecycle ==
  ASSUME OneAtATime
  PROVE  Spec => ImplementsLifecycle
  <1>1. Init => OrderInv  BY OrderInit
  <1>2. OrderInv /\ [Next]_vars => OrderInv'  BY OrderStep
  <1>3. Init => Lifecycle!Init  BY DEF Init, Lifecycle!Init, FirstLife, Retried
  <1>4. OrderInv /\ [Next]_vars => [Lifecycle!Advance]_FirstLife
    <2>. SUFFICES ASSUME OrderInv, [Next]_vars PROVE [Lifecycle!Advance]_FirstLife  OBVIOUS
    <2>t. TypeInv  BY DEF OrderInv
    <2>r. /\ Retried => Retried'
          /\ ~Retried /\ Retried' => ReadFailed
      BY <2>t, RetriedKept
    <2>0. CASE Retried  BY <2>0, <2>r DEF FirstLife
    <2>1. CASE ~Retried /\ Retried'
      BY <2>1, <2>r DEF ReadFailed, FirstLife
    <2>2. CASE ~Retried /\ ~Retried'
      <3>f. FirstLife = row.status /\ FirstLife' = row'.status  BY <2>2 DEF FirstLife
      <3>1. CASE RecordSent \/ RecordUnsent
        <4>1. row.status = "PENDING"  BY <2>2, <2>t, <3>1, RecordEffect DEF OrderInv, SentWhilePending
        <4>. QED
          BY <2>t, <3>1, <3>f, <4>1, RecordEffect
          DEF Lifecycle!Advance, Lifecycle!Later, Lifecycle!Stage
      <3>2. ASSUME NEW p \in Posts, Update(p) PROVE Lifecycle!Advance
        <4>1. post[p].patch \in PatchType /\ row'.status = post[p].patch.status
          BY <2>t, <3>2, UpdateEffect
        <4>2. Lifecycle!Later(row.status, post[p].patch.status)
          BY <2>2, <3>2 DEF Update, Writing, Fresh, OrderInv
        <4>. QED  BY <3>f, <4>1, <4>2 DEF Lifecycle!Advance, PatchType, Columns
      <3>3. ~Requeue  BY <2>2 DEF Requeue, OrderInv, RetryCounted
      <3>. QED  BY <3>1, <3>2, <3>3, <3>f, StepKinds
    <2>. QED  BY <2>0, <2>1, <2>2
  <1>. QED  BY <1>1, <1>2, <1>3, <1>4, PTL DEF Spec, ImplementsLifecycle, Lifecycle!Spec

\* One webhook call at a time: a time of delivery, reading or failure that is
\* written stays as it is, however often the message is retried.
THEOREM OrderedTimesWrittenOnce ==
  ASSUME OneAtATime
  PROVE  Spec => TimesWrittenOnce
  <1>1. Init => OrderInv  BY OrderInit
  <1>2. OrderInv /\ [Next]_vars => OrderInv'  BY OrderStep
  <1>3. OrderInv /\ [Next]_vars =>
          [\A c \in Columns :
             (c = "SENT" => ~Retried) /\ row.at[c] # None => row'.at[c] = row.at[c]]_vars
    <2>. SUFFICES ASSUME OrderInv, [Next]_vars, NEW c \in Columns, row.at[c] # None,
                         c = "SENT" => ~Retried
                  PROVE  row'.at[c] = row.at[c]
      OBVIOUS
    <2>t. TypeInv  BY DEF OrderInv
    <2>1. CASE RecordSent \/ RecordUnsent
      <3>1. row.at \in [Columns -> Time \cup {None}]  BY <2>t DEF TypeInv, TypeOK
      <3>2. row'.at = row.at \/ row'.at = [row.at EXCEPT !["SENT"] = 0]
        BY <2>1, <2>t, RecordEffect
      <3>3. c # "SENT"  BY <2>1, <2>t, RecordEffect, SenderAlone DEF NoTimes, Columns
      <3>. QED  BY <3>1, <3>2, <3>3
    <2>2. ASSUME NEW p \in Posts, Update(p) PROVE row'.at[c] = row.at[c]
      <3>1. (post[p].patch.status = "SENT" => ~Retried) =>
              (post[p].patch.stamp <=> row.at[post[p].patch.status] = None)
        BY <2>2 DEF Update, Writing, FreshTime, OrderInv
      <3>. QED  BY <2>2, <2>t, <3>1, UpdateEffect
    <2>3. CASE Requeue  BY <2>3, <2>t, RequeueEffect
    <2>. QED  BY <2>1, <2>2, <2>3, StepKinds
  <1>. QED  BY <1>1, <1>2, <1>3, PTL DEF Spec, TimesWrittenOnce

\* Whatever is reported is either behind the row or becomes its status.
LEMMA ConvergedStep ==
  ASSUME OneAtATime, OrderInv, Converged, [Next]_vars
  PROVE  Converged'
  <1>t. /\ TypeInv
        /\ row.status \in DeliveryStatus \cup {"LEGACY"}
        /\ history \in [base : DeliveryStatus \cup {"LEGACY"}, reports : SUBSET Columns]
    BY DEF OrderInv, TypeInv, TypeOK
  <1>r. ~Retried' => ~Retried  BY <1>t, RetriedKept
  <1>. SUFFICES ASSUME ~Retried, ~Retried' PROVE Converged'
    BY <1>r DEF Converged
  <1>. DEFINE Before == {history.base} \cup history.reports
  <1>0. row.status \in Before /\ \A s \in Before : ~Lifecycle!Later(row.status, s)
    BY DEF Converged
  <1>1. CASE RecordSent \/ RecordUnsent
    BY <1>1, <1>t, RecordEffect DEF Converged, Lifecycle!Later, Lifecycle!Stage
  <1>2. ASSUME NEW p \in Posts, Update(p) PROVE Converged'
    <2>. DEFINE new == post[p].patch.status
    <2>1. new \in Columns /\ row'.status = new
      BY <1>2, <1>t, UpdateEffect DEF PatchType
    <2>2. Lifecycle!Later(row.status, new)  BY <1>2 DEF Update, Writing, Fresh, OrderInv
    <2>3. {history'.base} \cup history'.reports = Before \cup {new}
      BY <1>2, <1>t DEF Update
    <2>4. \A s \in Before \cup {new} : ~Lifecycle!Later(new, s)
      BY <1>0, <1>t, <2>1, <2>2 DEF Lifecycle!Later, Lifecycle!Stage, DeliveryStatus, Columns
    <2>. QED  BY <2>1, <2>3, <2>4 DEF Converged
  <1>3. CASE Reading /\ row' = row
    <2>1. CASE history' = history  BY <1>0, <1>3, <2>1 DEF Converged
    <2>2. ASSUME NEW p \in Posts, Find(p), history' # history PROVE Converged'
      <3>. DEFINE event == Head(post[p].events)
                  next == WebhookStatusMap[event.status]
      <3>1. next \in Columns  BY <2>2, MapType DEF Find, Usable
      <3>2. history' = [history EXCEPT !.reports = @ \cup {next}] /\ ~Applies(row.status, next)
        BY <2>2 DEF Find
      <3>. HIDE DEF next
      <3>3. ~Lifecycle!Later(row.status, next)  BY <1>t, <3>1, <3>2, AppliesIsLater
      <3>4. {history'.base} \cup history'.reports = Before \cup {next}  BY <1>t, <3>2
      <3>. QED  BY <1>0, <1>3, <3>3, <3>4 DEF Converged
    <2>. QED
      BY <1>3, <2>1, <2>2
      DEF Reading, SendStart, MetaAccepts, RecordLost, ReadFailed, RequeueFails, Receive, PassBy, Fault,
          Reply, Crash, vars
  <1>4. CASE Requeue  BY <1>4 DEF Requeue, OrderInv, RetryCounted
  <1>. QED  BY <1>1, <1>2, <1>3, <1>4, StepKinds

\* One webhook call at a time: until a retry the row ends at the furthest stage
\* reported, in whatever order the reports came in and however often.
THEOREM OrderedConverges ==
  ASSUME OneAtATime
  PROVE  Spec => []Converged
  <1>1. Init => OrderInv /\ Converged
    <2>1. Init => Converged
      BY DEF Init, Converged, Lifecycle!Later, Lifecycle!Stage
    <2>. QED  BY <2>1, OrderInit
  <1>2. OrderInv /\ Converged /\ [Next]_vars => OrderInv' /\ Converged'
    BY OrderStep, ConvergedStep
  <1>. QED  BY <1>1, <1>2, PTL DEF Spec
=============================================================================
