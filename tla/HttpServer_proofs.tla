-------------------------- MODULE HttpServer_proofs --------------------------
(***************************************************************************)
(* Proofs about HttpServer: the self-ping keeps the instance awake, a paid *)
(* route is paid for exactly when it delivers, and the method or function  *)
(* computed is the one asked for.                                          *)
(***************************************************************************)
EXTENDS HttpServer, TLAPS

-------------------------------------------------------------------------------
(***************************************************************************)
(* The self-ping                                                           *)
(***************************************************************************)

(* How long the instance has been without traffic, in each phase of the    *)
(* thread: the pause and the two timeouts of a ping add up.                *)
InTime ==
  /\ pinger.doing = "reading" => idle <= pinger.since
  /\ pinger.doing = "waiting" => idle <= Timeout + pinger.since
  /\ pinger.doing = "asking" => idle <= Timeout + Wait + pinger.since

PingerInv ==
  /\ idle \in Nat
  /\ pinger \in [doing : {"nothing", "asking", "reading", "waiting"}, since : Nat]
  /\ KeepAlive => pinger.doing # "nothing"
  /\ pinger.doing \in {"asking", "reading"} => pinger.since <= Timeout
  /\ pinger.doing = "waiting" => pinger.since <= Wait
  /\ KeepAlive /\ ~missed => InTime

LEMMA PingerInit == Init => PingerInv
<1> SUFFICES ASSUME Init PROVE PingerInv
    OBVIOUS
<1>1. /\ pinger = [doing |-> IF KeepAlive THEN "asking" ELSE "nothing", since |-> 0]
      /\ idle = 0
    BY DEF Init, Ping
<1>2. KeepAlive \in BOOLEAN /\ Wait \in Nat /\ Timeout \in Nat
    BY TimesAssumption
<1> QED BY <1>1, <1>2 DEF PingerInv, InTime

(* The handlers leave the platform and the thread alone. *)
LEMMA HandlersLeaveHost ==
  ASSUME \/ LoopTurn \/ CallReturns
         \/ \E c \in Clients :
              \/ BodyArrives(c) \/ ThreadAnswers(c)
              \/ FacilitatorVerifies(c) \/ PaymentLands(c) \/ FacilitatorSettles(c)
  PROVE  UNCHANGED host
<1>1. CASE LoopTurn
    BY <1>1 DEF LoopTurn, Challenge, AskFacilitator, Route, Handle, Usage, Deliver, Refuse, Turn
<1>2. CASE CallReturns
    BY <1>2 DEF CallReturns
<1>3. CASE \E c \in Clients :
              \/ BodyArrives(c) \/ ThreadAnswers(c)
              \/ FacilitatorVerifies(c) \/ PaymentLands(c) \/ FacilitatorSettles(c)
    BY <1>3 DEF BodyArrives, ThreadAnswers, FacilitatorVerifies, PaymentLands,
                FacilitatorSettles, FacilitatorAnswers, SettlementUnheard, Wake
<1> QED BY <1>1, <1>2, <1>3

LEMMA PingerStep == PingerInv /\ [Next]_vars => PingerInv'
<1> SUFFICES ASSUME PingerInv, [Next]_vars PROVE PingerInv'
    OBVIOUS
<1> USE TimesAssumption DEF PingerInv, InTime
<1>1. ASSUME NEW c \in Clients, NEW r \in Requests[c], Send(c, r) PROVE PingerInv'
  <2>1. CASE up
      BY <1>1, <2>1 DEF Send
  <2>2. CASE ~up
      BY <1>1, <2>2 DEF Send, Ping
  <2> QED BY <2>1, <2>2
<1>2. CASE UNCHANGED host
    BY <1>2 DEF host
<1>3. CASE PingArrives
    BY <1>3 DEF PingArrives
<1>4. CASE PingEnds
    BY <1>4 DEF PingEnds, Pause
<1>5. CASE PingFails
    BY <1>5 DEF PingFails, Pause
<1>6. CASE NextPing
    BY <1>6 DEF NextPing
<1>7. CASE Tick
  <2>1. idle' = idle + 1 /\ missed' = missed
      BY <1>7 DEF Tick
  <2>2. CASE pinger.doing = "nothing"
      BY <1>7, <2>1, <2>2 DEF Tick
  <2>3. CASE pinger.doing = "waiting"
      BY <1>7, <2>1, <2>3 DEF Tick
  <2>4. CASE pinger.doing \in {"asking", "reading"}
      BY <1>7, <2>1, <2>4 DEF Tick
  <2> QED BY <2>2, <2>3, <2>4
<1>8. CASE StopInstance
    BY <1>8 DEF StopInstance
<1>9. CASE UNCHANGED vars
    BY <1>2, <1>9 DEF vars
<1> QED BY <1>1, <1>2, <1>3, <1>4, <1>5, <1>6, <1>7, <1>8, <1>9, HandlersLeaveHost
        DEF Next, Host

(* The pinger's invariant holds throughout. *)
THEOREM PingerHolds == Spec => []PingerInv
BY PingerInit, PingerStep, PTL DEF Spec

(* While pings get through, the silences between them add up to less than  *)
(* the platform's limit, wherever in its round the thread is               *)
(* (server.py:291-309).                                                    *)
THEOREM KeptAwakeHolds == Spec => KeptAwake
<1>1. PingerInv /\ [Next]_vars => [KeepAlive /\ up /\ ~up' => missed]_vars
  <2> SUFFICES ASSUME PingerInv, Next, KeepAlive, up, ~up', ~missed PROVE FALSE
      BY DEF vars, host
  <2>1. idle < IdleLimit
      BY TimesAssumption DEF PingerInv, InTime
  <2>2. ~StopInstance
      BY <2>1, TimesAssumption DEF StopInstance, PingerInv
  <2>3. up' # up /\ up' # TRUE
      OBVIOUS
  <2>4. ~(UNCHANGED host)
      BY <2>3 DEF host
  <2>5. \A c \in Clients : \A r \in Requests[c] : ~Send(c, r)
      BY <2>3 DEF Send
  <2>6. ~Host
      BY <2>2, <2>3 DEF Host, PingArrives, PingEnds, PingFails, NextPing, Tick
  <2> QED BY <2>4, <2>5, <2>6, HandlersLeaveHost DEF Next
<1> QED BY <1>1, PingerHolds, PTL DEF Spec, KeptAwake

-------------------------------------------------------------------------------
(***************************************************************************)
(* Types, and the queue of the event loop                                  *)
(***************************************************************************)
Waits(q, c) == \E i \in DOMAIN q : q[i] = c
Distinct(q) == \A i, j \in DOMAIN q : q[i] = q[j] => i = j

LEMMA AppendQueue ==
  ASSUME NEW S, NEW q \in Seq(S), NEW c \in S, Distinct(q), ~Waits(q, c)
  PROVE  /\ Append(q, c) \in Seq(S)
         /\ Distinct(Append(q, c))
         /\ \A d : Waits(Append(q, c), d) <=> Waits(q, d) \/ d = c
<1>1. /\ Append(q, c) \in Seq(S) /\ Len(q) \in Nat
      /\ DOMAIN q = 1..Len(q) /\ DOMAIN Append(q, c) = 1..(Len(q) + 1)
      /\ \A i \in 1..Len(q) : Append(q, c)[i] = q[i]
      /\ Append(q, c)[Len(q) + 1] = c
    OBVIOUS
<1>2. \A i \in 1..(Len(q) + 1) : i \in 1..Len(q) \/ i = Len(q) + 1
    BY <1>1
<1>3. \A i \in 1..Len(q) : i \in 1..(Len(q) + 1) /\ q[i] # c
    BY <1>1 DEF Waits
<1>4. Len(q) + 1 \in 1..(Len(q) + 1)
    BY <1>1
<1>5. Distinct(Append(q, c))
    BY <1>1, <1>2, <1>3 DEF Distinct
<1>6. \A d : Waits(Append(q, c), d) <=> Waits(q, d) \/ d = c
    BY <1>1, <1>2, <1>3, <1>4 DEF Waits
<1> QED BY <1>1, <1>5, <1>6

LEMMA TailQueue ==
  ASSUME NEW S, NEW q \in Seq(S), q # <<>>, Distinct(q)
  PROVE  /\ Tail(q) \in Seq(S)
         /\ Distinct(Tail(q))
         /\ \A d : Waits(Tail(q), d) <=> Waits(q, d) /\ d # Head(q)
<1>1. /\ Tail(q) \in Seq(S) /\ Len(q) \in Nat /\ Len(q) > 0
      /\ DOMAIN q = 1..Len(q) /\ DOMAIN Tail(q) = 1..(Len(q) - 1)
      /\ \A i \in 1..(Len(q) - 1) : Tail(q)[i] = q[i + 1]
      /\ Head(q) = q[1]
    OBVIOUS
<1>2. \A i \in 1..(Len(q) - 1) : i + 1 \in 1..Len(q) /\ i + 1 # 1
    BY <1>1
<1>3. \A i \in 1..Len(q) : i = 1 \/ (i - 1 \in 1..(Len(q) - 1) /\ (i - 1) + 1 = i)
    BY <1>1
<1>4. Distinct(Tail(q))
    BY <1>1, <1>2 DEF Distinct
<1>5. 1 \in 1..Len(q)
    BY <1>1
<1>6. ASSUME NEW d PROVE Waits(Tail(q), d) <=> Waits(q, d) /\ d # Head(q)
  <2>1. ASSUME NEW i \in 1..(Len(q) - 1), q[i + 1] = d PROVE Waits(q, d) /\ d # Head(q)
      BY <1>1, <1>2, <1>5, <2>1 DEF Waits, Distinct
  <2>2. ASSUME NEW i \in 1..Len(q), q[i] = d, d # Head(q) PROVE Waits(Tail(q), d)
    <3>1. i - 1 \in 1..(Len(q) - 1) /\ (i - 1) + 1 = i
        BY <1>1, <1>3, <2>2
    <3>2. Tail(q)[i - 1] = d
        BY <1>1, <2>2, <3>1
    <3> QED BY <1>1, <3>1, <3>2 DEF Waits
  <2> QED BY <1>1, <2>1, <2>2 DEF Waits
<1> QED BY <1>1, <1>4, <1>6

(* Who is in the queue, and who holds the loop. *)
QueueInv ==
  /\ stage \in [Clients -> Stages]
  /\ ready \in Seq(Clients)
  /\ Distinct(ready)
  /\ busy \in Clients \cup {Nobody}
  /\ \A c \in Clients :
       /\ stage[c] \in Queued <=> Waits(ready, c)
       /\ stage[c] = "blocking" <=> busy = c

RequestInv ==
  /\ DOMAIN req = Clients /\ DOMAIN reply = Clients
  /\ {charged, unheard} \subseteq [Clients -> BOOLEAN]
  /\ \A c \in Clients :
       /\ stage[c] # "away" => req[c] \in Requests[c]
       /\ req[c] \in Requests[c] \cup {NoRequest}
       /\ reply[c].status \in Statuses

FlagsInv == up \in BOOLEAN /\ missed \in BOOLEAN

TimesInv ==
  /\ idle \in 0..IdleLimit
  /\ pinger \in [doing : {"nothing", "asking", "reading", "waiting"}, since : Nat]

HostInv == FlagsInv /\ TimesInv

TypeInv == QueueInv /\ RequestInv /\ HostInv

LEMMA TypeInvImpliesTypeOK == TypeInv => TypeOK
BY DEF TypeInv, QueueInv, RequestInv, HostInv, FlagsInv, TimesInv, TypeOK, Distinct, Waits

LEMMA TypeInit == Init => TypeInv
<1> SUFFICES ASSUME Init PROVE TypeInv
    OBVIOUS
<1>1. QueueInv
  <2>1. ready = <<>> /\ busy = Nobody /\ stage = [c \in Clients |-> "away"]
      BY DEF Init
  <2> QED BY <2>1, ClientsAssumption
          DEF QueueInv, Stages, Resting, Queued, Distinct, Waits
<1>2. RequestInv
  <2>1. /\ stage = [c \in Clients |-> "away"] /\ req = [c \in Clients |-> NoRequest]
        /\ reply = [c \in Clients |-> Bare(0)] /\ charged = [c \in Clients |-> FALSE]
        /\ unheard = [c \in Clients |-> FALSE]
      BY DEF Init
  <2>2. Bare(0).status \in Statuses
      BY DEF Bare, Reply, Statuses
  <2> QED BY <2>1, <2>2 DEF RequestInv
<1>3. HostInv
  <2>1. /\ up = TRUE /\ idle = 0 /\ missed = FALSE
        /\ pinger = [doing |-> IF KeepAlive THEN "asking" ELSE "nothing", since |-> 0]
      BY DEF Init, Ping
  <2>2. KeepAlive \in BOOLEAN /\ IdleLimit \in Nat
      BY TimesAssumption
  <2>3. FlagsInv
      BY <2>1 DEF FlagsInv
  <2>4. TimesInv
      BY <2>1, <2>2 DEF TimesInv
  <2> QED BY <2>3, <2>4 DEF HostInv
<1> QED BY <1>1, <1>2, <1>3 DEF TypeInv

(* A client that joins the queue, and one whose turn it is. *)
LEMMA Joins ==
  ASSUME QueueInv, NEW c \in Clients, NEW s \in Queued, Move(c, s),
         stage[c] \notin Queued \cup {"blocking"},
         ready' = Append(ready, c), busy' = busy
  PROVE  QueueInv'
<1>1. ~Waits(ready, c)
    BY DEF QueueInv
<1>2. /\ ready' \in Seq(Clients) /\ Distinct(ready')
      /\ \A d : Waits(ready', d) <=> Waits(ready, d) \/ d = c
    BY <1>1, AppendQueue DEF QueueInv
<1>3. /\ stage' \in [Clients -> Stages] /\ stage'[c] = s
      /\ \A d \in Clients \ {c} : stage'[d] = stage[d]
    BY DEF QueueInv, Move, Stages
<1>4. s # "blocking" /\ busy # c
    BY DEF QueueInv, Queued
<1> QED BY <1>2, <1>3, <1>4 DEF QueueInv

LEMMA Leaves ==
  ASSUME QueueInv, NEW c \in Clients, NEW s \in Stages \ Queued, Move(c, s),
         busy = Nobody, ready # <<>>, c = Head(ready), ready' = Tail(ready),
         busy' = IF s = "blocking" THEN c ELSE Nobody
  PROVE  QueueInv'
<1>1. /\ ready' \in Seq(Clients) /\ Distinct(ready')
      /\ \A d : Waits(ready', d) <=> Waits(ready, d) /\ d # c
    BY TailQueue DEF QueueInv
<1>2. /\ stage' \in [Clients -> Stages] /\ stage'[c] = s
      /\ \A d \in Clients \ {c} : stage'[d] = stage[d]
    BY DEF QueueInv, Move
<1>3. Nobody \notin Clients
    BY ClientsAssumption
<1> QED BY <1>1, <1>2, <1>3 DEF QueueInv

(* Steps that change neither the queue nor who holds the loop. *)
LEMMA Stays ==
  ASSUME QueueInv, NEW c \in Clients, NEW s \in Stages \ (Queued \cup {"blocking"}), Move(c, s),
         stage[c] \notin Queued, ready' = ready,
         busy' = IF stage[c] = "blocking" THEN Nobody ELSE busy
  PROVE  QueueInv'
<1>1. /\ stage' \in [Clients -> Stages] /\ stage'[c] = s
      /\ \A d \in Clients \ {c} : stage'[d] = stage[d]
    BY DEF QueueInv, Move
<1>2. CASE stage[c] = "blocking"
  <2>1. busy = c /\ busy' = Nobody
      BY <1>2 DEF QueueInv
  <2> QED BY <1>1, <2>1, ClientsAssumption DEF QueueInv
<1>3. CASE stage[c] # "blocking"
  <2>1. busy # c /\ busy' = busy
      BY <1>3 DEF QueueInv
  <2> QED BY <1>1, <2>1 DEF QueueInv
<1> QED BY <1>2, <1>3

LEMMA StatusOfComputed == \A r : Computed(r).status = 200
BY DEF Computed, Bare, Reply

(* What Finish does to the request, and where it moves the client. *)
LEMMA Finishes ==
  ASSUME TypeInv, NEW c \in Clients, NEW answer, Finish(c, answer),
         stage[c] # "away", answer.status \in {200, 400, 500}
  PROVE  /\ RequestInv'
         /\ \E s \in {"settling", "answered"} : Move(c, s)
<1>1. /\ reply' = [reply EXCEPT ![c] = answer] /\ req' = req /\ charged' = charged /\ unheard' = unheard
      /\ Move(c, IF Gated(req[c]) /\ answer.status < 400 THEN "settling" ELSE "answered")
    BY DEF Finish, payment
<1>2. stage' = [stage EXCEPT ![c] = IF Gated(req[c]) /\ answer.status < 400
                                    THEN "settling" ELSE "answered"]
    BY <1>1 DEF Move
<1>3. \A d \in Clients : stage'[d] # "away" => stage[d] # "away"
    BY <1>2 DEF TypeInv, QueueInv
<1>4. RequestInv'
    BY <1>1, <1>3 DEF TypeInv, RequestInv, Statuses
<1> QED BY <1>1, <1>4

LEMMA TypeStep == TypeInv /\ [Next]_vars => TypeInv'
<1> SUFFICES ASSUME TypeInv, [Next]_vars PROVE TypeInv'
    OBVIOUS
<1> USE DEF TypeInv
<1>1. ASSUME NEW c \in Clients, NEW r \in Requests[c], Send(c, r) PROVE TypeInv'
  <2>1. QueueInv'
      BY <1>1, Joins DEF Send, Move, Resting, Queued
  <2>2. RequestInv'
    <3>1. /\ req' = [req EXCEPT ![c] = r] /\ reply' = [reply EXCEPT ![c] = Bare(0)]
          /\ charged' = [charged EXCEPT ![c] = FALSE]
          /\ unheard' = [unheard EXCEPT ![c] = FALSE]
          /\ stage' = [stage EXCEPT ![c] = "arrived"]
        BY <1>1 DEF Send
    <3>2. Bare(0).status = 0
        BY DEF Bare, Reply
    <3> QED BY <3>1, <3>2 DEF RequestInv, QueueInv, Statuses
  <2>3. HostInv'
    <3>1. FlagsInv'
        BY <1>1 DEF Send, FlagsInv
    <3>2. TimesInv'
      <4>1. /\ idle' = 0
            /\ \/ pinger' = pinger
               \/ pinger' = [doing |-> IF KeepAlive THEN "asking" ELSE "nothing", since |-> 0]
          BY <1>1 DEF Send, Ping
      <4>2. IdleLimit \in Nat
          BY TimesAssumption
      <4> QED BY <4>1, <4>2 DEF HostInv, TimesInv
    <3> QED BY <3>1, <3>2 DEF HostInv
  <2> QED BY <2>1, <2>2, <2>3
<1>2. CASE LoopTurn
  <2> SUFFICES ASSUME NEW c \in Clients,
                      \/ Challenge(c) \/ AskFacilitator(c) \/ Route(c) \/ Handle(c)
                      \/ Usage(c) \/ Deliver(c) \/ Refuse(c)
               PROVE  TypeInv'
      BY <1>2 DEF LoopTurn
  <2>1. UNCHANGED host /\ HostInv'
      BY <1>2, HandlersLeaveHost DEF host, HostInv, FlagsInv, TimesInv
  <2>2. /\ busy = Nobody /\ ready # <<>> /\ c = Head(ready) /\ ready' = Tail(ready)
        /\ stage[c] # "away"
      BY DEF Challenge, AskFacilitator, Route, Handle, Usage, Deliver, Refuse, Turn
  <2>3. Bare(402).status = 402 /\ Bare(400).status = 400 /\ Bare(500).status = 500
        /\ Bare(200).status = 200
      BY DEF Bare, Reply
  <2>4. \A s \in Stages : Move(c, s) =>
          \A d \in Clients : stage'[d] # "away" => stage[d] # "away"
      BY <2>2 DEF Move, QueueInv
  <2>5. CASE (Challenge(c) \/ Refuse(c))
    <3>1. /\ Move(c, "answered") /\ busy' = busy /\ req' = req /\ UNCHANGED payment
          /\ reply' = [reply EXCEPT ![c] = Bare(402)]
        BY <2>5 DEF Challenge, Refuse
    <3>2. "answered" \in Stages \ Queued
        BY DEF Stages, Resting, Queued
    <3>3. QueueInv'
        BY <2>2, <3>1, <3>2, Leaves
    <3>4. RequestInv'
        BY <2>3, <2>4, <3>1, <3>2 DEF RequestInv, Statuses, payment
    <3> QED BY <2>1, <3>3, <3>4
  <2>6. CASE (AskFacilitator(c) \/ Route(c) \/ Deliver(c))
    <3>1. PICK s \in {"verifying", "pool", "body", "answered"} : Move(c, s)
        BY <2>6 DEF AskFacilitator, Route, AwaitBody, Deliver
    <3>2. busy' = busy /\ UNCHANGED calls
        BY <2>6 DEF AskFacilitator, Route, AwaitBody, Deliver
    <3>3. s \in Stages \ Queued /\ s # "blocking"
        BY <3>1 DEF Stages, Resting, Queued
    <3>4. QueueInv'
        BY <2>2, <3>1, <3>2, <3>3, Leaves
    <3>5. RequestInv'
        BY <2>4, <3>1, <3>2, <3>3 DEF RequestInv, calls, payment
    <3> QED BY <2>1, <3>4, <3>5
  <2>7. CASE (Handle(c) \/ Usage(c))
    <3>1. CASE \E answer : Finish(c, answer) /\ answer.status \in {200, 400, 500} /\ busy' = busy
      <4>1. RequestInv' /\ \E s \in {"settling", "answered"} : Move(c, s)
          BY <2>2, <3>1, Finishes
      <4>2. {"settling", "answered"} \subseteq Stages \ Queued
          BY DEF Stages, Resting, Queued
      <4>3. QueueInv'
          BY <2>2, <3>1, <4>1, <4>2, Leaves
      <4> QED BY <2>1, <4>1, <4>3
    <3>2. CASE Move(c, "blocking") /\ busy' = c /\ UNCHANGED calls
      <4>1. "blocking" \in Stages \ Queued
          BY DEF Stages, Resting, Queued
      <4>2. QueueInv'
          BY <2>2, <3>2, <4>1, Leaves
      <4>3. RequestInv'
          BY <2>4, <3>2, <4>1 DEF RequestInv, calls, payment
      <4> QED BY <2>1, <4>2, <4>3
    <3> QED BY <2>3, <2>7, <3>1, <3>2, StatusOfComputed DEF Handle, Usage
  <2> QED BY <2>5, <2>6, <2>7
<1>3. CASE CallReturns
  <2>1. busy \in Clients /\ stage[busy] = "blocking"
      BY <1>3 DEF CallReturns, QueueInv
  <2>2. Bare(500).status = 500
      BY DEF Bare, Reply
  <2>3. PICK answer : Finish(busy, answer) /\ answer.status \in {200, 400, 500}
      BY <1>3, <2>2, StatusOfComputed DEF CallReturns
  <2>4. RequestInv' /\ \E s \in {"settling", "answered"} : Move(busy, s)
      BY <2>1, <2>3, Finishes
  <2>5. {"settling", "answered"} \subseteq Stages \ (Queued \cup {"blocking"})
      BY DEF Stages, Resting, Queued
  <2>6. "blocking" \notin Queued
      BY DEF Queued
  <2>7. QueueInv'
      BY <1>3, <2>1, <2>4, <2>5, <2>6, Stays DEF CallReturns
  <2>8. HostInv'
      BY <1>3 DEF CallReturns, host, HostInv, FlagsInv, TimesInv
  <2> QED BY <2>4, <2>7, <2>8
<1>4. ASSUME NEW c \in Clients,
             \/ BodyArrives(c) \/ ThreadAnswers(c)
             \/ FacilitatorVerifies(c) \/ FacilitatorSettles(c)
      PROVE  TypeInv'
  <2>1. PICK from \in {"body", "pool", "verifying", "settling"},
             to \in {"read", "pooled", "verified", "rejected", "settled"} : Wake(c, from, to)
      BY <1>4 DEF BodyArrives, ThreadAnswers, FacilitatorVerifies, FacilitatorSettles,
                  FacilitatorAnswers, SettlementUnheard
  <2>2. /\ charged' = charged
        /\ unheard' = unheard \/ unheard' = [unheard EXCEPT ![c] = TRUE]
      BY <1>4 DEF BodyArrives, ThreadAnswers, FacilitatorVerifies, FacilitatorSettles,
                  FacilitatorAnswers, SettlementUnheard, payment
  <2>3. /\ stage[c] = from /\ Move(c, to) /\ ready' = Append(ready, c)
        /\ req' = req /\ reply' = reply /\ busy' = busy /\ UNCHANGED host
      BY <2>1 DEF Wake
  <2>4. to \in Queued /\ from \notin Queued \cup {"blocking"} /\ from # "away"
      BY <2>1 DEF Queued
  <2>5. QueueInv'
      BY <2>3, <2>4, Joins
  <2>6. \A d \in Clients : stage'[d] # "away" => stage[d] # "away"
      BY <2>3, <2>4 DEF Move, QueueInv
  <2>7. RequestInv'
    <3>1. {charged', unheard'} \subseteq [Clients -> BOOLEAN]
        BY <2>2 DEF RequestInv
    <3> QED BY <2>3, <2>6, <3>1 DEF RequestInv
  <2>8. HostInv'
      BY <2>3 DEF host, HostInv, FlagsInv, TimesInv
  <2> QED BY <2>5, <2>7, <2>8
<1>8. ASSUME NEW c \in Clients, PaymentLands(c) PROVE TypeInv'
  <2>1. UNCHANGED <<stage, req, reply, unheard, loop, host>>
      BY <1>8 DEF PaymentLands
  <2>2. charged' \in [Clients -> BOOLEAN]
      BY <1>8 DEF PaymentLands, RequestInv
  <2>3. RequestInv'
      BY <2>1, <2>2 DEF RequestInv
  <2>4. QueueInv' /\ HostInv'
      BY <2>1 DEF loop, host, QueueInv, HostInv, FlagsInv, TimesInv
  <2> QED BY <2>3, <2>4
<1>5. CASE PingArrives \/ PingEnds \/ PingFails \/ NextPing \/ Tick
  <2>1. UNCHANGED http
      BY <1>5 DEF PingArrives, PingEnds, PingFails, NextPing, Tick
  <2>2. QueueInv'
      BY <2>1 DEF http, loop, QueueInv
  <2>3. RequestInv'
      BY <2>1 DEF http, calls, payment, RequestInv
  <2>4. FlagsInv'
      BY <1>5 DEF HostInv, FlagsInv, PingArrives, PingEnds, PingFails, NextPing, Tick
  <2>5. TimesInv'
    <3>1. IdleLimit \in Nat
        BY TimesAssumption
    <3>2. CASE Tick
        BY <3>1, <3>2 DEF HostInv, TimesInv, Tick
    <3>3. CASE PingArrives \/ PingEnds \/ PingFails \/ NextPing
        BY <3>1, <3>3
        DEF HostInv, TimesInv, PingArrives, PingEnds, PingFails, Pause, NextPing
    <3> QED BY <1>5, <3>2, <3>3
  <2> QED BY <2>2, <2>3, <2>4, <2>5 DEF HostInv
<1>6. CASE StopInstance
  <2>1. /\ stage' = [c \in Clients |-> IF stage[c] \in Resting THEN stage[c] ELSE "lost"]
        /\ ready' = <<>> /\ busy' = Nobody /\ UNCHANGED <<req, reply, charged>>
        /\ unheard' = [c \in Clients |-> unheard[c] \/ stage[c] = "settling"]
        /\ up' = FALSE /\ UNCHANGED <<idle, pinger, missed>>
      BY <1>6 DEF StopInstance
  <2>2. \A c \in Clients : stage'[c] \in Resting
      BY <2>1 DEF Resting
  <2>3. QueueInv'
      BY <2>1, <2>2, ClientsAssumption
      DEF QueueInv, Stages, Resting, Queued, Distinct, Waits
  <2>4. RequestInv'
    <3>1. unheard' \in [Clients -> BOOLEAN]
        BY <2>1 DEF RequestInv
    <3>2. \A c \in Clients : stage'[c] # "away" => stage[c] # "away"
        BY <2>1 DEF Resting
    <3> QED BY <2>1, <3>1, <3>2 DEF RequestInv
  <2>5. HostInv'
      BY <2>1 DEF HostInv, FlagsInv, TimesInv
  <2> QED BY <2>3, <2>4, <2>5
<1>7. CASE UNCHANGED vars
    BY <1>7 DEF vars, calls, payment, loop, host, QueueInv, RequestInv, HostInv, FlagsInv, TimesInv
<1> QED BY <1>1, <1>2, <1>3, <1>4, <1>5, <1>6, <1>7, <1>8 DEF Next, Host

(* So do the types, the queue and the turns. *)
THEOREM TypesHold == Spec => []TypeInv
BY TypeInit, TypeStep, PTL DEF Spec

(* Whatever clients send, a request waits in the queue exactly while it is *)
(* one of the loop's turns, once, and at most one handler holds the loop.  *)
THEOREM TypeCorrect == Spec => []TypeOK
BY TypesHold, TypeInvImpliesTypeOK, PTL

-------------------------------------------------------------------------------
(***************************************************************************)
(* Payment                                                                 *)
(***************************************************************************)

(* On the way to the handler: if the route is gated, payment is verified.  *)
Admitted == {"verifying", "verified", "body", "read", "pool", "pooled", "blocking"}

(* Where a request's payment stands, by the stage the request has reached. *)
PaymentOf(c) ==
  /\ stage[c] \in Admitted /\ Gated(req[c]) => req[c].pays
  /\ stage[c] = "verifying" => Gated(req[c])
  /\ stage[c] = "settling" => Gated(req[c]) /\ req[c].pays /\ reply[c].status = 200
  /\ stage[c] = "settled" => charged[c]
  /\ charged[c] \/ unheard[c] => Gated(req[c]) /\ req[c].pays
  /\ charged[c] /\ ~unheard[c] =>
       stage[c] \in {"settling", "settled", "answered", "lost"} /\ reply[c].status = 200
  /\ unheard[c] =>
       /\ stage[c] \in {"rejected", "answered", "lost"}
       /\ reply[c].status = IF stage[c] = "answered" THEN 402 ELSE 200
  /\ stage[c] = "answered" /\ reply[c].status = 200 /\ Gated(req[c]) => charged[c]

PaymentInv == \A c \in Clients : PaymentOf(c)

(* What the step of one client leaves alone of the others. *)
OthersKeep(c) ==
  \A d \in Clients \ {c} :
    /\ stage'[d] = stage[d] /\ req'[d] = req[d] /\ reply'[d] = reply[d]
    /\ charged'[d] = charged[d] /\ unheard'[d] = unheard[d]

LEMMA PaymentInit == Init => PaymentInv
BY DEF Init, PaymentInv, PaymentOf, Admitted

(* A step of one client preserves the invariant if it does so for him. *)
LEMMA OneClient ==
  ASSUME PaymentInv, NEW c \in Clients, OthersKeep(c), PaymentOf(c)'
  PROVE  PaymentInv'
<1> SUFFICES ASSUME NEW d \in Clients, d # c PROVE PaymentOf(d)'
    BY DEF PaymentInv
<1>1. PaymentOf(d)
    BY DEF PaymentInv
<1> QED BY <1>1 DEF OthersKeep, PaymentOf

(* A reply below 400 to a gated request waits for settlement. *)
LEMMA FinishPays ==
  ASSUME TypeInv, PaymentInv, NEW c \in Clients, NEW answer, Finish(c, answer),
         stage[c] \in Admitted, answer.status \in {200, 400, 500}
  PROVE  PaymentInv'
<1>1. OthersKeep(c)
    BY DEF Finish, Move, OthersKeep, TypeInv, QueueInv, RequestInv, payment
<1>2. /\ reply'[c] = answer /\ req'[c] = req[c]
      /\ charged'[c] = charged[c] /\ unheard'[c] = unheard[c]
      /\ stage'[c] = IF Gated(req[c]) /\ answer.status < 400 THEN "settling" ELSE "answered"
    BY DEF Finish, Move, TypeInv, QueueInv, RequestInv, payment
<1>3. PaymentOf(c)
    BY DEF PaymentInv
<1>4. ~charged[c] /\ ~unheard[c]
    BY <1>3 DEF PaymentOf, Admitted
<1>5. PaymentOf(c)'
    BY <1>2, <1>3, <1>4 DEF PaymentOf, Admitted
<1> QED BY <1>1, <1>5, OneClient

(* A step that moves a client on and changes nothing of his request. *)
LEMMA MovePays ==
  ASSUME TypeInv, PaymentInv, NEW c \in Clients, UNCHANGED calls,
         NEW s \in Admitted \cup {"rejected", "answered"}, Move(c, s), ~unheard[c],
         s # "answered" => ~charged[c],
         s = "answered" => charged[c],
         s \in Admitted /\ Gated(req[c]) => req[c].pays,
         s = "verifying" => Gated(req[c])
  PROVE  PaymentInv'
<1>1. OthersKeep(c)
    BY DEF Move, OthersKeep, TypeInv, QueueInv, calls, payment
<1>2. stage'[c] = s /\ UNCHANGED <<req, reply, charged, unheard>>
    BY DEF Move, TypeInv, QueueInv, calls, payment
<1>3. PaymentOf(c)
    BY DEF PaymentInv
<1>4. PaymentOf(c)'
    BY <1>2, <1>3 DEF PaymentOf, Admitted
<1> QED BY <1>1, <1>4, OneClient

(* A refusal changes nothing of what was paid. *)
LEMMA RefusalPays ==
  ASSUME TypeInv, PaymentInv, NEW c \in Clients, Move(c, "answered"),
         stage[c] \in {"arrived", "rejected"},
         reply' = [reply EXCEPT ![c] = Bare(402)], UNCHANGED <<req, payment>>
  PROVE  PaymentInv'
<1>1. OthersKeep(c)
    BY DEF Move, OthersKeep, TypeInv, QueueInv, RequestInv, payment
<1>2. /\ stage'[c] = "answered" /\ reply'[c].status = 402
      /\ UNCHANGED <<req, charged, unheard>>
    BY DEF Move, TypeInv, QueueInv, RequestInv, Bare, Reply, payment
<1>3. charged[c] => unheard[c]
    BY DEF PaymentInv, PaymentOf
<1>4. PaymentOf(c)
    BY DEF PaymentInv
<1>5. PaymentOf(c)'
    BY <1>2, <1>3, <1>4 DEF PaymentOf, Admitted
<1> QED BY <1>1, <1>5, OneClient

LEMMA PaymentStep == TypeInv /\ PaymentInv /\ [Next]_vars => PaymentInv'
<1> SUFFICES ASSUME TypeInv, PaymentInv, [Next]_vars PROVE PaymentInv'
    OBVIOUS
<1>a. \A c \in Clients : PaymentOf(c) /\ charged[c] \in BOOLEAN /\ unheard[c] \in BOOLEAN
    BY DEF PaymentInv, TypeInv, RequestInv
<1>b. \A c \in Clients : stage[c] \in Admitted \cup {"arrived"} => ~charged[c] /\ ~unheard[c]
    BY <1>a DEF PaymentOf, Admitted
<1>1. ASSUME NEW c \in Clients, NEW r \in Requests[c], Send(c, r) PROVE PaymentInv'
  <2>1. OthersKeep(c)
      BY <1>1 DEF Send, OthersKeep, TypeInv, QueueInv, RequestInv
  <2>2. stage'[c] = "arrived" /\ ~charged'[c] /\ ~unheard'[c]
      BY <1>1 DEF Send, TypeInv, QueueInv, RequestInv
  <2>3. PaymentOf(c)'
      BY <2>2 DEF PaymentOf, Admitted
  <2> QED BY <2>1, <2>3, OneClient
<1>2. ASSUME NEW c \in Clients, Challenge(c) \/ Refuse(c) PROVE PaymentInv'
  <2>1. stage[c] \in {"arrived", "rejected"}
      BY <1>2 DEF Challenge, Refuse, Turn
  <2>2. /\ Move(c, "answered") /\ UNCHANGED <<req, payment>>
        /\ reply' = [reply EXCEPT ![c] = Bare(402)]
      BY <1>2 DEF Challenge, Refuse
  <2> QED BY <2>1, <2>2, RefusalPays
<1>3. ASSUME NEW c \in Clients, AskFacilitator(c) PROVE PaymentInv'
  <2>1. /\ stage[c] = "arrived" /\ Gated(req[c]) /\ req[c].pays
        /\ Move(c, "verifying") /\ UNCHANGED calls
      BY <1>3 DEF AskFacilitator, Turn
  <2> QED BY <1>b, <2>1, MovePays DEF Admitted
<1>4. ASSUME NEW c \in Clients, Route(c) PROVE PaymentInv'
  <2>1. /\ stage[c] = "verified" \/ (stage[c] = "arrived" /\ ~Gated(req[c]))
        /\ UNCHANGED calls
      BY <1>4 DEF Route, Turn
  <2>2. PICK s \in {"pool", "body"} : Move(c, s)
      BY <1>4 DEF Route, AwaitBody
  <2>3. ~charged[c] /\ ~unheard[c] /\ (Gated(req[c]) => req[c].pays)
      BY <1>a, <1>b, <2>1 DEF PaymentOf, Admitted
  <2> QED BY <2>1, <2>2, <2>3, MovePays DEF Admitted
<1>5. ASSUME NEW c \in Clients, Handle(c) \/ Usage(c) PROVE PaymentInv'
  <2>1. stage[c] \in Admitted
      BY <1>5 DEF Handle, Usage, Turn, Admitted
  <2>2. Bare(400).status = 400 /\ Bare(500).status = 500 /\ Bare(200).status = 200
      BY DEF Bare, Reply
  <2>3. CASE \E answer : Finish(c, answer) /\ answer.status \in {200, 400, 500}
      BY <2>1, <2>3, FinishPays
  <2>4. CASE Move(c, "blocking") /\ UNCHANGED calls
    <3>1. ~charged[c] /\ ~unheard[c] /\ (Gated(req[c]) => req[c].pays)
        BY <1>a, <1>b, <2>1 DEF PaymentOf, Admitted
    <3> QED BY <2>4, <3>1, MovePays DEF Admitted
  <2> QED BY <1>5, <2>2, <2>3, <2>4, StatusOfComputed DEF Handle, Usage
<1>6. ASSUME NEW c \in Clients, Deliver(c) PROVE PaymentInv'
  <2>1. stage[c] = "settled" /\ Move(c, "answered") /\ UNCHANGED calls
      BY <1>6 DEF Deliver, Turn
  <2>2. charged[c] /\ ~unheard[c]
      BY <1>a, <2>1 DEF PaymentOf
  <2> QED BY <2>1, <2>2, MovePays DEF Admitted
<1>7. CASE CallReturns
  <2>1. busy \in Clients /\ stage[busy] \in Admitted
      BY <1>7 DEF CallReturns, TypeInv, QueueInv, Admitted
  <2>2. Bare(500).status = 500
      BY DEF Bare, Reply
  <2>3. PICK answer : Finish(busy, answer) /\ answer.status \in {200, 400, 500}
      BY <1>7, <2>2, StatusOfComputed DEF CallReturns
  <2> QED BY <2>1, <2>3, FinishPays
<1>8. ASSUME NEW c \in Clients,
             BodyArrives(c) \/ ThreadAnswers(c) \/ FacilitatorVerifies(c)
      PROVE  PaymentInv'
  <2>1. PICK from \in {"body", "pool", "verifying"},
             to \in {"read", "pooled", "verified", "rejected"} : Wake(c, from, to)
      BY <1>8 DEF BodyArrives, ThreadAnswers, FacilitatorVerifies
  <2>2. stage[c] \in Admitted /\ Move(c, to) /\ UNCHANGED calls
      BY <1>8, <2>1
      DEF BodyArrives, ThreadAnswers, FacilitatorVerifies, Wake, calls, Admitted
  <2>3. ~charged[c] /\ ~unheard[c] /\ (Gated(req[c]) => req[c].pays)
      BY <1>a, <1>b, <2>2 DEF PaymentOf, Admitted
  <2> QED BY <2>1, <2>2, <2>3, MovePays DEF Admitted
<1>9. ASSUME NEW c \in Clients, FacilitatorSettles(c) PROVE PaymentInv'
  <2>1. /\ stage[c] = "settling" /\ UNCHANGED <<req, reply, charged>>
        /\ \/ Move(c, IF charged[c] THEN "settled" ELSE "rejected") /\ unheard' = unheard
           \/ Move(c, "rejected") /\ unheard' = [unheard EXCEPT ![c] = TRUE]
      BY <1>9 DEF FacilitatorSettles, FacilitatorAnswers, SettlementUnheard, Wake, payment
  <2>2. OthersKeep(c)
      BY <2>1 DEF Move, OthersKeep, TypeInv, QueueInv, RequestInv
  <2>3. \/ stage'[c] = "settled" /\ charged[c] /\ unheard'[c] = unheard[c]
        \/ stage'[c] = "rejected" /\ ~charged[c] /\ unheard'[c] = unheard[c]
        \/ stage'[c] = "rejected" /\ unheard'[c]
      BY <2>1 DEF Move, TypeInv, QueueInv, RequestInv
  <2>4. PaymentOf(c)'
      BY <1>a, <2>1, <2>3 DEF PaymentOf, Admitted
  <2> QED BY <2>2, <2>4, OneClient
<1>10. ASSUME NEW c \in Clients, PaymentLands(c) PROVE PaymentInv'
  <2>1. /\ stage[c] = "settling" \/ unheard[c]
        /\ charged' = [charged EXCEPT ![c] = TRUE] /\ UNCHANGED <<stage, req, reply, unheard>>
      BY <1>10 DEF PaymentLands
  <2>2. OthersKeep(c) /\ charged'[c]
      BY <2>1 DEF OthersKeep, TypeInv, RequestInv
  <2>3. PaymentOf(c)'
      BY <1>a, <2>1, <2>2 DEF PaymentOf, Admitted
  <2> QED BY <2>2, <2>3, OneClient
<1>11. CASE StopInstance
  <2>1. /\ UNCHANGED <<req, reply, charged>>
        /\ \A c \in Clients : stage'[c] = IF stage[c] \in Resting THEN stage[c] ELSE "lost"
        /\ \A c \in Clients : unheard'[c] = (unheard[c] \/ stage[c] = "settling")
      BY <1>11 DEF StopInstance
  <2> SUFFICES ASSUME NEW c \in Clients PROVE PaymentOf(c)'
      BY DEF PaymentInv
  <2>2. CASE stage[c] \in Resting
      BY <1>a, <2>1, <2>2 DEF PaymentOf, Admitted, Resting
  <2>3. CASE stage[c] \notin Resting
    <3>1. stage'[c] = "lost" /\ unheard'[c] = (unheard[c] \/ stage[c] = "settling")
        BY <2>1, <2>3
    <3> QED BY <1>a, <2>1, <2>3, <3>1 DEF PaymentOf, Admitted, Resting
  <2> QED BY <2>2, <2>3
<1>12. CASE UNCHANGED <<stage, calls>>
    BY <1>12 DEF calls, payment, PaymentInv, PaymentOf
<1> QED BY <1>1, <1>2, <1>3, <1>4, <1>5, <1>6, <1>7, <1>8, <1>9, <1>10, <1>11, <1>12
    DEF Next, LoopTurn, Host, PingArrives, PingEnds, PingFails, NextPing, Tick, http, vars

LEMMA PaymentIsCharge == TypeInv /\ PaymentInv => ChargedForDelivery
<1> SUFFICES ASSUME TypeInv, PaymentInv, NEW c \in Clients
             PROVE  /\ stage[c] = "settling" => reply[c].status = 200
                    /\ charged[c] =>
                         /\ req[c].path \in PaidPaths /\ req[c].pays
                         /\ reply[c].status = 200 \/ (reply[c].status = 402 /\ unheard[c])
                    /\ stage[c] = "answered" /\ reply[c].status = 200 =>
                         (charged[c] <=> req[c].path \in PaidPaths)
    BY DEF ChargedForDelivery
<1>1. PaymentOf(c) /\ unheard[c] \in BOOLEAN
    BY DEF PaymentInv, TypeInv, RequestInv
<1>2. ASSUME stage[c] = "answered" PROVE Gated(req[c]) <=> req[c].path \in PaidPaths
  <2>1. req[c].verb \in {"GET", "POST"}
      BY <1>2, RequestsAssumption DEF TypeInv, RequestInv, Served
  <2> QED BY <2>1 DEF Gated, Routes
<1>3. Gated(req[c]) => req[c].path \in PaidPaths
    BY DEF Gated, Routes
<1> QED BY <1>1, <1>2, <1>3 DEF PaymentOf

(* So does what payment rests on. *)
THEOREM PaymentHolds == Spec => []PaymentInv
BY TypesHold, PaymentInit, PaymentStep, PTL DEF Spec

(* For any clients and whatever they send, the answers to settlements lost *)
(* or not: a payment lands only for a paid request to a gated route that a *)
(* handler has answered, no reply of a gated route goes out unpaid, and a  *)
(* refusal is paid for only if a settlement's answer was lost              *)
(* (server.py:208-209, 232-242, 285).                                      *)
THEOREM ChargedHolds == Spec => []ChargedForDelivery
BY TypesHold, PaymentHolds, PaymentIsCharge, PTL

-------------------------------------------------------------------------------
(***************************************************************************)
(* What is computed                                                        *)
(***************************************************************************)
(* A bare body keeps what is not a meta key in "raw" and the rest beside.  *)
LEMMA WrappedBare ==
  ASSUME NEW body, "raw" \notin DOMAIN body
  PROVE  /\ "function" \in DOMAIN Wrapped(body).raw <=> "function" \in DOMAIN body
         /\ "function" \in DOMAIN body => Wrapped(body).raw["function"] = body["function"]
         /\ "method" \notin DOMAIN Wrapped(body).raw
         /\ "method" \in DOMAIN Wrapped(body) <=> "method" \in DOMAIN body
         /\ "method" \in DOMAIN body => Wrapped(body)["method"] = body["method"]
<1>1. Wrapped(body) = [k \in (DOMAIN body \cap MetaKeys) \cup {"raw"} |->
                         IF k = "raw" THEN [j \in DOMAIN body \ MetaKeys |-> body[j]]
                         ELSE body[k]]
    BY DEF Wrapped, With, Restrict
<1>2. Wrapped(body).raw = [j \in DOMAIN body \ MetaKeys |-> body[j]]
    BY <1>1
<1>3. /\ DOMAIN Wrapped(body) = (DOMAIN body \cap MetaKeys) \cup {"raw"}
      /\ "method" \in DOMAIN body => Wrapped(body)["method"] = body["method"]
    BY <1>1 DEF MetaKeys
<1> QED BY <1>2, <1>3 DEF MetaKeys

LEMMA ForcedFields ==
  \A f \in Forced :
    /\ \/ f.path[1] = "encode" /\ f.field = "function"
       \/ f.path[1] = "lots" /\ f.field = "method"
    /\ f.value # ""
<1>1. \A e : <<"encode", e>>[1] = "encode" /\ <<"lots", e>>[1] = "lots"
    OBVIOUS
<1>4. \A e \in EncodeFunctions : e[2] # ""
  <2>1. \A a, b : b # "" => <<a, b>>[2] # ""
      OBVIOUS
  <2> QED BY <2>1, Zenon DEF EncodeFunctions
<1>5. \A l \in LotsMethods : l[2] # ""
  <2>1. \A a, b : b # "" => <<a, b>>[2] # ""
      OBVIOUS
  <2> QED BY <2>1, Zenon DEF LotsMethods
<1>2. ASSUME NEW f \in {[path |-> <<"encode", e[1]>>, field |-> "function", value |-> e[2]] :
                        e \in EncodeFunctions}
      PROVE  f.path[1] = "encode" /\ f.field = "function" /\ f.value # ""
  <2>1. PICK e \in EncodeFunctions :
          f = [path |-> <<"encode", e[1]>>, field |-> "function", value |-> e[2]]
      OBVIOUS
  <2> QED BY <1>1, <1>4, <2>1
<1>3. ASSUME NEW f \in {[path |-> <<"lots", l[1]>>, field |-> "method", value |-> l[2]] :
                        l \in LotsMethods}
      PROVE  f.path[1] = "lots" /\ f.field = "method" /\ f.value # ""
  <2>1. PICK l \in LotsMethods :
          f = [path |-> <<"lots", l[1]>>, field |-> "method", value |-> l[2]]
      OBVIOUS
  <2> QED BY <1>1, <1>5, <2>1
<1> QED BY <1>2, <1>3 DEF Forced

LEMMA FirstOfPath ==
  \A p \in PaidPaths \cup FreePaths :
    p[1] \in Services \cup {"", "healthz", "schema", ".well-known"}
<1>1. \A p \in {<<s, "">> : s \in Services} : p[1] \in Services
  <2>1. \A s : <<s, "">>[1] = s
      OBVIOUS
  <2> QED BY <2>1, Zenon
<1>2. \A p \in {force.path : force \in Forced} : p[1] \in Services
    BY ForcedFields DEF Services
<1>3. \A p \in {<<"lots", v>> : v \in {"holding-period", "gains", "inventory",
                                       "validate", "balances"}} : p[1] = "lots"
    OBVIOUS
<1>4. /\ <<"", "">>[1] = "" /\ <<"healthz", "">>[1] = "healthz"
      /\ <<"schema", "">>[1] = "schema" /\ <<".well-known", "x402">>[1] = ".well-known"
    OBVIOUS
<1>5. \A p \in FreePaths : p[1] \in {"", "healthz", "schema", ".well-known"}
    BY <1>4 DEF FreePaths
<1>6. \A p \in PaidPaths : p[1] \in Services
    BY <1>1, <1>2, <1>3, Zenon DEF PaidPaths, Services
<1> QED BY <1>5, <1>6

(* Only the encode routes compute an encoding. *)
LEMMA CallOf ==
  ASSUME NEW r, Served(r)
  PROVE  /\ Computation(r.path) = "encode_call" => r.path[1] = "encode"
         /\ Computation(r.path) \in {"calculate_lots", "holding_period"} => r.path[1] # "encode"
<1>1. r.path[1] \in Services \cup {"", "healthz", "schema", ".well-known"}
    BY FirstOfPath DEF Served
<1>2. r.path \in {<<"lots", "validate">>, <<"lots", "balances">>, <<"lots", "holding-period">>} =>
        r.path[1] = "lots"
    OBVIOUS
<1> QED BY <1>1, <1>2 DEF Computation, Services

LEMMA ForcedRaw ==
  ASSUME NEW p, NEW force \in Forced, NEW payload,
         payload = With(p, "raw", With(p.raw, force.field, force.value))
  PROVE  force.field \in DOMAIN payload.raw /\ payload.raw[force.field] = force.value
<1>1. payload.raw = With(p.raw, force.field, force.value)
    BY DEF With
<1> QED BY <1>1 DEF With

(* What the route, or else the caller, chose is what is found in the payload. *)
LEMMA ChoiceAsAsked ==
  ASSUME NEW r, NEW call, NEW payload, payload = WithForced(r.path, Wrapped(r.body)),
         call \in {"calculate_lots", "holding_period", "encode_call"},
         call = "encode_call" <=> r.path[1] = "encode"
  PROVE  Choice(call, payload) \in Asked(r)
<1>1. /\ r.path[1] = "encode" =>
           Choice(call, payload) = Given(payload.raw, "function")
      /\ r.path[1] # "encode" =>
           Choice(call, payload) = IF Given(payload.raw, "method") # "" THEN payload.raw["method"]
                                   ELSE IF Given(payload, "method") # "" THEN payload["method"]
                                   ELSE "FIFO"
    BY DEF Choice
<1>2. CASE \E force \in Forced : force.path = r.path
  <2>1. PICK force \in Forced :
          /\ force.path = r.path
          /\ payload = With(Wrapped(r.body), "raw",
                            With(Wrapped(r.body).raw, force.field, force.value))
      BY <1>2 DEF WithForced
  <2>2. Choice(call, payload) = force.value
    <3>1. Given(payload.raw, force.field) = force.value /\ force.value # ""
        BY <2>1, ForcedRaw, ForcedFields DEF Given
    <3>2. payload.raw[force.field] = force.value
        BY <2>1, ForcedRaw
    <3>3. CASE force.path[1] = "encode" /\ force.field = "function"
        BY <1>1, <2>1, <3>1, <3>3
    <3>4. CASE force.path[1] = "lots" /\ force.field = "method"
        BY <1>1, <2>1, <3>1, <3>2, <3>4
    <3> QED BY <3>3, <3>4, ForcedFields
  <2>3. Asked(r) = {f.value : f \in {force_1 \in Forced : force_1.path = r.path}}
      BY <1>2 DEF Asked
  <2> QED BY <2>1, <2>2, <2>3
<1>3. CASE ~ \E force \in Forced : force.path = r.path
  <2> DEFINE object == IF "raw" \in DOMAIN r.body THEN r.body.raw ELSE r.body
  <2>1. payload = Wrapped(r.body)
      BY <1>3 DEF WithForced
  <2>2. {force \in Forced : force.path = r.path} = {}
      BY <1>3
  <2>3. CASE r.path[1] = "encode"
    <3>1. Given(payload.raw, "function") = Given(object, "function")
      <4>1. CASE "raw" \in DOMAIN r.body
          BY <2>1, <4>1 DEF Wrapped
      <4>2. CASE "raw" \notin DOMAIN r.body
          BY <2>1, <4>2, WrappedBare DEF Given
      <4> QED BY <4>1, <4>2
    <3>2. Asked(r) = {Given(object, "function")}
        BY <2>2, <2>3 DEF Asked, MetaKeys, Given
    <3> QED BY <1>1, <2>3, <3>1, <3>2
  <2>4. CASE r.path[1] # "encode"
    <3>1. Asked(r) = {IF Given(object, "method") # "" THEN Given(object, "method")
                      ELSE IF Given(r.body, "method") # "" THEN Given(r.body, "method")
                      ELSE "FIFO"}
        BY <2>2, <2>4 DEF Asked, MetaKeys, Given
    <3>2. Choice(call, payload) = IF Given(payload.raw, "method") # ""
                                  THEN Given(payload.raw, "method")
                                  ELSE IF Given(payload, "method") # ""
                                  THEN Given(payload, "method") ELSE "FIFO"
        BY <1>1, <2>4 DEF Given
    <3>3. CASE "raw" \in DOMAIN r.body
        BY <2>1, <3>1, <3>2, <3>3 DEF Wrapped
    <3>4. CASE "raw" \notin DOMAIN r.body
      <4>1. /\ Given(payload.raw, "method") = ""
            /\ Given(payload, "method") = Given(r.body, "method")
          BY <2>1, <3>4, WrappedBare DEF Given
      <4> QED BY <3>1, <3>2, <3>4, <4>1
    <3> QED BY <3>3, <3>4
  <2> QED BY <2>3, <2>4
<1> QED BY <1>2, <1>3

LEMMA ComputedAsAsked ==
  ASSUME NEW r, Served(r),
         Computed(r).call \in {"calculate_lots", "holding_period", "encode_call"}
  PROVE  Computed(r).choice \in Asked(r)
<1>1. /\ Computed(r).call = Computation(r.path)
      /\ Computed(r).choice = Choice(Computation(r.path), WithForced(r.path, Wrapped(r.body)))
    BY DEF Computed, Bare, Reply
<1> QED BY <1>1, CallOf, ChoiceAsAsked

(* A reply is a bare status or the answer to the request as it was sent.   *)
ReplyInv ==
  \A c \in Clients :
    \/ reply[c].call = "none"
    \/ stage[c] # "away" /\ reply[c] = Computed(req[c])

LEMMA BareCall == \A n : Bare(n).call = "none"
BY DEF Bare, Reply

LEMMA ReplyInit == Init => ReplyInv
BY BareCall DEF Init, ReplyInv

LEMMA ReplyChanges ==
  ASSUME TypeInv, [Next]_vars, NEW c \in Clients
  PROVE  /\ \/ reply'[c] = reply[c] /\ req'[c] = req[c]
            \/ reply'[c].call = "none"
            \/ stage[c] # "away" /\ req'[c] = req[c] /\ reply'[c] = Computed(req[c])
         /\ stage[c] # "away" => stage'[c] # "away"
<1>a. /\ stage \in [Clients -> Stages] /\ DOMAIN req = Clients /\ DOMAIN reply = Clients
      /\ "away" \notin {"arrived", "answered", "settling", "verifying", "pool", "body",
                        "blocking", "read", "pooled", "verified", "rejected", "settled", "lost"}
    BY DEF TypeInv, QueueInv, RequestInv
<1>1. ASSUME NEW d \in Clients, NEW r \in Requests[d], Send(d, r)
      PROVE  /\ (reply'[c] = reply[c] /\ req'[c] = req[c]) \/ reply'[c].call = "none"
             /\ stage[c] # "away" => stage'[c] # "away"
    BY <1>a, <1>1, BareCall DEF Send
<1>2. ASSUME NEW d \in Clients, NEW answer, Finish(d, answer), stage[d] # "away",
             answer.call = "none" \/ answer = Computed(req[d])
      PROVE  /\ \/ reply'[c] = reply[c] /\ req'[c] = req[c]
                \/ reply'[c].call = "none"
                \/ stage[c] # "away" /\ req'[c] = req[c] /\ reply'[c] = Computed(req[c])
             /\ stage[c] # "away" => stage'[c] # "away"
    BY <1>a, <1>2 DEF Finish, Move
<1>3. ASSUME NEW d \in Clients, NEW s, Move(d, s), s # "away", req' = req,
             reply' = reply \/ reply' = [reply EXCEPT ![d] = Bare(402)]
      PROVE  /\ (reply'[c] = reply[c] /\ req'[c] = req[c]) \/ reply'[c].call = "none"
             /\ stage[c] # "away" => stage'[c] # "away"
    BY <1>a, <1>3, BareCall DEF Move
<1>4. CASE LoopTurn
  <2> SUFFICES ASSUME NEW d \in Clients,
                      \/ Challenge(d) \/ AskFacilitator(d) \/ Route(d) \/ Handle(d)
                      \/ Usage(d) \/ Deliver(d) \/ Refuse(d)
               PROVE  /\ \/ reply'[c] = reply[c] /\ req'[c] = req[c]
                         \/ reply'[c].call = "none"
                         \/ stage[c] # "away" /\ req'[c] = req[c] /\ reply'[c] = Computed(req[c])
                      /\ stage[c] # "away" => stage'[c] # "away"
      BY <1>4 DEF LoopTurn
  <2>1. CASE Challenge(d) \/ AskFacilitator(d) \/ Deliver(d) \/ Refuse(d)
      BY <1>3, <2>1 DEF Challenge, AskFacilitator, Deliver, Refuse, calls
  <2>2. CASE Route(d)
      BY <1>3, <2>2 DEF Route, AwaitBody, calls
  <2>3. CASE Handle(d) \/ Usage(d)
    <3>1. stage[d] # "away"
        BY <2>3 DEF Handle, Usage, Turn
    <3>2. CASE Move(d, "blocking") /\ UNCHANGED calls
        BY <1>3, <3>2 DEF calls
    <3>3. CASE \E answer : Finish(d, answer) /\ (answer.call = "none" \/ answer = Computed(req[d]))
        BY <1>2, <3>1, <3>3
    <3> QED BY <2>3, <3>2, <3>3, BareCall DEF Handle, Usage
  <2> QED BY <2>1, <2>2, <2>3
<1>5. CASE CallReturns
  <2>1. busy \in Clients /\ stage[busy] # "away"
      BY <1>5 DEF CallReturns, TypeInv, QueueInv
  <2>2. PICK answer :
          Finish(busy, answer) /\ (answer.call = "none" \/ answer = Computed(req[busy]))
      BY <1>5, BareCall DEF CallReturns
  <2> QED BY <1>2, <2>1, <2>2
<1>6. ASSUME NEW d \in Clients,
             \/ BodyArrives(d) \/ ThreadAnswers(d)
             \/ FacilitatorVerifies(d) \/ FacilitatorSettles(d)
      PROVE  /\ (reply'[c] = reply[c] /\ req'[c] = req[c]) \/ reply'[c].call = "none"
             /\ stage[c] # "away" => stage'[c] # "away"
  <2>1. PICK to \in {"read", "pooled", "verified", "rejected", "settled"} :
          Move(d, to) /\ UNCHANGED <<req, reply>>
      BY <1>6 DEF BodyArrives, ThreadAnswers, FacilitatorVerifies, FacilitatorSettles,
                  FacilitatorAnswers, SettlementUnheard, Wake
  <2> QED BY <1>3, <2>1
<1>9. ASSUME NEW d \in Clients, PaymentLands(d) PROVE UNCHANGED <<stage, req, reply>>
    BY <1>9 DEF PaymentLands
<1>7. CASE StopInstance
    BY <1>a, <1>7 DEF StopInstance
<1>8. CASE UNCHANGED <<stage, calls>>
    BY <1>8 DEF calls
<1> QED BY <1>1, <1>4, <1>5, <1>6, <1>7, <1>8, <1>9
    DEF Next, Host, PingArrives, PingEnds, PingFails, NextPing, Tick, http, vars

LEMMA ReplyStep == TypeInv /\ ReplyInv /\ [Next]_vars => ReplyInv'
<1> SUFFICES ASSUME TypeInv, ReplyInv, [Next]_vars, NEW c \in Clients
             PROVE  (reply[c].call = "none" \/ (stage[c] # "away" /\ reply[c] = Computed(req[c])))'
    BY DEF ReplyInv
<1> QED BY ReplyChanges DEF ReplyInv

LEMMA RepliesAsAsked == TypeInv /\ ReplyInv => AnsweredAsAsked
<1> SUFFICES ASSUME TypeInv, ReplyInv, NEW c \in Clients,
                    reply[c].call \in {"calculate_lots", "holding_period", "encode_call"}
             PROVE  reply[c].choice \in Asked(req[c])
    BY DEF AnsweredAsAsked
<1>1. stage[c] # "away" /\ reply[c] = Computed(req[c])
    BY DEF ReplyInv
<1>2. Served(req[c])
    BY <1>1, RequestsAssumption DEF TypeInv, RequestInv
<1> QED BY <1>1, <1>2, ComputedAsAsked

(* So does what replies rest on: each is computed from the request made. *)
THEOREM RepliesHold == Spec => []ReplyInv
BY TypesHold, ReplyInit, ReplyStep, PTL DEF Spec

(* For every request there is a route for, however its body is wrapped and *)
(* whatever it says: the method or function computed is the one the route  *)
(* is named after, or the one the caller chose (server.py:330-355).        *)
THEOREM AsAskedHolds == Spec => []AnsweredAsAsked
BY TypesHold, RepliesHold, RepliesAsAsked, PTL
===============================================================================
