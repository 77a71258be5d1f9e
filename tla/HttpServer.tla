----------------------------- MODULE HttpServer -----------------------------
(***************************************************************************)
(* The HTTP wrapper, evm_canon/server.py: the routes and what each makes   *)
(* of a body, the payment gate around them, the event loop that runs the   *)
(* handlers, and the self-ping thread that keeps a hosted instance awake.  *)
(*                                                                         *)
(* A client has one request under way at a time; stage says how far it is. *)
(* The event loop runs one callback at a time, in the order in which they  *)
(* became ready.  The POST handlers are coroutines: they give the loop up  *)
(* while the body is coming, and hold it while they compute, network calls *)
(* included.  The GET handlers are plain functions and run in a thread.    *)
(*                                                                         *)
(* What a computation answers is the subject of other modules; here it is  *)
(* named by the function called and by the method or function it is asked  *)
(* for.  Time is counted in steps of which the waits are multiples.        *)
(***************************************************************************)
EXTENDS Naturals, Sequences, Functions

CONSTANTS
  Clients,      \* those who send requests
  Requests,     \* what each client may send: [verb, path, pays, body]
  MayRaise,     \* paths whose computation may end in an exception
  Prompt,       \* clients that finish sending the bodies they announced
  Nobody,       \* no client
  NoRequest,    \* before a client's first request
  NotJson,      \* a body that cannot be read as JSON
  NotAnObject,  \* a JSON value that is not an object
  KeepAlive,    \* RENDER_EXTERNAL_URL is set, and EVM_CANON_KEEPALIVE not "0"
  Wait,         \* pause of the self-ping loop, 600 s
  Timeout,      \* timeout of a ping, 30 s to connect and 30 s to read
  IdleLimit     \* inactivity after which the platform stops it, 15 min

ASSUME ClientsAssumption == Prompt \subseteq Clients /\ Nobody \notin Clients
ASSUME TimesAssumption ==
  /\ KeepAlive \in BOOLEAN
  /\ {Wait, Timeout, IdleLimit} \subseteq Nat
  /\ Wait + 2 * Timeout < IdleLimit

(***************************************************************************)
(* Routes.  A path is <<service, view>>, with "" for the generic route.    *)
(***************************************************************************)
Services == {"canonicalize", "decode", "resolve", "lots", "encode", "checksum"}

(* What a narrow route writes into the payload, whatever the caller says.  *)
EncodeFunctions ==
  {<<"transfer", "transfer">>, <<"approve", "approve">>,
   <<"transfer-from", "transferFrom">>, <<"nft-transfer", "safeTransferFrom(address,address,uint256)">>,
   <<"approve-all", "setApprovalForAll">>, <<"wrap", "deposit">>,
   <<"unwrap", "withdraw">>, <<"swap", "swapExactTokensForTokens">>,
   <<"permit", "permit">>}
LotsMethods == {<<"fifo", "FIFO">>, <<"lifo", "LIFO">>, <<"hifo", "HIFO">>, <<"acb", "ACB">>}
Forced ==
  {[path |-> <<"encode", f[1]>>, field |-> "function", value |-> f[2]] : f \in EncodeFunctions}
  \cup {[path |-> <<"lots", l[1]>>, field |-> "method", value |-> l[2]] : l \in LotsMethods}

PaidPaths ==
  {<<s, "">> : s \in Services}
  \cup {force.path : force \in Forced}
  \cup {<<"lots", v>> : v \in {"holding-period", "gains", "inventory", "validate", "balances"}}

(* Mutant: only the verb that computes is gated. *)
PostRoutes == {"POST"} \X PaidPaths
Routes == {"GET", "POST"} \X PaidPaths
Gated(r) == <<r.verb, r.path>> \in Routes

FreePaths ==
  {<<"", "">>, <<"healthz", "">>, <<"schema", "">>, <<".well-known", "x402">>}

(* Any other request is answered before it reaches a gate or a handler. *)
Served(r) ==
  /\ r.verb \in {"GET", "POST"}
  /\ r.path \in PaidPaths \cup FreePaths
  /\ r.path \in FreePaths => r.verb = "GET"
ASSUME RequestsAssumption ==
  \A c \in Clients : \A r \in Requests[c] : Served(r) /\ r.pays \in BOOLEAN

(***************************************************************************)
(* Bodies.  An object is a function from its keys.                         *)
(***************************************************************************)
MetaKeys == {"target_schema", "hints", "method"}

WellFormed(body) == body \notin {NotJson, NotAnObject} /\ DOMAIN body # {}

With(object, key, value) ==
  [k \in DOMAIN object \cup {key} |-> IF k = key THEN value ELSE object[k]]

(* A body without "raw" is the raw object itself, but for the meta keys.   *)
Wrapped(body) ==
  IF "raw" \in DOMAIN body THEN body
  ELSE With(Restrict(body, DOMAIN body \cap MetaKeys),
            "raw", Restrict(body, DOMAIN body \ MetaKeys))

(* Spreading a value that is not an object raises TypeError. *)
CannotForce(path, payload) ==
  payload.raw = NotAnObject /\ \E force \in Forced : force.path = path

(* Mutant: the forced field is written next to "raw". *)
ForceBeside(path, payload) ==
  LET own == {force \in Forced : force.path = path}
  IN  IF own = {} THEN payload
      ELSE LET force == CHOOSE f \in own : TRUE IN With(payload, force.field, force.value)
WithForced(path, payload) ==
  LET own == {force \in Forced : force.path = path}
  IN  IF own = {} THEN payload
      ELSE LET force == CHOOSE f \in own : TRUE
           IN  With(payload, "raw", With(payload.raw, force.field, force.value))

Computation(path) ==
  CASE path = <<"lots", "validate">> -> "check_ledger"
    [] path = <<"lots", "balances">> -> "balances"
    [] path = <<"lots", "holding-period">> -> "holding_period"
    [] path[1] = "lots" /\ path[2] \notin {"validate", "balances", "holding-period"} ->
         "calculate_lots"
    [] path[1] = "encode" -> "encode_call"
    [] path[1] = "decode" -> "decode_calldata"
    [] path[1] = "checksum" -> "checksum_batch"
    [] OTHER -> path[1]

(* What an object says of a key: "" if the key is missing, null or empty.  *)
Given(object, key) == IF key \in DOMAIN object THEN object[key] ELSE ""

(* The method or function the computation finds in its payload; Python's   *)
(* "or" passes over an empty method.                                       *)
Choice(call, payload) ==
  CASE call \in {"calculate_lots", "holding_period"} ->
         IF Given(payload.raw, "method") # "" THEN payload.raw.method
         ELSE IF Given(payload, "method") # "" THEN payload.method ELSE "FIFO"
    [] call = "encode_call" -> Given(payload.raw, "function")
    [] OTHER -> "none"

(* project(): which part of the answer of calculate_lots is sent. *)
Part(path) ==
  IF path \in {<<"lots", "gains">>, <<"lots", "inventory">>} THEN path[2] ELSE "all"

Reply(status, call, choice, part) ==
  [status |-> status, call |-> call, choice |-> choice, part |-> part]
Bare(status) == Reply(status, "none", "none", "none")

(* A computation that is given no object answers with a typed error. *)
Computed(r) ==
  LET payload == WithForced(r.path, Wrapped(r.body))
      call == Computation(r.path)
  IN  IF payload.raw = NotAnObject THEN Bare(200)
      ELSE Reply(200, call, Choice(call, payload), Part(r.path))

(* Network calls: eth_call, and the model asked about an ambiguous ticker. *)
MayCallOut(r) ==
  /\ r.path \in {<<"resolve", "">>, <<"canonicalize", "">>}
  /\ Wrapped(r.body).raw # NotAnObject

-------------------------------------------------------------------------------
VARIABLES
  stage,    \* how far each client's request is
  req,      \* the request
  reply,    \* the reply to it, once there is one
  charged,  \* whether the payment for it has landed
  unheard,  \* whether the answer to its settlement was lost
  ready,    \* callbacks the loop has to run, as the clients they are for
  busy,     \* the client whose handler holds the loop in a network call
  up,       \* whether the instance runs
  idle,     \* time since a request last reached it
  pinger,   \* [doing, since]: what the self-ping thread does, and how long
  missed    \* whether a ping has failed to reach it since

payment == <<charged, unheard>>
calls == <<req, reply, payment>>
loop == <<ready, busy>>
host == <<up, idle, pinger, missed>>
vars == <<stage, calls, loop, host>>

Queued == {"arrived", "verified", "rejected", "read", "pooled", "settled"}
Resting == {"away", "answered", "lost"}
Stages == Queued \cup Resting \cup {"verifying", "body", "blocking", "pool", "settling"}

Ping == [doing |-> IF KeepAlive THEN "asking" ELSE "nothing", since |-> 0]

Init ==
  /\ stage = [c \in Clients |-> "away"]
  /\ req = [c \in Clients |-> NoRequest]
  /\ reply = [c \in Clients |-> Bare(0)]
  /\ charged = [c \in Clients |-> FALSE]
  /\ unheard = [c \in Clients |-> FALSE]
  /\ ready = <<>>
  /\ busy = Nobody
  /\ up = TRUE
  /\ idle = 0
  /\ pinger = Ping
  /\ missed = FALSE

(* A request reaches the platform, which starts the instance if it must.   *)
Send(c, r) ==
  /\ stage[c] \in Resting
  /\ stage' = [stage EXCEPT ![c] = "arrived"]
  /\ req' = [req EXCEPT ![c] = r]
  /\ reply' = [reply EXCEPT ![c] = Bare(0)]
  /\ charged' = [charged EXCEPT ![c] = FALSE]
  /\ unheard' = [unheard EXCEPT ![c] = FALSE]
  /\ ready' = Append(ready, c)
  /\ up' = TRUE
  /\ idle' = 0
  /\ pinger' = IF up THEN pinger ELSE Ping
  /\ missed' = FALSE
  /\ UNCHANGED busy

(***************************************************************************)
(* The event loop                                                          *)
(***************************************************************************)
Move(c, s) == stage' = [stage EXCEPT ![c] = s]

(* A reply below 400 to a gated request goes through settlement first.     *)
Finish(c, answer) ==
  /\ reply' = [reply EXCEPT ![c] = answer]
  /\ Move(c, IF Gated(req[c]) /\ answer.status < 400 THEN "settling" ELSE "answered")
  /\ UNCHANGED <<req, payment>>

(* The callback at the head of the queue runs. *)
Turn(c, s) ==
  /\ busy = Nobody
  /\ ready # <<>> /\ c = Head(ready)
  /\ stage[c] = s
  /\ ready' = Tail(ready)
  /\ UNCHANGED host

Challenge(c) ==
  /\ Turn(c, "arrived")
  /\ Gated(req[c]) /\ ~req[c].pays
  /\ reply' = [reply EXCEPT ![c] = Bare(402)]
  /\ Move(c, "answered")
  /\ UNCHANGED <<req, payment, busy>>

AskFacilitator(c) ==
  /\ Turn(c, "arrived")
  /\ Gated(req[c]) /\ req[c].pays
  /\ Move(c, "verifying")
  /\ UNCHANGED <<calls, busy>>

(* Mutant: the handler waits for the body without giving the loop up. *)
AwaitBodyHoldingLoop(c) == Move(c, "body") /\ busy' = c
AwaitBody(c) == Move(c, "body") /\ UNCHANGED busy

Route(c) ==
  /\ \/ Turn(c, "verified")
     \/ Turn(c, "arrived") /\ ~Gated(req[c])
  /\ IF req[c].verb = "GET" THEN Move(c, "pool") /\ UNCHANGED busy ELSE AwaitBody(c)
  /\ UNCHANGED calls

Handle(c) ==
  /\ Turn(c, "read")
  /\ LET r == req[c]
     IN  \/ /\ ~WellFormed(r.body)
            /\ Finish(c, Bare(400))
            /\ UNCHANGED busy
         \/ /\ WellFormed(r.body)
            /\ CannotForce(r.path, Wrapped(r.body))
            /\ Finish(c, Bare(500))
            /\ UNCHANGED busy
         \/ /\ WellFormed(r.body)
            /\ ~CannotForce(r.path, Wrapped(r.body))
            /\ \/ Finish(c, Computed(r))
               \/ r.path \in MayRaise /\ Finish(c, Bare(500))
            /\ UNCHANGED busy
         \/ /\ WellFormed(r.body)
            /\ MayCallOut(r)
            /\ Move(c, "blocking")
            /\ busy' = c
            /\ UNCHANGED calls

Usage(c) ==
  /\ Turn(c, "pooled")
  /\ Finish(c, Bare(200))
  /\ UNCHANGED busy

Deliver(c) ==
  /\ Turn(c, "settled")
  /\ Move(c, "answered")
  /\ UNCHANGED <<calls, busy>>

(* Payment refused, before the handler or after it. *)
Refuse(c) ==
  /\ Turn(c, "rejected")
  /\ reply' = [reply EXCEPT ![c] = Bare(402)]
  /\ Move(c, "answered")
  /\ UNCHANGED <<req, payment, busy>>

LoopTurn ==
  \E c \in Clients :
    \/ Challenge(c) \/ AskFacilitator(c) \/ Route(c) \/ Handle(c)
    \/ Usage(c) \/ Deliver(c) \/ Refuse(c)

(* Mutant: the loop stays held. *)
CallReturnsHolding ==
  /\ busy # Nobody
  /\ Finish(busy, Computed(req[busy]))
  /\ UNCHANGED <<ready, busy, host>>
(* The calls of the handler that holds the loop end, if need be by their   *)
(* timeouts.                                                               *)
CallReturns ==
  /\ busy # Nobody /\ stage[busy] = "blocking"
  /\ busy' = Nobody
  /\ \/ Finish(busy, Computed(req[busy]))
     \/ req[busy].path \in MayRaise /\ Finish(busy, Bare(500))
  /\ UNCHANGED <<ready, host>>

(***************************************************************************)
(* What happens outside the loop's thread and wakes a callback             *)
(***************************************************************************)
Wake(c, from, to) ==
  /\ stage[c] = from
  /\ Move(c, to)
  /\ ready' = Append(ready, c)
  /\ UNCHANGED <<req, reply, busy, host>>

BodyArrives(c) == Wake(c, "body", "read") /\ UNCHANGED payment
ThreadAnswers(c) == Wake(c, "pool", "pooled") /\ UNCHANGED payment

FacilitatorVerifies(c) ==
  /\ Wake(c, "verifying", "verified") \/ Wake(c, "verifying", "rejected")
  /\ UNCHANGED payment

(* The facilitator settles first and answers afterwards.  A call whose     *)
(* answer does not come in time, or was cut off with the instance, may     *)
(* have been settled before that, and may still be settled after it.       *)
PaymentLands(c) ==
  /\ stage[c] = "settling" \/ unheard[c]
  /\ ~charged[c]
  /\ charged' = [charged EXCEPT ![c] = TRUE]
  /\ UNCHANGED <<stage, req, reply, unheard, loop, host>>

FacilitatorAnswers(c) ==
  /\ Wake(c, "settling", IF charged[c] THEN "settled" ELSE "rejected")
  /\ UNCHANGED payment

(* The client of the facilitator gives up; the middleware takes that for a *)
(* refusal.                                                                *)
SettlementUnheard(c) ==
  /\ Wake(c, "settling", "rejected")
  /\ unheard' = [unheard EXCEPT ![c] = TRUE]
  /\ UNCHANGED charged

FacilitatorSettles(c) == FacilitatorAnswers(c) \/ SettlementUnheard(c)

(***************************************************************************)
(* The self-ping thread and the platform                                   *)
(***************************************************************************)
http == <<stage, calls, loop>>

(* The request of a ping counts as traffic however late its answer is; the *)
(* timeout is one for each operation on the socket.  It does not cover the *)
(* resolution of the name, nor several addresses tried in turn: that a     *)
(* ping arrives or fails within one Timeout is an assumption.              *)
PingArrives ==
  /\ up /\ pinger.doing = "asking"
  /\ idle' = 0
  /\ missed' = FALSE
  /\ pinger' = [doing |-> "reading", since |-> 0]
  /\ UNCHANGED <<up, http>>

Pause == pinger' = [doing |-> "waiting", since |-> 0]

PingEnds ==
  /\ up /\ pinger.doing = "reading"
  /\ Pause
  /\ UNCHANGED <<up, idle, missed, http>>

(* Mutant: a failed ping ends the thread. *)
PingFailsForGood ==
  /\ up /\ pinger.doing = "asking"
  /\ missed' = TRUE
  /\ pinger' = [doing |-> "nothing", since |-> 0]
  /\ UNCHANGED <<up, idle, http>>
(* An exception is ignored, and the next ping is a whole pause away. *)
PingFails ==
  /\ up /\ pinger.doing = "asking"
  /\ missed' = TRUE
  /\ Pause
  /\ UNCHANGED <<up, idle, http>>

NextPing ==
  /\ up /\ pinger.doing = "waiting" /\ pinger.since = Wait
  /\ pinger' = [doing |-> "asking", since |-> 0]
  /\ UNCHANGED <<up, idle, missed, http>>

Tick ==
  /\ up /\ idle < IdleLimit
  /\ pinger.doing = "waiting" => pinger.since < Wait
  /\ pinger.doing \in {"asking", "reading"} => pinger.since < Timeout
  /\ idle' = idle + 1
  /\ pinger' = IF pinger.doing = "nothing" THEN pinger ELSE [pinger EXCEPT !.since = @ + 1]
  /\ UNCHANGED <<up, missed, http>>

(* The platform stops the instance, with everything that was under way.    *)
StopInstance ==
  /\ up /\ idle = IdleLimit
  /\ up' = FALSE
  /\ stage' = [c \in Clients |-> IF stage[c] \in Resting THEN stage[c] ELSE "lost"]
  /\ ready' = <<>>
  /\ busy' = Nobody
  /\ unheard' = [c \in Clients |-> unheard[c] \/ stage[c] = "settling"]
  /\ UNCHANGED <<req, reply, charged, idle, pinger, missed>>

Host == PingArrives \/ PingEnds \/ PingFails \/ NextPing \/ Tick \/ StopInstance

Next ==
  \/ \E c \in Clients : \E r \in Requests[c] : Send(c, r)
  \/ LoopTurn \/ CallReturns
  \/ \E c \in Clients :
       \/ BodyArrives(c) \/ ThreadAnswers(c)
       \/ FacilitatorVerifies(c) \/ PaymentLands(c) \/ FacilitatorSettles(c)
  \/ Host

Spec == Init /\ [][Next]_vars

(* The loop runs what is ready; calls to a node or the facilitator have    *)
(* timeouts; a stalled client need never send the rest of its body.        *)
FairSpec ==
  /\ Spec
  /\ WF_vars(LoopTurn) /\ WF_vars(CallReturns)
  /\ \A c \in Clients :
       /\ WF_vars(ThreadAnswers(c))
       /\ WF_vars(FacilitatorVerifies(c)) /\ WF_vars(FacilitatorSettles(c))
  /\ \A c \in Prompt : WF_vars(BodyArrives(c))

-------------------------------------------------------------------------------
(***************************************************************************)
(* Correctness                                                             *)
(***************************************************************************)
Statuses == {0, 200, 400, 402, 500}

(* Types, and the loop's bookkeeping: a request has a callback in the      *)
(* queue exactly while it is one of the loop's turns, and never two.       *)
TypeOK ==
  /\ stage \in [Clients -> Stages]
  /\ \A c \in Clients : req[c] \in Requests[c] \cup {NoRequest}
  /\ \A c \in Clients : reply[c].status \in Statuses
  /\ {charged, unheard} \subseteq [Clients -> BOOLEAN]
  /\ ready \in Seq(Clients)
  /\ \A i, j \in DOMAIN ready : ready[i] = ready[j] => i = j
  /\ \A c \in Clients :
       /\ stage[c] \in Queued <=> \E i \in DOMAIN ready : ready[i] = c
       /\ stage[c] = "blocking" <=> busy = c
  /\ busy \in Clients \cup {Nobody}
  /\ up \in BOOLEAN
  /\ idle \in 0..IdleLimit
  /\ pinger \in [doing : {"nothing", "asking", "reading", "waiting"}, since : Nat]
  /\ missed \in BOOLEAN

(* Nobody pays for a free path, a bad body, an exception or a request      *)
(* without payment, and nobody gets a reply of a gated route, typed errors *)
(* and usage texts included, without having paid for it.  Settlement is    *)
(* asked for only over such a reply; who is refused and has paid all the   *)
(* same is one whose settlement's answer was lost (server.py:208-209,      *)
(* 232-242, 285).  That the usage text of a path, asked for with GET, must *)
(* be paid for is what add_paid is written for; the manifest calls it free *)
(* (server.py:425).                                                        *)
ChargedForDelivery ==
  \A c \in Clients :
    /\ stage[c] = "settling" => reply[c].status = 200
    /\ charged[c] =>
         /\ req[c].path \in PaidPaths /\ req[c].pays
         /\ reply[c].status = 200 \/ (reply[c].status = 402 /\ unheard[c])
    /\ stage[c] = "answered" /\ reply[c].status = 200 =>
         (charged[c] <=> req[c].path \in PaidPaths)

(* The answer is the one that was asked for: a route named after a method  *)
(* or a function computes that one, and on the others a caller's choice is *)
(* heeded, inside "raw", next to it if it is a meta key, or in a body      *)
(* without "raw"; an empty one counts as none (server.py:51, 99-100,       *)
(* 330-340).                                                               *)
Asked(r) ==
  LET own == {force \in Forced : force.path = r.path}
      field == IF r.path[1] = "encode" THEN "function" ELSE "method"
      object == IF "raw" \in DOMAIN r.body THEN r.body.raw ELSE r.body
  IN  IF own # {} THEN {force.value : force \in own}
      ELSE IF Given(object, field) # "" THEN {object[field]}
      ELSE IF field \in MetaKeys /\ Given(r.body, field) # "" THEN {r.body[field]}
      ELSE {IF field = "method" THEN "FIFO" ELSE ""}

AnsweredAsAsked ==
  \A c \in Clients :
    reply[c].call \in {"calculate_lots", "holding_period", "encode_call"} =>
      reply[c].choice \in Asked(req[c])

(* "a self-ping loop keeps the instance awake as long as it's running"     *)
(* (server.py:291-294): the platform stops the instance only if a ping has *)
(* failed to reach it since its last traffic.                              *)
KeptAwake == [][KeepAlive /\ up /\ ~up' => missed]_vars

(* Every request whose body comes is answered, whatever the other clients  *)
(* ask for, stall or refuse to pay, unless the instance is stopped under   *)
(* it (server.py:333-380).                                                 *)
Answered ==
  \A c \in Prompt : stage[c] = "arrived" ~> stage[c] \in {"answered", "lost"}

(* "Every response is either a schema-valid {result, report} or a typed    *)
(* error" (README.md:17): no exception of the wrapper reaches the caller.  *)
TypedReplies == \A c \in Clients : reply[c].status # 500
===============================================================================
