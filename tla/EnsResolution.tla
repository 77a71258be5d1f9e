---------------------------- MODULE EnsResolution ----------------------------
(***************************************************************************)
(* ENS resolution: resolve() of evm_canon/ens.py, behind /ens/resolve.     *)
(*                                                                         *)
(* One behaviour is one request.  A lookup is a run of eth_calls, each to  *)
(* one endpoint and each answered from whatever that endpoint takes for    *)
(* the latest block; between two calls the records an endpoint sees may    *)
(* change, and any call may raise (a timeout, an HTTP error, a JSON-RPC    *)
(* error, an undecodable answer), which abandons the attempt and starts    *)
(* over with the next endpoint.                                            *)
(*                                                                         *)
(* The chain and the endpoints are external: a world gives, for each node, *)
(* its resolver, and for each resolver the record it holds for a node.     *)
(***************************************************************************)
EXTENDS Naturals, Sequences, FiniteSets

CONSTANTS
  Spellings,     \* well-formed ENS names as callers or records spell them
  Names,         \* names in lower case, which is what namehash() hashes
  Lower,         \* the lower case of each spelling
  Addresses,     \* well-formed addresses
  BadInput,      \* a name or an address of the wrong shape
  Absent,        \* a missing or empty field, no record, an empty answer
  Reverts,       \* a record the resolver contract reverts on
  DefaultRpcs,   \* DEFAULT_RPCS
  Settings,      \* records [rpc, env]: resolve()'s rpc argument and
                 \* EVM_CANON_RPC_1, each an endpoint or Absent
  Worlds,        \* the record states an endpoint may show
  MaxChanges     \* bound: changes of any endpoint's view during a request

ASSUME NamesAssumption == Lower \in [Spellings -> Names]
ASSUME EndpointsAssumption ==
  /\ DefaultRpcs \in Seq({DefaultRpcs[k] : k \in DOMAIN DefaultRpcs})
  /\ DefaultRpcs # <<>>
  /\ \A j, k \in DOMAIN DefaultRpcs : DefaultRpcs[j] = DefaultRpcs[k] => j = k
ASSUME NobodyAssumption == Absent \notin Spellings \cup Addresses /\ Absent \notin BOOLEAN

(* What answers is decoded as the question demands: whatever a resolver    *)
(* holds for an address is read as a name, for a name as an address.       *)
ASSUME WorldsAssumption ==
  \A v, w \in Worlds :
    /\ \A a \in Addresses : v.resolver[a] # Absent =>
         w.record[v.resolver[a]][a] \in Spellings \cup {Absent, Reverts}
    /\ \A n \in Names : v.resolver[n] # Absent =>
         w.record[v.resolver[n]][n] \in Addresses \cup {Absent, Reverts}

Requests ==
  [name : Spellings \cup {BadInput, Absent}, address : Addresses \cup {BadInput, Absent}]

VARIABLES
  setting,    \* how the service and the call are configured
  view,       \* the world each endpoint shows (external)
  changes,    \* how often a view has changed
  request,    \* the payload
  phase,      \* "validate", "call" or "done"
  attempt,    \* index of the endpoint being asked
  question,   \* the lookup in progress: what is asked about which node
  resolver,   \* the resolver found for that node, or Absent
  primary,    \* the primary name found in this attempt, or Absent
  reply,      \* what the handler returns
  steady,     \* history: no change of this endpoint's view in this attempt
  log         \* history: the answers given, [by, about, answer]

vars == <<setting, view, changes, request, phase, attempt, question, resolver, primary,
          reply, steady, log>>

Candidates ==
  IF setting.rpc # Absent THEN <<setting.rpc>>
  ELSE IF setting.env # Absent THEN <<setting.env>>
  ELSE DefaultRpcs

Endpoints == {Candidates[k] : k \in DOMAIN Candidates}

NoQuestion == [kind |-> "none", node |-> Absent]
Found(name, address, verified) ==
  [error |-> "none", name |-> name, address |-> address, verified |-> verified]
NoReply == Found(Absent, Absent, Absent)
Error(code) == [NoReply EXCEPT !.error = code]

Endpoint == Candidates[attempt]

(* The records of a world: a name's address and an address's name. *)
ResolverIn(world, node) == world.resolver[node]
RecordIn(world, where, node) == world.record[where][node]

(* The first question of an attempt. *)
Opening(r) ==
  IF r.name # Absent
  THEN [kind |-> "addr", node |-> Lower[r.name]]
  ELSE [kind |-> "name", node |-> r.address]

Init ==
  /\ setting \in Settings
  /\ view \in [Endpoints -> Worlds]
  /\ changes = 0
  /\ request \in Requests
  /\ phase = "validate"
  /\ attempt = 1
  /\ question = NoQuestion
  /\ resolver = Absent
  /\ primary = Absent
  /\ reply = NoReply
  /\ steady = TRUE
  /\ log = {}

(***************************************************************************)
(* The handler                                                             *)
(***************************************************************************)
Refusal(r) ==
  IF (r.name = Absent) = (r.address = Absent) THEN "MALFORMED_INVOCATION"
  ELSE IF r.name = BadInput THEN "INVALID_NAME"
  ELSE IF r.address = BadInput THEN "INVALID_ADDRESS"
  ELSE "none"

Validate ==
  /\ phase = "validate"
  /\ IF Refusal(request) = "none"
       THEN /\ phase' = "call"
            /\ question' = Opening(request)
            /\ UNCHANGED reply
       ELSE /\ phase' = "done"
            /\ reply' = Error(Refusal(request))
            /\ UNCHANGED question
  /\ UNCHANGED <<setting, view, changes, request, attempt, resolver, primary, steady, log>>

Return(r) ==
  /\ phase' = "done"
  /\ reply' = r
  /\ UNCHANGED <<question, resolver, primary>>

(* Mutant: the resolver found for the address answers for the name. *)
CheckWithSameResolver(name) ==
  /\ primary' = name
  /\ question' = [kind |-> "addr", node |-> Lower[name]]
  /\ UNCHANGED <<phase, resolver, reply>>
(* The forward check of a primary name is a lookup of its own. *)
CheckForward(name) ==
  /\ primary' = name
  /\ question' = [kind |-> "addr", node |-> Lower[name]]
  /\ resolver' = Absent
  /\ UNCHANGED <<phase, reply>>

(* Mutant: an address without a name is judged as well. *)
VerdictAlways(answer) == answer = request.address
Verdict(answer) == IF question.kind = "name" THEN Absent ELSE answer = request.address

(* What a finished lookup leads to: the answer to a caller's name, the     *)
(* forward check of a primary name, or the verdict of that check.          *)
Answered(answer) ==
  IF question.kind = "name" /\ answer # Absent THEN CheckForward(answer)
  ELSE Return(
    IF request.name # Absent
    THEN Found(Lower[request.name], answer, Absent)
    ELSE Found(primary, request.address, Verdict(answer)))

Note(answer) ==
  log' = log \cup {[by |-> Endpoint, about |-> question, answer |-> answer]}

(* eth_call to the registry: the node's resolver. *)
AskRegistry ==
  /\ phase = "call"
  /\ resolver = Absent
  /\ LET found == ResolverIn(view[Endpoint], question.node)
     IN  IF found = Absent
         THEN Answered(Absent) /\ Note(Absent)
         ELSE /\ resolver' = found
              /\ UNCHANGED <<phase, question, primary, reply, log>>
  /\ UNCHANGED <<setting, view, changes, request, attempt, steady>>

(* eth_call to the resolver: the record itself. *)
AskResolver ==
  /\ phase = "call"
  /\ resolver # Absent
  /\ LET answer == RecordIn(view[Endpoint], resolver, question.node)
     IN  answer # Reverts /\ Answered(answer) /\ Note(answer)
  /\ UNCHANGED <<setting, view, changes, request, attempt, steady>>

(* Mutant: the last endpoint is never tried. *)
SpareEndpoints == attempt + 1 < Len(Candidates)
MoreEndpoints == attempt < Len(Candidates)

(* Mutant: the endpoint that failed is asked again. *)
SameEndpoint == attempt
NextEndpoint == attempt + 1

(* Mutant: the next endpoint goes on where the last one failed. *)
Resume == UNCHANGED <<question, resolver, primary>>
Restart ==
  /\ question' = Opening(request)
  /\ resolver' = Absent
  /\ primary' = Absent

(* Any call may raise, and one the contract reverts on always does.  The   *)
(* whole attempt is dropped, whatever it had found.                        *)
CallRaises ==
  /\ phase = "call"
  /\ IF MoreEndpoints
       THEN attempt' = NextEndpoint /\ Restart /\ UNCHANGED <<phase, reply>>
       ELSE /\ phase' = "done"
            /\ reply' = Error("RPC_UNAVAILABLE")
            /\ UNCHANGED <<attempt, question, resolver, primary>>
  /\ steady' = TRUE
  /\ UNCHANGED <<setting, view, changes, request, log>>

(***************************************************************************)
(* External: an endpoint comes to show other records.                      *)
(***************************************************************************)
ViewChanges ==
  /\ phase = "call"
  /\ changes < MaxChanges
  /\ \E e \in Endpoints, w \in Worlds :
       /\ w # view[e]
       /\ view' = [view EXCEPT ![e] = w]
       /\ steady' = (steady /\ e # Endpoint)
  /\ changes' = changes + 1
  /\ UNCHANGED <<setting, request, phase, attempt, question, resolver, primary,
                 reply, log>>

Handler == Validate \/ AskRegistry \/ AskResolver \/ CallRaises

Next == Handler \/ ViewChanges

Spec == Init /\ [][Next]_vars

(* Every call is answered, raises, or times out after ten seconds. *)
FairSpec == Spec /\ WF_vars(Handler)

-------------------------------------------------------------------------------
(***************************************************************************)
(* Correctness                                                             *)
(***************************************************************************)

(* The type invariant; a verdict is only ever given on a primary name, and *)
(* then it is true or false (ens.py:119-123).                              *)
Replies ==
  [error : {"none", "MALFORMED_INVOCATION", "INVALID_NAME", "INVALID_ADDRESS",
            "RPC_UNAVAILABLE"},
   name : Spellings \cup Names \cup {Absent},
   address : Addresses \cup {Absent},
   verified : BOOLEAN \cup {Absent}]

TypeOK ==
  /\ phase \in {"validate", "call", "done"}
  /\ attempt \in DOMAIN Candidates
  /\ question.kind \in {"none", "name", "addr"}
  /\ primary \in Spellings \cup {Absent}
  /\ reply \in Replies
  /\ phase = "done" /\ request.address # Absent /\ reply.error = "none" =>
       (reply.name = Absent) = (reply.verified = Absent)

(* A verdict rests on what one endpoint said within one attempt: it named  *)
(* the address, and its own answer about that name is the address exactly  *)
(* when the verdict is true.  Nothing found on an endpoint that then       *)
(* failed is carried over (ens.py:3-6, 109-127).                           *)
VerdictGrounded ==
  phase = "done" /\ reply.verified # Absent =>
    LET said(kind, node) == {entry \in log : /\ entry.by = Endpoint
                                             /\ entry.about = [kind |-> kind, node |-> node]}
        names == {entry.answer : entry \in said("name", request.address)}
        owners == {entry.answer : entry \in said("addr", Lower[reply.name])}
    IN  /\ names = {reply.name}
        /\ owners # {}
        /\ reply.verified = (owners = {request.address})

(* What a lookup in a single world must give. *)
RecordOf(world, node) ==
  IF world.resolver[node] = Absent THEN Absent
  ELSE world.record[world.resolver[node]][node]

TrueReply(world) ==
  IF request.name # Absent
  THEN Found(Lower[request.name], RecordOf(world, Lower[request.name]), Absent)
  ELSE LET name == RecordOf(world, request.address)
       IN  Found(name, request.address,
                 IF name = Absent THEN Absent
                 ELSE RecordOf(world, Lower[name]) = request.address)

(* If the answering endpoint's records did not change during its attempt,  *)
(* the reply is what those records say (ens.py:54-85, 108-125): the calls  *)
(* of a lookup do not mix up nodes, resolvers or endpoints.                *)
SteadyAnswers ==
  phase = "done" /\ reply.error = "none" /\ steady => reply = TrueReply(view[Endpoint])

(* Failover goes through the candidates in order and stops at the first    *)
(* that answers; only when the last has failed too is the network blamed   *)
(* (ens.py:108-129).  No reply is sent twice or changed once given.        *)
FailoverInOrder ==
  [][ /\ attempt' \in {attempt, attempt + 1}
      /\ attempt' # attempt => reply' = NoReply /\ question' = Opening(request)
      /\ reply'.error = "RPC_UNAVAILABLE" => attempt' = Len(Candidates)
      /\ phase = "done" => reply' = reply
    ]_<<phase, attempt, reply>>

(* Every request is answered: each endpoint gets one attempt, and each     *)
(* attempt at most four calls.                                             *)
Termination == <>(phase = "done")
===============================================================================
