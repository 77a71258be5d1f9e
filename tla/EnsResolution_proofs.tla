------------------------ MODULE EnsResolution_proofs ------------------------
(***************************************************************************)
(* Proofs about EnsResolution: what a verdict rests on, that the calls of  *)
(* a lookup are not mixed up, the order of failover, and how many calls a  *)
(* request may cost.                                                       *)
(***************************************************************************)
EXTENDS EnsResolution, TLAPS

(* What the attempt under way is about: the address of a name, the name of *)
(* an address, or whether that name leads back to the address.             *)
Forward ==
  /\ request.name \in Spellings /\ request.address = Absent
  /\ question = [kind |-> "addr", node |-> Lower[request.name]]
  /\ primary = Absent

Reverse ==
  /\ request.name = Absent /\ request.address \in Addresses
  /\ question = [kind |-> "name", node |-> request.address]
  /\ primary = Absent

Checking ==
  /\ request.name = Absent /\ request.address \in Addresses
  /\ primary \in Spellings
  /\ question = [kind |-> "addr", node |-> Lower[primary]]

(* What the log holds of the present endpoint once it has named an address. *)
Naming ==
  [by |-> Endpoint, about |-> [kind |-> "name", node |-> request.address], answer |-> primary]

Config ==
  /\ setting \in Settings
  /\ request \in Requests
  /\ view \in [Endpoints -> Worlds]
  /\ phase \in {"validate", "call", "done"}
  /\ attempt \in DOMAIN Candidates

Start == phase = "validate" => question = NoQuestion /\ resolver = Absent /\ primary = Absent /\ log = {}

Lookup ==
  phase = "call" =>
    /\ Forward \/ Reverse \/ Checking
    /\ resolver # Absent => \E w \in Worlds : resolver = w.resolver[question.node]

(* Nothing in the log comes from an endpoint still to be asked, and of the *)
(* present one only what this attempt has heard.                           *)
Heard ==
  /\ \A entry \in log : \E k \in 1..attempt : entry.by = Candidates[k]
  /\ phase = "call" /\ Reverse => \A entry \in log : entry.by # Endpoint
  /\ phase = "call" /\ Checking =>
       Naming \in log /\ \A entry \in log : entry.by = Endpoint => entry = Naming

(* As long as the records stand still, all that was found agrees with them. *)
Agreeing ==
  phase = "call" /\ steady =>
    /\ resolver # Absent => resolver = ResolverIn(view[Endpoint], question.node)
    /\ Checking => primary = RecordOf(view[Endpoint], request.address)

Outcome ==
  /\ phase # "done" => reply = NoReply
  /\ reply.error = "RPC_UNAVAILABLE" => attempt = Len(Candidates)
  /\ question.kind \in {"none", "name", "addr"}
  /\ primary \in Spellings \cup {Absent}

Inv ==
  /\ Config /\ Start /\ Lookup /\ Heard /\ Agreeing /\ Outcome
  /\ TypeOK /\ VerdictGrounded /\ SteadyAnswers

LEMMA CandidatesKnown ==
  /\ Len(Candidates) \in Nat \ {0} /\ DOMAIN Candidates = 1..Len(Candidates)
  /\ \A j, k \in DOMAIN Candidates : Candidates[j] = Candidates[k] => j = k
<1>1. CASE Candidates = DefaultRpcs
    BY <1>1, EndpointsAssumption
<1>2. CASE \E e : Candidates = <<e>>
    BY <1>2
<1> QED BY <1>1, <1>2 DEF Candidates

LEMMA EmptyReply == NoReply.error = "none" /\ NoReply.verified = Absent /\ NoReply \in Replies
BY DEF Found, NoReply, Replies

LEMMA InitInv == Init => Inv
<1> SUFFICES ASSUME Init PROVE Inv
    OBVIOUS
<1>1. /\ phase = "validate" /\ attempt = 1 /\ question = NoQuestion /\ resolver = Absent
      /\ primary = Absent /\ reply = NoReply /\ log = {}
      /\ setting \in Settings /\ request \in Requests /\ view \in [Endpoints -> Worlds]
    BY DEF Init
<1>2. NoReply.error = "none" /\ NoReply \in Replies /\ NoQuestion.kind = "none"
    BY EmptyReply DEF NoQuestion
<1>3. 1 \in DOMAIN Candidates
    BY CandidatesKnown
<1>4. Config /\ Start /\ Lookup /\ Heard /\ Agreeing
    BY <1>1, <1>3 DEF Config, Start, Lookup, Heard, Agreeing
<1>5. Outcome /\ TypeOK
    BY <1>1, <1>2, <1>3 DEF Outcome, TypeOK
<1>6. VerdictGrounded /\ SteadyAnswers
    BY <1>1 DEF VerdictGrounded, SteadyAnswers
<1> QED BY <1>4, <1>5, <1>6 DEF Inv

(* The replies of a lookup that came to an end. *)
LEMMA FoundReply ==
  ASSUME NEW n \in Spellings \cup Names \cup {Absent}, NEW a \in Addresses \cup {Absent},
         NEW v \in BOOLEAN \cup {Absent}
  PROVE  /\ Found(n, a, v) \in Replies
         /\ Found(n, a, v).error = "none" /\ Found(n, a, v).name = n
         /\ Found(n, a, v).verified = v
BY DEF Found, Replies

LEMMA ErrorReply ==
  ASSUME NEW code \in {"MALFORMED_INVOCATION", "INVALID_NAME", "INVALID_ADDRESS", "RPC_UNAVAILABLE"}
  PROVE  /\ Error(code).error = code /\ Error(code).verified = Absent
         /\ Error(code) \in Replies
BY DEF Error, Found, NoReply, Replies

(* A request that is not refused names one well formed thing. *)
LEMMA Accepted ==
  ASSUME request \in Requests, Refusal(request) = "none"
  PROVE  \/ request.name \in Spellings /\ request.address = Absent
         \/ request.name = Absent /\ request.address \in Addresses
<1>1. /\ request.name \in Spellings \cup {BadInput, Absent}
      /\ request.address \in Addresses \cup {BadInput, Absent}
    BY DEF Requests
<1>2. /\ (request.name = Absent) # (request.address = Absent)
      /\ request.name # BadInput /\ request.address # BadInput
    BY DEF Refusal
<1> QED BY <1>1, <1>2

LEMMA Opens ==
  ASSUME question' = Opening(request), primary' = Absent, UNCHANGED request,
         \/ request.name \in Spellings /\ request.address = Absent
         \/ request.name = Absent /\ request.address \in Addresses
  PROVE  (Forward' \/ Reverse') /\ ~Checking' /\ question'.kind \in {"name", "addr"}
<1>1. CASE request.name \in Spellings
    BY <1>1, NobodyAssumption DEF Opening, Forward, Checking
<1>2. CASE request.name = Absent
    BY <1>2, NobodyAssumption DEF Opening, Reverse, Checking
<1> QED BY <1>1, <1>2

LEMMA ValidateInv == Inv /\ Validate => Inv'
<1> SUFFICES ASSUME Inv, Validate PROVE Inv'
    OBVIOUS
<1>1. /\ phase = "validate" /\ resolver' = Absent /\ primary' = Absent /\ log' = {}
      /\ question = NoQuestion
      /\ UNCHANGED <<setting, view, request, attempt, resolver, primary, steady, log>>
    BY DEF Inv, Start, Validate
<1>2. Config'
  <2>1. Candidates' = Candidates /\ Endpoints' = Endpoints
      BY <1>1 DEF Candidates, Endpoints
  <2>2. phase' \in {"call", "done"}
      BY DEF Validate
  <2> QED BY <1>1, <2>1, <2>2 DEF Inv, Config
<1>3. CASE Refusal(request) = "none"
  <2>1. phase' = "call" /\ question' = Opening(request) /\ reply' = NoReply
      BY <1>1, <1>3 DEF Validate, Inv, Outcome
  <2>2. (Forward' \/ Reverse') /\ ~Checking' /\ question'.kind \in {"name", "addr"}
      BY <1>1, <1>3, <2>1, Accepted, Opens DEF Inv, Config
  <2>3. NoReply.error = "none" /\ NoReply \in Replies
      BY DEF Found, NoReply, Replies
  <2>4. Start' /\ Lookup' /\ Heard' /\ Agreeing'
      BY <1>1, <2>1, <2>2 DEF Start, Lookup, Heard, Agreeing
  <2>5. Outcome' /\ TypeOK'
      BY <1>1, <1>2, <2>1, <2>2, <2>3 DEF Outcome, TypeOK, Config
  <2>6. VerdictGrounded' /\ SteadyAnswers'
      BY <2>1 DEF VerdictGrounded, SteadyAnswers
  <2> QED BY <1>2, <2>4, <2>5, <2>6 DEF Inv
<1>4. CASE Refusal(request) # "none"
  <2>1. phase' = "done" /\ reply' = Error(Refusal(request)) /\ question' = NoQuestion
      BY <1>1, <1>4 DEF Validate
  <2>2. Refusal(request) \in {"MALFORMED_INVOCATION", "INVALID_NAME", "INVALID_ADDRESS"}
      BY <1>4 DEF Refusal
  <2>3. reply'.error = Refusal(request) /\ reply'.verified = Absent /\ reply' \in Replies
      BY <2>1, <2>2, ErrorReply
  <2>4. NoQuestion.kind = "none"
      BY DEF NoQuestion
  <2>5. Start' /\ Lookup' /\ Heard' /\ Agreeing'
      BY <1>1, <2>1 DEF Start, Lookup, Heard, Agreeing
  <2>6. Outcome' /\ TypeOK'
      BY <1>1, <1>2, <2>1, <2>2, <2>3, <2>4 DEF Outcome, TypeOK, Config, Replies
  <2>7. VerdictGrounded' /\ SteadyAnswers'
      BY <2>2, <2>3 DEF VerdictGrounded, SteadyAnswers
  <2> QED BY <1>2, <2>5, <2>6, <2>7 DEF Inv
<1> QED BY <1>3, <1>4

(***************************************************************************)
(* The calls                                                               *)
(***************************************************************************)
Fixed == UNCHANGED <<setting, view, request, attempt>>

LEMMA FixedConfig ==
  ASSUME Inv, Fixed, phase' \in {"call", "done"}
  PROVE  Config' /\ Endpoint' = Endpoint /\ Candidates' = Candidates
<1>1. Candidates' = Candidates /\ Endpoints' = Endpoints
    BY DEF Fixed, Candidates, Endpoints
<1> QED BY <1>1 DEF Fixed, Inv, Config, Endpoint

(* The answer to the question asked is noted, and comes from the present   *)
(* endpoint; if nothing changed it is what the records say.                *)
Answers(answer) ==
  /\ phase = "call" /\ Fixed /\ steady' = steady
  /\ Answered(answer) /\ Note(answer)
  /\ question.kind = "name" => answer \in Spellings \cup {Absent}
  /\ question.kind = "addr" => answer \in Addresses \cup {Absent}
  /\ steady => answer = RecordOf(view[Endpoint], question.node)

(* The endpoint names the address: the name is checked next. *)
LEMMA NameFound ==
  ASSUME Inv, NEW answer, Answers(answer), Reverse, answer # Absent
  PROVE  Inv'
<1>1. /\ primary' = answer /\ question' = [kind |-> "addr", node |-> Lower[answer]]
      /\ resolver' = Absent /\ phase' = "call" /\ reply' = reply
      /\ log' = log \cup {[by |-> Endpoint, about |-> question, answer |-> answer]}
      /\ steady' = steady /\ Fixed /\ answer \in Spellings
    BY DEF Answers, Reverse, Answered, CheckForward, Note
<1>2. Config' /\ Endpoint' = Endpoint /\ Candidates' = Candidates
    BY <1>1, FixedConfig
<1>3. Checking' /\ ~Reverse' /\ Naming' = [by |-> Endpoint, about |-> question, answer |-> answer]
    BY <1>1, <1>2, NobodyAssumption DEF Fixed, Reverse, Checking, Naming
<1>4. Start' /\ Lookup'
    BY <1>1, <1>3 DEF Start, Lookup
<1>5. Heard'
  <2>1. \A entry \in log : entry.by # Endpoint
      BY DEF Inv, Heard, Answers
  <2>2. \E k \in 1..attempt : Endpoint = Candidates[k]
      BY CandidatesKnown DEF Inv, Config, Endpoint
  <2>3. Naming'.by = Endpoint
      BY <1>3
  <2> QED BY <1>1, <1>2, <1>3, <2>1, <2>2, <2>3 DEF Fixed, Inv, Heard
<1>6. Agreeing'
  <2>1. steady => answer = RecordOf(view[Endpoint], request.address)
      BY DEF Answers, Reverse
  <2> QED BY <1>1, <1>2, <2>1 DEF Fixed, Agreeing
<1>7. Outcome' /\ TypeOK'
  <2>1. reply' = NoReply
      BY <1>1 DEF Answers, Inv, Outcome
  <2>2. question'.kind = "addr"
      BY <1>1
  <2> QED BY <1>1, <1>2, <2>1, <2>2, EmptyReply DEF Outcome, TypeOK, Config
<1>8. VerdictGrounded' /\ SteadyAnswers'
    BY <1>1 DEF VerdictGrounded, SteadyAnswers
<1> QED BY <1>2, <1>4, <1>5, <1>6, <1>7, <1>8 DEF Inv

(* Every other answer ends the call. *)
LEMMA Ends ==
  ASSUME Inv, NEW r, Return(r), Fixed, NEW answer, Note(answer), r \in Replies, r.error = "none",
         request.address # Absent => ((r.name = Absent) = (r.verified = Absent)),
         VerdictGrounded', SteadyAnswers'
  PROVE  Inv'
<1>1. /\ phase' = "done" /\ reply' = r /\ UNCHANGED <<question, resolver, primary>>
      /\ log' = log \cup {[by |-> Endpoint, about |-> question, answer |-> answer]}
    BY DEF Return, Note
<1>2. Config' /\ Endpoint' = Endpoint /\ Candidates' = Candidates
    BY <1>1, FixedConfig
<1>3. Start' /\ Lookup' /\ Agreeing'
    BY <1>1 DEF Start, Lookup, Agreeing
<1>4. Heard'
  <2>1. \E k \in 1..attempt : Endpoint = Candidates[k]
      BY CandidatesKnown DEF Inv, Config, Endpoint
  <2> QED BY <1>1, <1>2, <2>1 DEF Fixed, Inv, Heard
<1>5. Outcome' /\ TypeOK'
    BY <1>1, <1>2 DEF Fixed, Inv, Outcome, TypeOK, Config
<1> QED BY <1>2, <1>3, <1>4, <1>5 DEF Inv

(* A name is asked about, and its address, or none, is the reply. *)
LEMMA ForwardEnds ==
  ASSUME Inv, NEW answer, Answers(answer), Forward
  PROVE  Inv'
<1> DEFINE r == Found(Lower[request.name], answer, Absent)
<1>1. Return(r) /\ Fixed /\ Note(answer) /\ steady' = steady
    BY NobodyAssumption DEF Answers, Forward, Answered
<1>2. answer \in Addresses \cup {Absent} /\ Lower[request.name] \in Names
    BY NamesAssumption DEF Answers, Forward
<1>3. r \in Replies /\ r.error = "none" /\ r.verified = Absent
    BY <1>2, FoundReply
<1>4. request.address = Absent
    BY DEF Forward
<1>5. VerdictGrounded'
    BY <1>1, <1>3 DEF Return, VerdictGrounded
<1>6. SteadyAnswers'
  <2>1. steady => answer = RecordOf(view[Endpoint], Lower[request.name])
      BY DEF Answers, Forward
  <2>2. steady => TrueReply(view[Endpoint]) = r
      BY <2>1, NobodyAssumption DEF TrueReply, Forward
  <2>3. phase' \in {"call", "done"}
      BY <1>1 DEF Return
  <2>4. Endpoint' = Endpoint
      BY <1>1, <2>3, FixedConfig
  <2>5. TrueReply(view[Endpoint])' = TrueReply(view[Endpoint])
      BY <1>1, <2>4 DEF Fixed, TrueReply, RecordOf
  <2> QED BY <1>1, <2>2, <2>5 DEF Return, SteadyAnswers
<1> HIDE DEF r
<1> QED BY <1>1, <1>3, <1>4, <1>5, <1>6, Ends

(* Nobody is named: there is nothing to check. *)
LEMMA ReverseEnds ==
  ASSUME Inv, NEW answer, Answers(answer), Reverse, answer = Absent
  PROVE  Inv'
<1> DEFINE r == Found(Absent, request.address, Absent)
<1>1. Return(r) /\ Fixed /\ Note(answer) /\ steady' = steady
    BY NobodyAssumption DEF Answers, Reverse, Answered, Verdict
<1>2. r \in Replies /\ r.error = "none" /\ r.verified = Absent /\ r.name = Absent
    BY FoundReply DEF Reverse
<1>3. VerdictGrounded'
    BY <1>1, <1>2 DEF Return, VerdictGrounded
<1>4. SteadyAnswers'
  <2>1. steady => RecordOf(view[Endpoint], request.address) = Absent
      BY DEF Answers, Reverse
  <2>2. steady => TrueReply(view[Endpoint]) = r
      BY <2>1 DEF TrueReply, Reverse
  <2>3. phase' \in {"call", "done"}
      BY <1>1 DEF Return
  <2>4. Endpoint' = Endpoint
      BY <1>1, <2>3, FixedConfig
  <2>5. TrueReply(view[Endpoint])' = TrueReply(view[Endpoint])
      BY <1>1, <2>4 DEF Fixed, TrueReply, RecordOf
  <2> QED BY <1>1, <2>2, <2>5 DEF Return, SteadyAnswers
<1> HIDE DEF r
<1> QED BY <1>1, <1>2, <1>3, <1>4, Ends

(* The name found is asked about, and its address settles the verdict. *)
LEMMA CheckingEnds ==
  ASSUME Inv, NEW answer, Answers(answer), Checking
  PROVE  Inv'
<1> DEFINE v == answer = request.address
           r == Found(primary, request.address, v)
           said == [by |-> Endpoint, about |-> question, answer |-> answer]
<1>1. /\ Return(r) /\ Fixed /\ Note(answer) /\ steady' = steady
      /\ question.kind = "addr" /\ primary \in Spellings
    BY NobodyAssumption DEF Answers, Checking, Answered, Verdict
<1>2. v \in BOOLEAN /\ v # Absent
    BY NobodyAssumption
<1> HIDE DEF v
<1>3. /\ r \in Replies /\ r.error = "none" /\ r.verified = v
      /\ r.name = primary /\ primary # Absent
    BY <1>1, <1>2, FoundReply, NobodyAssumption DEF Checking
<1>4. phase' = "done" /\ reply' = r /\ log' = log \cup {said}
    BY <1>1 DEF Return, Note
<1>5. Endpoint' = Endpoint /\ request' = request /\ view' = view
    BY <1>1, <1>4, FixedConfig DEF Fixed
<1>6. VerdictGrounded'
  <2>1. Naming \in log /\ \A entry \in log : entry.by = Endpoint => entry = Naming
      BY DEF Inv, Heard, Answers
  <2>2. /\ said.by = Endpoint /\ said.answer = answer
        /\ said.about = [kind |-> "addr", node |-> Lower[primary]]
      BY DEF Checking
  <2>3. /\ Naming.by = Endpoint /\ Naming.answer = primary
        /\ Naming.about = [kind |-> "name", node |-> request.address]
      BY DEF Naming
  <2>4. [kind |-> "addr", node |-> Lower[primary]] # [kind |-> "name", node |-> request.address]
      OBVIOUS
  <2> HIDE DEF said, r
  <2>5. {entry \in log' : entry.by = Endpoint
                          /\ entry.about = [kind |-> "name", node |-> request.address]} = {Naming}
      BY <1>4, <2>1, <2>2, <2>3, <2>4
  <2>6. {entry \in log' : entry.by = Endpoint
                          /\ entry.about = [kind |-> "addr", node |-> Lower[primary]]} = {said}
      BY <1>4, <2>1, <2>2, <2>3, <2>4
  <2>7. {entry.answer : entry \in {Naming}} = {primary}
      BY <2>3
  <2>8. {entry.answer : entry \in {said}} = {answer}
      BY <2>2
  <2>9. r.verified = ({answer} = {request.address})
      BY <1>3 DEF v
  <2> QED BY <1>3, <1>4, <1>5, <2>5, <2>6, <2>7, <2>8, <2>9 DEF VerdictGrounded
<1>7. SteadyAnswers'
  <2>1. steady => /\ answer = RecordOf(view[Endpoint], Lower[primary])
                  /\ primary = RecordOf(view[Endpoint], request.address)
      BY DEF Answers, Checking, Inv, Agreeing
  <2>2. steady => TrueReply(view[Endpoint]) = r
      BY <1>3, <2>1 DEF TrueReply, Checking, v
  <2>3. TrueReply(view[Endpoint])' = TrueReply(view[Endpoint])
      BY <1>5 DEF TrueReply, RecordOf
  <2> QED BY <1>1, <1>4, <2>2, <2>3 DEF SteadyAnswers
<1> HIDE DEF r
<1>8. request.address # Absent => ((r.name = Absent) = (r.verified = Absent))
    BY <1>2, <1>3
<1> QED BY <1>1, <1>3, <1>6, <1>7, <1>8, Ends

LEMMA AnswerInv ==
  ASSUME Inv, NEW answer, Answers(answer)
  PROVE  Inv'
<1>1. Forward \/ Reverse \/ Checking
    BY DEF Inv, Lookup, Answers
<1> QED BY <1>1, NameFound, ForwardEnds, ReverseEnds, CheckingEnds

LEMMA AskRegistryInv == Inv /\ AskRegistry => Inv'
<1> SUFFICES ASSUME Inv, AskRegistry PROVE Inv'
    OBVIOUS
<1> DEFINE found == ResolverIn(view[Endpoint], question.node)
<1>1. phase = "call" /\ Fixed /\ UNCHANGED <<changes, steady>> /\ resolver = Absent
    BY DEF AskRegistry, Fixed
<1>2. CASE found = Absent
  <2>1. Answered(Absent) /\ Note(Absent)
      BY <1>2 DEF AskRegistry
  <2>2. RecordOf(view[Endpoint], question.node) = Absent
      BY <1>2 DEF ResolverIn, RecordOf
  <2> QED BY <1>1, <2>1, <2>2, AnswerInv DEF Answers
<1>3. CASE found # Absent
  <2>1. resolver' = found /\ UNCHANGED <<phase, question, primary, reply, log>>
      BY <1>3 DEF AskRegistry
  <2>2. Config' /\ Endpoint' = Endpoint /\ Candidates' = Candidates
      BY <1>1, <2>1, FixedConfig
  <2>3. /\ Forward' = Forward /\ Reverse' = Reverse /\ Checking' = Checking
        /\ Naming' = Naming
      BY <1>1, <2>1, <2>2 DEF Fixed, Forward, Reverse, Checking, Naming
  <2>4. Start' /\ Heard' /\ Outcome' /\ TypeOK'
      BY <1>1, <2>1, <2>2, <2>3
         DEF Fixed, Inv, Config, Start, Heard, Outcome, TypeOK
  <2>5. view[Endpoint] \in Worlds
      BY CandidatesKnown DEF Inv, Config, Endpoint, Endpoints
  <2>6. Lookup'
      BY <1>1, <2>1, <2>3, <2>5 DEF Inv, Lookup, ResolverIn
  <2>7. Agreeing'
      BY <1>1, <2>1, <2>2, <2>3 DEF Fixed, Inv, Agreeing
  <2>8. VerdictGrounded' /\ SteadyAnswers'
      BY <1>1, <2>1 DEF VerdictGrounded, SteadyAnswers
  <2> QED BY <2>2, <2>4, <2>6, <2>7, <2>8 DEF Inv
<1> QED BY <1>2, <1>3

LEMMA AskResolverInv == Inv /\ AskResolver => Inv'
<1> SUFFICES ASSUME Inv, AskResolver PROVE Inv'
    OBVIOUS
<1> DEFINE answer == RecordIn(view[Endpoint], resolver, question.node)
<1>1. /\ phase = "call" /\ Fixed /\ steady' = steady /\ resolver # Absent
      /\ answer # Reverts /\ Answered(answer) /\ Note(answer)
    BY DEF AskResolver, Fixed
<1>2. view[Endpoint] \in Worlds
    BY CandidatesKnown DEF Inv, Config, Endpoint, Endpoints
<1>3. PICK w \in Worlds : resolver = w.resolver[question.node]
    BY <1>1 DEF Inv, Lookup
<1>4. \/ question.kind = "name" /\ question.node \in Addresses
      \/ question.kind = "addr" /\ question.node \in Names
    BY <1>1, NamesAssumption DEF Inv, Lookup, Forward, Reverse, Checking
<1>5. /\ question.kind = "name" => answer \in Spellings \cup {Absent}
      /\ question.kind = "addr" => answer \in Addresses \cup {Absent}
    BY <1>1, <1>2, <1>3, <1>4, WorldsAssumption DEF RecordIn
<1>6. steady => answer = RecordOf(view[Endpoint], question.node)
    BY <1>1 DEF Inv, Agreeing, ResolverIn, RecordIn, RecordOf
<1> HIDE DEF answer
<1>7. Answers(answer)
    BY <1>1, <1>5, <1>6 DEF Answers
<1> QED BY <1>7, AnswerInv

LEMMA CallRaisesInv == Inv /\ CallRaises => Inv'
<1> SUFFICES ASSUME Inv, CallRaises PROVE Inv'
    OBVIOUS
<1>1. /\ phase = "call" /\ steady' = TRUE
      /\ UNCHANGED <<setting, view, changes, request, log>>
    BY DEF CallRaises
<1>2. Candidates' = Candidates /\ Endpoints' = Endpoints
    BY <1>1 DEF Candidates, Endpoints
<1>3. attempt \in 1..Len(Candidates) /\ reply = NoReply
    BY <1>1, CandidatesKnown DEF Inv, Config, Outcome
<1>4. CASE MoreEndpoints
  <2>1. /\ attempt' = attempt + 1 /\ question' = Opening(request) /\ resolver' = Absent
        /\ primary' = Absent /\ phase' = "call" /\ reply' = NoReply
      BY <1>1, <1>3, <1>4 DEF CallRaises, NextEndpoint, Restart
  <2>2. attempt' \in 1..Len(Candidates)
      BY <1>3, <1>4, <2>1, CandidatesKnown DEF MoreEndpoints
  <2>3. \/ request.name \in Spellings /\ request.address = Absent
        \/ request.name = Absent /\ request.address \in Addresses
      BY <1>1 DEF Inv, Lookup, Forward, Reverse, Checking
  <2>4. (Forward' \/ Reverse') /\ ~Checking' /\ question'.kind \in {"name", "addr"}
      BY <1>1, <2>1, <2>3, Opens
  <2>5. Config'
      BY <1>1, <1>2, <2>1, <2>2, CandidatesKnown DEF Inv, Config
  <2>6. Start' /\ Lookup' /\ Agreeing'
      BY <2>1, <2>4 DEF Start, Lookup, Agreeing
  <2>7. Heard'
    <3>1. \A entry \in log : \E k \in 1..attempt : entry.by = Candidates[k]
        BY DEF Inv, Heard
    <3>2. \A k \in 1..attempt : k \in DOMAIN Candidates /\ k # attempt' /\ k \in 1..attempt'
        BY <1>3, <2>1, CandidatesKnown
    <3>3. \A k \in 1..attempt : Candidates[k] # Endpoint'
        BY <1>2, <2>2, <3>2, CandidatesKnown DEF Endpoint
    <3> QED BY <1>1, <1>2, <2>4, <3>1, <3>2, <3>3 DEF Heard
  <2>8. Outcome' /\ TypeOK'
      BY <2>1, <2>4, <2>5, EmptyReply DEF Config, Outcome, TypeOK
  <2>9. VerdictGrounded' /\ SteadyAnswers'
      BY <2>1 DEF VerdictGrounded, SteadyAnswers
  <2> QED BY <2>5, <2>6, <2>7, <2>8, <2>9 DEF Inv
<1>5. CASE ~MoreEndpoints
  <2>1. /\ phase' = "done" /\ reply' = Error("RPC_UNAVAILABLE")
        /\ UNCHANGED <<attempt, question, resolver, primary>>
      BY <1>5 DEF CallRaises
  <2>2. attempt' = Len(Candidates')
    <3>1. ~(attempt < Len(Candidates)) /\ attempt \in 1..Len(Candidates)
        BY <1>3, <1>5 DEF MoreEndpoints
    <3>2. Len(Candidates) \in Nat
        BY CandidatesKnown
    <3>3. attempt = Len(Candidates)
        BY <3>1, <3>2
    <3> QED BY <1>2, <2>1, <3>3
  <2>3. reply'.error = "RPC_UNAVAILABLE" /\ reply'.verified = Absent /\ reply' \in Replies
      BY <2>1, ErrorReply
  <2>4. Config'
      BY <1>1, <1>2, <2>1 DEF Inv, Config
  <2>5. Start' /\ Lookup' /\ Agreeing'
      BY <2>1 DEF Start, Lookup, Agreeing
  <2>6. Heard'
      BY <1>1, <1>2, <2>1 DEF Inv, Heard
  <2>7. Outcome' /\ TypeOK'
      BY <1>2, <2>1, <2>2, <2>3, <2>4 DEF Inv, Config, Outcome, TypeOK
  <2>8. VerdictGrounded' /\ SteadyAnswers'
      BY <2>3 DEF VerdictGrounded, SteadyAnswers
  <2> QED BY <2>4, <2>5, <2>6, <2>7, <2>8 DEF Inv
<1> QED BY <1>4, <1>5

LEMMA ViewChangesInv == Inv /\ ViewChanges => Inv'
<1> SUFFICES ASSUME Inv, ViewChanges PROVE Inv'
    OBVIOUS
<1>1. /\ phase = "call"
      /\ UNCHANGED <<setting, request, phase, attempt, question, resolver, primary, reply, log>>
    BY DEF ViewChanges
<1>2. PICK e \in Endpoints, w \in Worlds :
        view' = [view EXCEPT ![e] = w] /\ steady' = (steady /\ e # Endpoint)
    BY DEF ViewChanges
<1>3. Candidates' = Candidates /\ Endpoints' = Endpoints /\ Endpoint' = Endpoint
    BY <1>1 DEF Candidates, Endpoints, Endpoint
<1>4. Config'
    BY <1>1, <1>2, <1>3 DEF Inv, Config
<1>5. steady' => steady /\ view'[Endpoint] = view[Endpoint]
    BY <1>2, CandidatesKnown DEF Inv, Config, Endpoint, Endpoints
<1>6. /\ Forward' = Forward /\ Reverse' = Reverse /\ Checking' = Checking
      /\ Naming' = Naming
    BY <1>1, <1>3 DEF Forward, Reverse, Checking, Naming
<1>7. Start' /\ Lookup' /\ Heard'
    BY <1>1, <1>3, <1>6 DEF Inv, Start, Lookup, Heard
<1>8. Outcome' /\ TypeOK'
    BY <1>1, <1>3, <1>4 DEF Inv, Config, Outcome, TypeOK
<1>9. Agreeing'
    BY <1>1, <1>3, <1>5, <1>6 DEF Inv, Agreeing, ResolverIn, RecordOf
<1>10. VerdictGrounded' /\ SteadyAnswers'
    BY <1>1 DEF VerdictGrounded, SteadyAnswers
<1> QED BY <1>4, <1>7, <1>8, <1>9, <1>10 DEF Inv

LEMMA StutterInv == Inv /\ UNCHANGED vars => Inv'
<1> SUFFICES ASSUME Inv, UNCHANGED vars PROVE Inv'
    OBVIOUS
<1>1. /\ Candidates' = Candidates /\ Endpoints' = Endpoints /\ Endpoint' = Endpoint
    BY DEF vars, Candidates, Endpoints, Endpoint
<1>2. /\ Forward' = Forward /\ Reverse' = Reverse /\ Checking' = Checking
      /\ Naming' = Naming
    BY <1>1 DEF vars, Forward, Reverse, Checking, Naming
<1>3. Config' /\ Start' /\ Lookup' /\ Heard' /\ Outcome' /\ TypeOK'
    BY <1>1, <1>2 DEF vars, Inv, Config, Start, Lookup, Heard, Outcome, TypeOK
<1>4. Agreeing'
    BY <1>1, <1>2 DEF vars, Inv, Agreeing
<1>5. VerdictGrounded'
    BY <1>1 DEF vars, Inv, VerdictGrounded
<1>6. SteadyAnswers'
  <2>1. TrueReply(view[Endpoint])' = TrueReply(view[Endpoint])
      BY <1>1 DEF vars, TrueReply, RecordOf
  <2> QED BY <2>1 DEF vars, Inv, SteadyAnswers
<1> QED BY <1>3, <1>4, <1>5, <1>6 DEF Inv

LEMMA NextInv == Inv /\ [Next]_vars => Inv'
BY ValidateInv, AskRegistryInv, AskResolverInv, CallRaisesInv, ViewChangesInv, StutterInv
   DEF Next, Handler

(* The inductive invariant holds throughout. *)
THEOREM InvHolds == Spec => []Inv
BY InitInv, NextInv, PTL DEF Spec

(* For any names, endpoints and records: replies are of the shapes the     *)
(* handler gives, and a verdict comes with a primary name and only with    *)
(* one (ens.py:119-123).                                                   *)
THEOREM TypeCorrect == Spec => []TypeOK
<1>1. Inv => TypeOK
    BY DEF Inv
<1> QED BY <1>1, InvHolds, PTL

(* However records change and calls fail, a verdict rests on what one      *)
(* endpoint said in one attempt (ens.py:3-6, 109-127).                     *)
THEOREM VerdictIsGrounded == Spec => []VerdictGrounded
<1>1. Inv => VerdictGrounded
    BY DEF Inv
<1> QED BY <1>1, InvHolds, PTL

(* Whatever the records are: where they stand still during an attempt, the *)
(* reply is what they say (ens.py:54-85, 108-125).                         *)
THEOREM SteadyIsTrue == Spec => []SteadyAnswers
<1>1. Inv => SteadyAnswers
    BY DEF Inv
<1> QED BY <1>1, InvHolds, PTL

(* For any list of endpoints: they are tried in order, each attempt starts *)
(* afresh, and the network is blamed only after the last (ens.py:108-129). *)
THEOREM FailoverOrdered == Spec => FailoverInOrder
<1>1. Inv /\ [Next]_vars =>
        [ /\ attempt' \in {attempt, attempt + 1}
          /\ attempt' # attempt => reply' = NoReply /\ question' = Opening(request)
          /\ reply'.error = "RPC_UNAVAILABLE" => attempt' = Len(Candidates)
          /\ phase = "done" => reply' = reply
        ]_<<phase, attempt, reply>>
  <2> SUFFICES ASSUME Inv, [Next]_vars
               PROVE  \/ /\ attempt' \in {attempt, attempt + 1}
                         /\ attempt' # attempt => reply' = NoReply /\ question' = Opening(request)
                         /\ reply'.error = "RPC_UNAVAILABLE" => attempt' = Len(Candidates)
                         /\ phase = "done" => reply' = reply
                      \/ UNCHANGED <<phase, attempt, reply>>
      OBVIOUS
  <2>1. Inv'
      BY NextInv
  <2>2. setting' = setting
      BY DEF Next, Handler, Validate, AskRegistry, AskResolver, CallRaises, ViewChanges, vars
  <2>3. reply'.error = "RPC_UNAVAILABLE" => attempt' = Len(Candidates)
      BY <2>1, <2>2 DEF Inv, Outcome, Candidates
  <2>4. CASE Validate
      BY <2>3, <2>4 DEF Validate
  <2>5. CASE AskRegistry \/ AskResolver
      BY <2>3, <2>5 DEF AskRegistry, AskResolver
  <2>6. CASE CallRaises
    <3>1. phase = "call" /\ reply = NoReply
        BY <2>6 DEF CallRaises, Inv, Outcome
    <3> QED BY <2>3, <2>6, <3>1 DEF CallRaises, NextEndpoint, Restart
  <2>7. CASE ViewChanges \/ UNCHANGED vars
      BY <2>7 DEF ViewChanges, vars
  <2> QED BY <2>4, <2>5, <2>6, <2>7 DEF Next, Handler
<1> QED BY <1>1, InvHolds, PTL DEF Spec, FailoverInOrder


(***************************************************************************)
(* The length of a request                                                 *)
(***************************************************************************)

(* The calls an attempt may still make, and all that a request may. *)
CallsLeft ==
  (IF question.kind = "name" THEN 2 ELSE 0) + (IF resolver = Absent THEN 2 ELSE 1)
StepsLeft ==
  IF phase = "validate" THEN 4 * Len(Candidates) + 1
  ELSE IF phase = "call" THEN 4 * (Len(Candidates) - attempt) + CallsLeft ELSE 0

(* However answers come, calls fail and records change, every step of the  *)
(* handler brings the end nearer, and changing records do not put it off.  *)
CountsDown == [][IF view' = view THEN StepsLeft' < StepsLeft ELSE StepsLeft' = StepsLeft]_vars

LEMMA StepsTyped ==
  Inv => /\ StepsLeft \in 0..(4 * Len(Candidates) + 1)
         /\ phase = "call" => StepsLeft \in Nat \ {0}
<1> SUFFICES ASSUME Inv PROVE /\ StepsLeft \in 0..(4 * Len(Candidates) + 1)
                              /\ phase = "call" => StepsLeft \in Nat \ {0}
    OBVIOUS
<1>1. PICK n \in Nat \ {0} : n = Len(Candidates)
    BY CandidatesKnown
<1>2. attempt \in 1..n /\ phase \in {"validate", "call", "done"}
    BY <1>1, CandidatesKnown DEF Inv, Config
<1>3. CallsLeft \in 1..4
    BY DEF CallsLeft
<1> QED BY <1>1, <1>2, <1>3 DEF StepsLeft

LEMMA StepCounts ==
  Inv /\ Inv' /\ Handler => view' = view /\ StepsLeft' < StepsLeft
<1> SUFFICES ASSUME Inv, Inv', Handler PROVE view' = view /\ StepsLeft' < StepsLeft
    OBVIOUS
<1>1. PICK n \in Nat \ {0} : n = Len(Candidates)
    BY CandidatesKnown
<1>2. UNCHANGED <<setting, view, request>> /\ Len(Candidates)' = n
    BY <1>1 DEF Handler, Validate, AskRegistry, AskResolver, CallRaises, Candidates
<1>3. /\ attempt \in 1..n /\ phase \in {"validate", "call", "done"}
      /\ CallsLeft \in 1..4 /\ CallsLeft' \in 1..4
    BY <1>1, CandidatesKnown DEF Inv, Config, CallsLeft
<1>4. phase' = "done" /\ phase # "done" => StepsLeft' < StepsLeft
    BY <1>1, <1>3 DEF StepsLeft
<1>5. CASE Validate
  <2>1. phase = "validate" /\ attempt' = attempt /\ phase' \in {"call", "done"}
      BY <1>5 DEF Validate
  <2>2. StepsLeft = 4 * n + 1
      BY <1>1, <2>1 DEF StepsLeft
  <2>3. phase' = "call" => StepsLeft' = 4 * (n - attempt) + CallsLeft'
      BY <1>2, <2>1 DEF StepsLeft
  <2> QED BY <1>2, <1>3, <1>4, <2>1, <2>2, <2>3
<1>6. CASE AskRegistry \/ AskResolver
  <2>1. phase = "call" /\ attempt' = attempt /\ StepsLeft = 4 * (n - attempt) + CallsLeft
      BY <1>1, <1>6 DEF AskRegistry, AskResolver, StepsLeft
  <2>2. phase' = "done" \/ (phase' = "call" /\ CallsLeft' < CallsLeft)
    <3>1. ASSUME NEW answer, Answered(answer)
          PROVE  \/ phase' = "done"
                 \/ /\ question.kind = "name" /\ answer # Absent /\ phase' = "call"
                    /\ question'.kind = "addr" /\ resolver' = Absent
        BY <2>1, <3>1 DEF Answered, CheckForward, Return
    <3>2. CASE AskRegistry
      <4>1. \/ phase' = "done"
            \/ phase' = "call" /\ resolver = Absent /\ resolver' # Absent /\ question' = question
          BY <2>1, <3>1, <3>2 DEF AskRegistry
      <4> QED BY <4>1 DEF CallsLeft
    <3>3. CASE AskResolver
      <4>1. \/ phase' = "done"
            \/ /\ phase' = "call" /\ question.kind = "name"
               /\ question'.kind = "addr" /\ resolver' = Absent
          BY <3>1, <3>3 DEF AskResolver
      <4> QED BY <4>1 DEF CallsLeft
    <3> QED BY <1>6, <3>2, <3>3
  <2>3. phase' = "call" => StepsLeft' = 4 * (n - attempt) + CallsLeft'
      BY <1>2, <2>1 DEF StepsLeft
  <2> QED BY <1>2, <1>3, <1>4, <2>1, <2>2, <2>3
<1>7. CASE CallRaises
  <2>1. phase = "call" /\ StepsLeft = 4 * (n - attempt) + CallsLeft
      BY <1>1, <1>7 DEF CallRaises, StepsLeft
  <2>2. phase' = "done" \/ (phase' = "call" /\ attempt' = attempt + 1)
      BY <1>7, <2>1 DEF CallRaises, NextEndpoint
  <2>3. phase' = "call" => StepsLeft' = 4 * (n - attempt') + CallsLeft'
      BY <1>2 DEF StepsLeft
  <2> QED BY <1>2, <1>3, <1>4, <2>1, <2>2, <2>3
<1> QED BY <1>5, <1>6, <1>7 DEF Handler

(* For any list of endpoints, a request ends after at most four calls to   *)
(* each (ens.py:108-127): with the bound that StepsTyped gives, Spec needs *)
(* no more fairness to terminate than that the handler is run.             *)
THEOREM HandlerCountsDown ==
  Spec => [](StepsLeft \in 0..(4 * Len(Candidates) + 1)) /\ CountsDown
<1>1. Inv /\ Inv' /\ [Next]_vars =>
        [IF view' = view THEN StepsLeft' < StepsLeft ELSE StepsLeft' = StepsLeft]_vars
  <2> SUFFICES ASSUME Inv, Inv', [Next]_vars
               PROVE  \/ IF view' = view THEN StepsLeft' < StepsLeft ELSE StepsLeft' = StepsLeft
                      \/ UNCHANGED vars
      OBVIOUS
  <2>1. CASE Handler
      BY <2>1, StepCounts
  <2>2. CASE ViewChanges
    <3>1. UNCHANGED <<setting, phase, attempt, question, resolver>>
        BY <2>2 DEF ViewChanges
    <3>2. StepsLeft' = StepsLeft
        BY <3>1 DEF StepsLeft, CallsLeft, Candidates
    <3>3. view' # view
      <4>1. PICK e \in Endpoints, w \in Worlds : w # view[e] /\ view' = [view EXCEPT ![e] = w]
          BY <2>2 DEF ViewChanges
      <4>2. e \in DOMAIN view
          BY <4>1 DEF Inv, Config
      <4>3. view'[e] = w
          BY <4>1, <4>2
      <4> QED BY <4>1, <4>3
    <3> QED BY <3>2, <3>3
  <2>3. CASE UNCHANGED vars
      BY <2>3
  <2> QED BY <2>1, <2>2, <2>3 DEF Next
<1>2. Inv => StepsLeft \in 0..(4 * Len(Candidates) + 1)
    BY StepsTyped
<1> QED BY <1>1, <1>2, InvHolds, PTL DEF Spec, CountsDown
===============================================================================
