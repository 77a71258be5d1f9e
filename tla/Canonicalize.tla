----------------------------- MODULE Canonicalize -----------------------------
(***************************************************************************)
(* canonicalize() of evm_canon/pipeline.py, behind POST /canonicalize and  *)
(* the command line: detect (detect.py), resolve (resolve.py, registry.py, *)
(* llm.py), validate (validate.py), report.                                *)
(*                                                                         *)
(* One behaviour is one payload taken through the stages in the order of   *)
(* the code, so that the first stage that objects decides the error; a     *)
(* caller may then submit the result again, as agents chaining calls do.   *)
(* The model and the chain are external: what they answer is a choice.     *)
(*                                                                         *)
(* A payload is what detection makes of the caller's JSON: aliases of keys *)
(* are one key, texts are stripped, and a field whose JSON type detection  *)
(* drops is Absent.  Fields whose form matters are cells [form, value].    *)
(* An amount with a fraction is [n, k], standing for n / 10^k.             *)
(***************************************************************************)
EXTENDS TokenRegistry, DecimalMath

CONSTANTS
  Payloads,      \* payloads considered
  MaxDecimals,   \* 255: what a decimals field may hold
  Precision,     \* 300: digits of the decimal context
  MaxExponent,   \* 999999: its largest exponent, and the smallest negated
  TextLimit,     \* 4300: digits int() and str() convert
  SecondsBelow,  \* 10**11: numbers below it are unix seconds
  MillisFrom,    \* 10**12: numbers from here ...
  MillisBelow,   \* 10**14: ... to here are milliseconds
  PerSecond      \* 1000

VARIABLES
  payload,  \* what the caller sent
  phase,    \* the next stage, or "done", "failed", "raised"
  error,    \* code of the typed error
  chain,    \* chain id, or Absent
  asset,    \* address, symbol, name, decimals, native, wrapped
  amount,   \* raw and human amount
  stamp,    \* instant, or Absent
  report,   \* ambiguous, by, scam, inferred
  answer,   \* history: what the model or the chain answered
  earlier   \* history: the result this payload is made of, or Absent

vars == <<payload, phase, error, chain, asset, amount, stamp, report, answer, earlier>>

(* The places after the point of the smallest number of the context, and   *)
(* how far it shifts a number.                                             *)
Places == MaxExponent + Precision - 1
ShiftLimit == 2 * (MaxExponent + Precision)

Optional(S) == S \cup {Absent}
NoCell == [form |-> "absent"]

(* What detection can make of the fields of a JSON object.  More digits    *)
(* than int() takes are "endless", for a chain id too; a time "beyond" has *)
(* such digits, is an infinite or NaN number, or has an offset that leads  *)
(* out of the calendar.  Fractions of a million places are left out.       *)
ChainCells ==
  {NoCell} \cup [form : {"endless"}]
  \cup [form : {"id"}, value : Int] \cup [form : {"alias"}, value : STRING]
DecimalCells ==
  {NoCell} \cup [form : {"endless"}]
  \cup [form : {"int"}, value : Int] \cup [form : {"digits"}, value : Nat]
AmountCells ==
  {NoCell} \cup [form : {"other", "infinity", "nan"}]
  \cup [form : {"int"}, value : Int]
  \cup [form : {"digits"}, human : BOOLEAN, value : Nat]
  \cup [form : {"fraction", "float"}, n : Int, k : 0..Places]
TimeCells ==
  {NoCell} \cup [form : {"unparseable", "beyond"}]
  \cup [form : {"iso", "naive", "number"}, value : Int]
PayloadType ==
  [address : Optional(Texts), symbol : Optional(Texts), name : Optional(Texts),
   chainId : Optional(Int), chain : ChainCells, hint : Optional(STRING),
   prefer : {"registry", "onchain"}, decimals : DecimalCells, amount : AmountCells,
   time : TimeCells, schema : {"default", "accepting", "refusing"}]

ASSUME PayloadsAssumption == Payloads \subseteq PayloadType
ASSUME NumbersAssumption ==
  /\ {MaxDecimals, MillisBelow} \subseteq Nat
  /\ {Precision, MillisFrom, PerSecond, TextLimit, MaxExponent} \subseteq Nat \ {0}
  /\ MaxDecimals <= MaxExponent
  /\ SecondsBelow \in 0..MillisFrom
NoAsset ==
  [address |-> Absent, symbol |-> Absent, name |-> Absent, decimals |-> Absent,
   native |-> Absent, wrapped |-> Absent]
NoAmount == [raw |-> Absent, human |-> Absent]
NoReport == [ambiguous |-> FALSE, by |-> "heuristic", scam |-> FALSE, inferred |-> {}]

Result == [chain |-> chain, asset |-> asset, amount |-> amount, stamp |-> stamp]

Init ==
  /\ payload \in Payloads
  /\ phase = "chain"
  /\ error = "none"
  /\ chain = Absent
  /\ asset = NoAsset
  /\ amount = NoAmount
  /\ stamp = Absent
  /\ report = NoReport
  /\ answer = Absent
  /\ earlier = Absent

Fail(code) ==
  /\ phase' = "failed"
  /\ error' = code

(***************************************************************************)
(* detect                                                                  *)
(***************************************************************************)

(* An address may hide in the symbol or, failing that, the name field. *)
Hidden ==
  IF payload.address # Absent THEN {}
  ELSE IF payload.symbol \in DOMAIN Checksum THEN {"symbol"}
  ELSE IF payload.name \in DOMAIN Checksum THEN {"name"} ELSE {}

AddressText ==
  CASE "symbol" \in Hidden -> payload.symbol
    [] "name" \in Hidden -> payload.name
    [] OTHER -> payload.address
SymbolText == IF "symbol" \in Hidden THEN Absent ELSE payload.symbol
NameText == IF "name" \in Hidden THEN Absent ELSE payload.name

(* Mutant: an integer is only bounded from above. *)
StatedDecimalsSigned ==
  LET c == payload.decimals
  IN  IF c.form = "digits" \/ (c.form = "int" /\ c.value <= MaxDecimals)
      THEN c.value ELSE Absent
(* A JSON integer is dropped when out of range, a string of digits is not. *)
StatedDecimals ==
  LET c == payload.decimals
  IN  IF c.form = "digits" \/ (c.form = "int" /\ c.value \in 0..MaxDecimals)
      THEN c.value ELSE Absent

(* Mutant: only JSON integers are raw amounts. *)
StatedRawIntegers ==
  IF payload.amount.form = "int" THEN {payload.amount.value} ELSE {}
(* An integer is a raw amount whatever its sign; digits are raw unless the *)
(* key says human; fractions and floats are human; anything else is not    *)
(* an amount.                                                              *)
StatedRaw ==
  LET c == payload.amount
  IN  IF c.form = "int" \/ (c.form = "digits" /\ ~c.human) THEN {c.value} ELSE {}
StatedHuman ==
  LET c == payload.amount
  IN  CASE c.form = "digits" /\ c.human -> {[n |-> c.value, k |-> 0]}
        [] c.form \in {"fraction", "float"} -> {[n |-> c.n, k |-> c.k]}
        [] OTHER -> {}

(***************************************************************************)
(* resolve: the chain                                                      *)
(***************************************************************************)

(* The chain id, given as such or in the chain field, else the chain's     *)
(* name, else the hint.                                                    *)
StatedIds ==
  IF payload.chainId # Absent THEN {payload.chainId}
  ELSE IF payload.chain.form = "id" THEN {payload.chain.value} ELSE {}
StatedNames == IF payload.chain.form = "alias" THEN {payload.chain.value} ELSE {}
Hinted == {payload.hint} \ {Absent}
ChainStated == StatedIds # {} \/ StatedNames # {}

Meant ==
  IF StatedIds # {} THEN StatedIds \cap ChainIds
  ELSE {Alias[s] : s \in DOMAIN Alias \cap
                         (IF StatedNames # {} THEN StatedNames ELSE Hinted)}

(* Mutant: a hint counts although the payload states its chain. *)
FromAnyHint == Hinted # {} /\ Meant # {}
FromHint == ~ChainStated /\ Meant # {}

(* int() refuses a text of more digits with a ValueError. *)
Endless == "endless" \in {payload.decimals.form, payload.chain.form}

RaiseOnDetection ==
  /\ phase = "chain"
  /\ Endless
  /\ phase' = "raised"
  /\ UNCHANGED <<payload, error, chain, asset, amount, stamp, report, answer, earlier>>

ResolveChain ==
  /\ phase = "chain"
  /\ ~Endless
  /\ Meant # {} => chain' \in Meant
  /\ Meant = {} => UNCHANGED chain
  /\ IF Meant = {} /\ (ChainStated \/ Hinted # {})
       THEN Fail("UNKNOWN_CHAIN")
       ELSE phase' = "asset" /\ UNCHANGED error
  /\ report' = [report EXCEPT !.inferred = IF FromHint THEN {"chainId"} ELSE {}]
  /\ UNCHANGED <<payload, asset, amount, stamp, answer, earlier>>

(***************************************************************************)
(* resolve: the asset                                                      *)
(***************************************************************************)
ByAddress == phase = "asset" /\ AddressText # Absent

RefuseAddress ==
  /\ ByAddress
  /\ AddressText \notin DOMAIN Checksum
  /\ Fail("INVALID_ADDRESS")
  /\ UNCHANGED <<payload, chain, asset, amount, stamp, report, answer, earlier>>

(* Mutant: the caller's symbol stands. *)
RegisteredAs(t) ==
  [address |-> t.address, symbol |-> IF SymbolText = Absent THEN t.symbol ELSE SymbolText,
   name |-> t.name, decimals |-> t.decimals, native |-> FALSE,
   wrapped |-> WrappedOf(chain, t.address)]
Registered(t) ==
  [address |-> t.address, symbol |-> t.symbol, name |-> t.name,
   decimals |-> t.decimals, native |-> FALSE,
   wrapped |-> WrappedOf(chain, t.address)]

KnownAddress ==
  /\ ByAddress
  /\ AddressText \in DOMAIN Checksum
  /\ \E t \in TokensByAddress(chain, Checksum[AddressText]) :
       asset' = Registered(t)
  /\ report' = [report EXCEPT !.by = "registry"]
  /\ phase' = "amount"
  /\ UNCHANGED <<payload, error, chain, amount, stamp, answer, earlier>>

(* Mutant: the symbol is compared as it is spelled. *)
ImpostorAsSpelled ==
  chain # Absent /\ \E t \in Tokens : t.chainId = chain /\ t.symbol = SymbolText
(* A symbol that belongs to other contracts of the chain. *)
Impostor ==
  /\ chain # Absent
  /\ SymbolText # Absent
  /\ TokensBySymbol(SymbolText, chain) # {}

(* Mutant: the chain is asked without the caller's consent. *)
ReadsAnyway == StatedDecimals = Absent /\ chain # Absent
ReadsChain == StatedDecimals = Absent /\ chain # Absent /\ payload.prefer = "onchain"

(* The caller's address is kept as it is, and an impostor flagged. *)
UnknownAddress ==
  /\ ByAddress
  /\ AddressText \in DOMAIN Checksum
  /\ TokensByAddress(chain, Checksum[AddressText]) = {}
  /\ asset' = [address |-> Checksum[AddressText], symbol |-> SymbolText,
               name |-> NameText, decimals |-> StatedDecimals, native |-> FALSE,
               wrapped |-> Absent]
  /\ report' = [report EXCEPT !.scam = Impostor]
  /\ phase' = IF ReadsChain THEN "read" ELSE "amount"
  /\ UNCHANGED <<payload, error, chain, amount, stamp, answer, earlier>>

(* External: decimals() of the contract.  No endpoint, a failed call, an   *)
(* empty answer and one out of range all give None.                        *)
ReadDecimals ==
  /\ phase = "read"
  /\ answer' \in 0..MaxDecimals \cup {Absent}
  /\ IF answer' = Absent
       THEN UNCHANGED <<asset, report>>
       ELSE /\ asset' = [asset EXCEPT !.decimals = answer']
            /\ report' = [report EXCEPT !.by = "onchain", !.inferred = @ \cup {"decimals"}]
  /\ phase' = "amount"
  /\ UNCHANGED <<payload, error, chain, amount, stamp, earlier>>

ByTicker == phase = "asset" /\ AddressText = Absent /\ SymbolText # Absent

Candidates(c) == TokensBySymbol(SymbolText, c) \cup NativeCandidates(SymbolText, c)

RefuseTicker ==
  /\ ByTicker
  /\ Candidates(chain) = {}
  /\ Fail("TICKER_UNRESOLVED")
  /\ UNCHANGED <<payload, chain, asset, amount, stamp, report, answer, earlier>>

Adopt(t, by) ==
  /\ asset' = [address |-> t.address, symbol |-> t.symbol, name |-> t.name,
               decimals |-> t.decimals, native |-> t.address = Absent,
               wrapped |-> WrappedOf(t.chainId, t.address)]
  /\ chain' = t.chainId
  /\ report' = [report EXCEPT !.by = by,
                  !.inferred = @ \cup IF chain = Absent THEN {"chainId"} ELSE {}]
  /\ phase' = "amount"

UniqueTicker ==
  /\ ByTicker
  /\ Cardinality(Candidates(chain)) = 1
  /\ \E t \in Candidates(chain) : Adopt(t, "registry")
  /\ UNCHANGED <<payload, error, amount, stamp, answer, earlier>>

AmbiguousTicker ==
  /\ ByTicker
  /\ Cardinality(Candidates(chain)) > 1
  /\ report' = [report EXCEPT !.ambiguous = TRUE]
  /\ phase' = "pick"
  /\ UNCHANGED <<payload, error, chain, asset, amount, stamp, answer, earlier>>

Identity(t) == [chainId |-> t.chainId, address |-> t.address]

(* External: the model, if one is wired.  It may name any asset, nothing,  *)
(* or fail; no model is a model that names nothing.                        *)
Picks == [chainId : ChainIds, address : Addresses \cup {Absent}] \cup {Absent}

(* Mutant: the chain it names is enough. *)
EndorsedOnChain(t) == answer' # Absent /\ answer'.chainId = t.chainId
(* The answer counts only if it is exactly one candidate's identity. *)
Endorsed(t) == answer' = Identity(t)

PickCandidate ==
  /\ phase = "pick"
  /\ answer' \in Picks
  /\ \E t \in Candidates(chain) : Endorsed(t) /\ Adopt(t, "heuristic")
  /\ UNCHANGED <<payload, error, amount, stamp, earlier>>

NoCandidatePicked ==
  /\ phase = "pick"
  /\ answer' \in Picks
  /\ \A t \in Candidates(chain) : ~Endorsed(t)
  /\ Fail("TICKER_AMBIGUOUS")
  /\ UNCHANGED <<payload, chain, asset, amount, stamp, report, earlier>>

(* An address that is no text has no lower(). *)
PickRaises ==
  /\ phase = "pick"
  /\ phase' = "raised"
  /\ UNCHANGED <<payload, error, chain, asset, amount, stamp, report, answer, earlier>>

NothingToResolve ==
  /\ phase = "asset"
  /\ AddressText = Absent /\ SymbolText = Absent
  /\ asset' = [NoAsset EXCEPT !.name = NameText, !.decimals = StatedDecimals]
  /\ phase' = "amount"
  /\ UNCHANGED <<payload, error, chain, amount, stamp, report, answer, earlier>>

(***************************************************************************)
(* resolve: amount and timestamp                                           *)
(***************************************************************************)

HumanOf(raw, decimals) == Trimmed(Shifted(raw, decimals, Precision, Places), decimals)

(* Mutant: what does not fit is cut off. *)
RawOfTruncated(h, decimals) ==
  LET n == Rounded(h.n, Precision)
  IN  IF h.n < 0 \/ decimals > ShiftLimit THEN {}
      ELSE IF h.k <= decimals THEN {n * Pow10[decimals - h.k]}
      ELSE {n \div Pow10[h.k - decimals]}
(* The raw amount of a human one, if it is a whole number of units and can *)
(* be shifted that far.                                                    *)
RawOf(h, decimals) ==
  LET n == Rounded(h.n, Precision)
  IN  IF h.n < 0 \/ decimals > ShiftLimit THEN {}
      ELSE IF h.k <= decimals THEN {n * Pow10[decimals - h.k]}
      ELSE {q \in {n \div Pow10[h.k - decimals]} : q * Pow10[h.k - decimals] = n}
RawsOfHuman(decimals) == UNION {RawOf(h, decimals) : h \in StatedHuman}

(* Plain exceptions, which the pipeline does not catch.  raw_to_human: the *)
(* regular expression has no sign, and the shift or its result may be out  *)
(* of the context's range.                                                 *)
Unshowable(raw, decimals) ==
  \/ raw < 0
  \/ decimals > ShiftLimit
  \/ DigitCount[Rounded(Abs(raw), Precision)] - decimals > MaxExponent + 1

(* human_to_raw: str() of an integer of too many digits, or, below zero,   *)
(* where null comes before it, a shift that overflows.                     *)
Overlong(h, decimals) ==
  \E q \in RawOf([h EXCEPT !.n = Abs(@)], decimals) :
    DigitCount[q] > IF h.n < 0 THEN MaxExponent + 1 ELSE TextLimit

(* An infinite float is no integer; as NaN, it is a human amount.          *)
Unconvertible(decimals) ==
  \/ \E h \in StatedHuman : Overlong(h, decimals)
  \/ \E raw \in StatedRaw \cup RawsOfHuman(decimals) : Unshowable(raw, decimals)
  \/ payload.amount.form = "infinity" /\ decimals <= ShiftLimit

NeedDecimals ==
  StatedRaw \cup StatedHuman # {} \/ payload.amount.form \in {"infinity", "nan"}

RefuseAmount ==
  /\ phase = "amount"
  /\ NeedDecimals /\ asset.decimals = Absent
  /\ Fail("DECIMALS_UNKNOWN")
  /\ UNCHANGED <<payload, chain, asset, amount, stamp, report, answer, earlier>>

RaiseOnAmount ==
  /\ phase = "amount"
  /\ NeedDecimals /\ asset.decimals # Absent /\ Unconvertible(asset.decimals)
  /\ phase' = "raised"
  /\ UNCHANGED <<payload, error, chain, asset, amount, stamp, report, answer, earlier>>

ConvertAmount ==
  /\ phase = "amount"
  /\ NeedDecimals => asset.decimals # Absent /\ ~Unconvertible(asset.decimals)
  /\ LET converted == RawsOfHuman(asset.decimals)
         raws == StatedRaw \cup converted
     IN  /\ IF raws = {} THEN UNCHANGED amount
            ELSE \E raw \in raws :
                   amount' = [raw |-> raw, human |-> HumanOf(raw, asset.decimals)]
         /\ report' = [report EXCEPT !.inferred =
                         @ \cup IF converted # {} THEN {"amount_raw"} ELSE {}]
  /\ phase' = "time"
  /\ UNCHANGED <<payload, error, chain, asset, stamp, answer, earlier>>

InSeconds(v) == 0 < v /\ v < SecondsBelow
InMillis(v) == MillisFrom <= v /\ v < MillisBelow

NormTimestamp ==
  /\ phase = "time"
  /\ LET c == payload.time
     IN  /\ c.form \notin {"unparseable", "beyond"}
         /\ stamp' = CASE c.form \in {"iso", "naive"} -> c.value
                       [] c.form = "number" /\ InSeconds(c.value) -> c.value
                       [] c.form = "number" /\ InMillis(c.value) -> c.value \div PerSecond
                       [] OTHER -> Absent
         /\ report' = [report EXCEPT !.inferred = @ \cup
              IF c.form = "naive" \/ (c.form = "number" /\ InMillis(c.value))
              THEN {"timestamp_utc"} ELSE {}]
  /\ phase' = "validate"
  /\ UNCHANGED <<payload, error, chain, asset, amount, answer, earlier>>

RefuseTimestamp ==
  /\ phase = "time"
  /\ payload.time.form = "unparseable"
  /\ Fail("BAD_TIMESTAMP")
  /\ UNCHANGED <<payload, chain, asset, amount, stamp, report, answer, earlier>>

(* int() of no number, or astimezone() out of the calendar. *)
RaiseOnTimestamp ==
  /\ phase = "time"
  /\ payload.time.form = "beyond"
  /\ phase' = "raised"
  /\ UNCHANGED <<payload, error, chain, asset, amount, stamp, report, answer, earlier>>

(***************************************************************************)
(* validate                                                                *)
(***************************************************************************)

(* Of what the pipeline produces, the default schema objects to nothing    *)
(* but decimals out of range; a caller's schema may object to anything.    *)
Conforms ==
  CASE payload.schema = "default" -> asset.decimals \in 0..MaxDecimals \cup {Absent}
    [] payload.schema = "accepting" -> TRUE
    [] OTHER -> FALSE

Validate ==
  /\ phase = "validate"
  /\ IF Conforms THEN phase' = "done" /\ UNCHANGED error
                 ELSE Fail("SCHEMA_VALIDATION_FAILED")
  /\ UNCHANGED <<payload, chain, asset, amount, stamp, report, answer, earlier>>

Stages ==
  \/ RaiseOnDetection \/ ResolveChain
  \/ RefuseAddress \/ KnownAddress \/ UnknownAddress \/ ReadDecimals
  \/ RefuseTicker \/ UniqueTicker \/ AmbiguousTicker
  \/ PickCandidate \/ NoCandidatePicked \/ PickRaises \/ NothingToResolve
  \/ RefuseAmount \/ RaiseOnAmount \/ ConvertAmount
  \/ NormTimestamp \/ RefuseTimestamp \/ RaiseOnTimestamp \/ Validate

(***************************************************************************)
(* The caller: the result as the raw object of a second call with the same *)
(* hints and schema.  timestamp_utc is not a key detection knows.          *)
(***************************************************************************)
AsPayload ==
  [payload EXCEPT
    !.address = asset.address, !.symbol = asset.symbol, !.name = asset.name,
    !.chainId = chain, !.chain = NoCell,
    !.decimals = IF asset.decimals = Absent THEN NoCell
                 ELSE [form |-> "int", value |-> asset.decimals],
    !.amount = IF amount.raw = Absent THEN NoCell
               ELSE [form |-> "digits", human |-> FALSE, value |-> amount.raw],
    !.time = NoCell]

Resubmit ==
  /\ phase = "done"
  /\ earlier = Absent
  /\ earlier' = Result
  /\ payload' = AsPayload
  /\ phase' = "chain"
  /\ chain' = Absent
  /\ asset' = NoAsset
  /\ amount' = NoAmount
  /\ stamp' = Absent
  /\ report' = NoReport
  /\ answer' = Absent
  /\ UNCHANGED error

Next == Stages \/ Resubmit

Spec == Init /\ [][Next]_vars

-------------------------------------------------------------------------------
(***************************************************************************)
(* Correctness                                                             *)
(***************************************************************************)

(* The type invariant; in particular amounts are never negative and raw    *)
(* and human amount are null together (pipeline.py:157-175).               *)
AssetType ==
  [address : Optional(Addresses), symbol : Optional(Texts), name : Optional(Texts),
   decimals : Optional(Nat), native : Optional(BOOLEAN), wrapped : Optional(Texts)]
ReportType ==
  [ambiguous : BOOLEAN, by : {"heuristic", "registry", "onchain"}, scam : BOOLEAN,
   inferred : SUBSET {"chainId", "decimals", "amount_raw", "timestamp_utc"}]
AmountType == {NoAmount} \cup [raw : Nat, human : [n : Nat, k : Nat]]

TypeOK ==
  /\ payload \in PayloadType
  /\ phase \in {"chain", "asset", "read", "pick", "amount", "time", "validate",
                "done", "failed", "raised"}
  /\ error \in {"none", "UNKNOWN_CHAIN", "INVALID_ADDRESS", "TICKER_UNRESOLVED",
                "TICKER_AMBIGUOUS", "DECIMALS_UNKNOWN", "BAD_TIMESTAMP",
                "SCHEMA_VALIDATION_FAILED"}
  /\ chain \in Optional(ChainIds)
  /\ asset \in AssetType
  /\ amount \in AmountType
  /\ stamp \in Optional(Int)
  /\ report \in ReportType
  /\ earlier \in Optional([chain : Optional(ChainIds), asset : AssetType,
                          amount : AmountType, stamp : Optional(Int)])

Asked == [chainId |-> chain, address |-> asset.address]
Resolved == phase \in {"amount", "time", "validate", "done"}
GivenChain == IF Meant = {} THEN Absent ELSE CHOOSE c \in Meant : TRUE

(* "Never fabricates a value" (pipeline.py:5), for identities: an address  *)
(* in the result is the one the caller gave, or that of a registered asset *)
(* with the caller's symbol on the caller's chain (pipeline.py:75-143).    *)
IdentityGrounded ==
  Resolved =>
    /\ AddressText # Absent => asset.address = Checksum[AddressText] /\ chain = GivenChain
    /\ AddressText = Absent /\ SymbolText # Absent =>
         /\ GivenChain \in {Absent, chain}
         /\ IF asset.native
            THEN /\ asset.address = Absent
                 /\ Fold[SymbolText] \in {Fold[s] : s \in ChainById(chain).aliases}
            ELSE \E t \in TokensByAddress(chain, asset.address) :
                   Fold[t.symbol] = Fold[SymbolText]
    /\ AddressText = Absent /\ SymbolText = Absent => asset.address = Absent

(* "Canonical metadata wins" (pipeline.py:78): whichever way the asset was *)
(* found, and whatever else the caller claimed, a registered contract or   *)
(* native asset is reported with the registry's symbol, decimals and       *)
(* wrapped asset.                                                          *)
RegistryWins ==
  Resolved =>
    /\ \A t \in TokensByAddress(chain, asset.address) :
         /\ asset.symbol = t.symbol /\ asset.name = t.name /\ asset.decimals = t.decimals
         /\ asset.wrapped = WrappedOf(chain, t.address)
    /\ asset.native = TRUE =>
         /\ asset.symbol = ChainById(chain).native
         /\ asset.decimals = ChainById(chain).decimals

(* An ambiguous ticker is never guessed (llm.py:3-12): where the symbol    *)
(* could have meant another asset, a model named exactly the one reported, *)
(* and the report says so.                                                 *)
AmbiguityNeverGuessed ==
  Resolved /\ AddressText = Absent /\ SymbolText # Absent =>
    \A t \in Candidates(GivenChain) :
      Identity(t) # Asked => answer = Asked /\ report.ambiguous /\ report.by = "heuristic"

(* A result is flagged as a scam exactly when it pairs a contract with the *)
(* symbol of other contracts of its chain (pipeline.py:88-96), whichever   *)
(* way it came about and also when it is submitted again.                  *)
ImpostorsFlagged ==
  Resolved =>
    LET namesakes == IF chain = Absent \/ asset.symbol = Absent THEN {}
                     ELSE TokensBySymbol(asset.symbol, chain)
    IN  report.scam <=> /\ asset.address # Absent
                        /\ namesakes # {}
                        /\ \A t \in namesakes : t.address # asset.address

(* Decimals come from the registry, else from the caller, else, if the     *)
(* caller opted in, from the chain (pipeline.py:71, 85, 97-106, 149).      *)
DecimalsGrounded ==
  Resolved /\ asset.decimals # Absent =>
    \/ asset.decimals = StatedDecimals
    \/ asset.decimals \in {t.decimals : t \in TokensByAddress(chain, asset.address)}
    \/ asset.native = TRUE
    \/ /\ StatedDecimals = Absent
       /\ payload.prefer = "onchain" /\ report.by = "onchain"
       /\ answer = asset.decimals

(* "All conversions are exact" (resolve.py:139): the reported amounts are  *)
(* one amount, the caller's, and a human amount is left null only if it is *)
(* no whole number of units.                                               *)
AmountsExact ==
  phase = "done" =>
    /\ amount # NoAmount =>
         /\ amount.human.k <= asset.decimals
         /\ amount.human.n * Pow10[asset.decimals - amount.human.k] = amount.raw
         /\ StatedRaw \subseteq {amount.raw}
         /\ \A h \in StatedHuman : amount.raw * Pow10[h.k] = h.n * Pow10[asset.decimals]
    /\ amount = NoAmount =>
         /\ StatedRaw = {}
         /\ \A h \in StatedHuman :
              h.n < 0 \/ (h.n * Pow10[asset.decimals]) % Pow10[h.k] # 0

(* The part of it the code keeps: amounts are exact as long as the caller  *)
(* gives no more digits than the decimal context has, for a token with no  *)
(* more decimals than its smallest number has places (resolve.py:142-165). *)
AmountsExactWithinPrecision ==
  /\ phase = "done"
  /\ \A n \in StatedRaw \cup {h.n : h \in StatedHuman} :
       n < Pow10[Precision] /\ asset.decimals <= Places
  => AmountsExact

(* What the report lists as inferred the result has and the caller did not *)
(* state as such.  Of the chain and the raw amount the converse holds too: *)
(* the caller stated one that is not listed.  Of what the registry says of *)
(* an asset nothing is listed (pipeline.py:62, 103, 136, 172, 181).        *)
InferencesReported ==
  phase = "done" =>
    /\ ("chainId" \in report.inferred) =
         (chain # Absent /\ ~ChainStated)
    /\ ("amount_raw" \in report.inferred) = (amount # NoAmount /\ StatedRaw = {})
    /\ "decimals" \in report.inferred =>
         asset.decimals # Absent /\ StatedDecimals = Absent
    /\ "timestamp_utc" \in report.inferred => stamp # Absent

(* A result submitted again under the same hints comes out the same, but   *)
(* for its timestamp: canonical forms are fixed points (pipeline.py:39-209 *)
(* as a whole).  Excepted are decimals that still wait for the chain to    *)
(* answer, and those a caller's schema let through out of range.           *)
Idempotent ==
  /\ earlier # Absent
  /\ (payload.prefer = "onchain" => earlier.asset.decimals # Absent)
  /\ earlier.asset.decimals \in 0..MaxDecimals \cup {Absent}
  => /\ phase \notin {"failed", "raised"}
     /\ phase = "done" => Result = [earlier EXCEPT !.stamp = Absent]

(* "It never raises on bad input" (pipeline.py:5). *)
NeverRaises == phase # "raised"
===============================================================================
