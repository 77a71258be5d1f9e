------------------------- MODULE CalldataCodec_proofs -------------------------
(***************************************************************************)
(* Proofs about CalldataCodec: whose decimals scale an amount, what is     *)
(* accepted as an argument and what becomes of it, what is warned of, and  *)
(* that calldata made by the encoder is read back as it was meant.         *)
(***************************************************************************)
EXTENDS CalldataCodec, ArithmeticLemmas

(* A token is settled before arguments are looked at, and a transaction    *)
(* goes where that token is.                                               *)
TokenInv ==
  /\ phase \in {"function", "token"} => tx = Absent
  /\ phase \in {"arguments", "coerce"} \/ tx # Absent => token \in TokensMeant
  /\ tx # Absent => tx.to = token.to /\ tx.chain = token.chain

LEMMA TokenInit == Init => TokenInv
BY DEF Init, TokenInv

LEMMA SameCall ==
  ASSUME call' = call
  PROVE  TokensMeant' = TokensMeant
BY DEF TokensMeant, AsStated, Described, InRegistry, Chain, StatedChain, IsAddress, ByAddress

LEMMA TokenStep == TokenInv /\ [Next]_vars => TokenInv'
<1> SUFFICES ASSUME TokenInv, [Next]_vars PROVE TokenInv'
    OBVIOUS
<1>1. CASE ResolveToken
    BY <1>1, SameCall DEF ResolveToken, TokenInv
<1>2. CASE FindFunction
    BY <1>2 DEF FindFunction, TokenInv
<1>3. CASE OrderArguments \/ CoerceArgument
    BY <1>3, SameCall DEF OrderArguments, CoerceArgument, encoding, TokenInv
<1>4. CASE Encode
  <2>1. tx' = [to |-> token.to, chain |-> token.chain, selector |-> entry.sig,
               words |-> [i \in DOMAIN args |-> Word(args[i], entry.params[i].type)],
               value |-> Wei]
      BY <1>4 DEF Encode
  <2>2. phase = "coerce" /\ phase' = "encoded" /\ UNCHANGED <<call, token>>
      BY <1>4 DEF Encode, Coercion
  <2>3. tx'.to = token.to /\ tx'.chain = token.chain
      BY <2>1
  <2> QED BY <2>2, <2>3, SameCall DEF TokenInv
<1>5. ASSUME NEW code, Refuse(code) PROVE TokenInv'
    BY <1>5, SameCall DEF Refuse, encoding, TokenInv
<1>6. ASSUME phase' \notin {"function", "token", "arguments", "coerce"}, UNCHANGED encoding
      PROVE  TokenInv'
    BY <1>6, SameCall DEF encoding, TokenInv
<1>7. CASE RefuseFunction \/ RefuseToken \/ RefuseArguments \/ RefuseArgument \/ RefuseValue
           \/ RaiseOnEncoding \/ RefuseCalldata
    BY <1>5, <1>7 DEF RefuseFunction, RefuseToken, RefuseArguments, RefuseArgument,
                      RefuseValue, RaiseOnEncoding, RefuseCalldata
<1>8. CASE Deliver \/ DecodeNothing \/ DecodeUnknown \/ DecodeMismatch \/ Decode
    BY <1>6, <1>8 DEF Deliver, DecodeNothing, DecodeUnknown, DecodeMismatch, Decode, Read
<1>9. CASE UNCHANGED vars
    BY <1>9, SameCall DEF vars, TokenInv
<1> QED BY <1>1, <1>2, <1>3, <1>4, <1>7, <1>8, <1>9 DEF Next

(* Whatever the token is taken for: if it is a listed contract on a stated *)
(* chain, its decimals are the registry's.                                 *)
LEMMA ListedDecimals ==
  ASSUME NEW m \in TokensMeant, NEW t \in Tokens, m.to = t.address, m.chain = t.chainId
  PROVE  m.decimals = [form |-> "int", value |-> t.decimals]
<1>1. t.address # Absent
    BY SnapshotAssumption, TextAssumption DEF Addresses
<1>2. ASSUME NEW u \in Tokens, m = InRegistry(u)
      PROVE  m.decimals = [form |-> "int", value |-> t.decimals]
  <2>1. /\ m.to = u.address /\ m.chain = u.chainId
        /\ m.decimals = [form |-> "int", value |-> u.decimals]
      BY <1>2 DEF InRegistry, Described
  <2>2. u = t
      BY <2>1, SnapshotAssumption
  <2> QED BY <2>1, <2>2
<1>3. CASE call.token = Absent
  <2>1. m.to = Absent
      BY <1>3 DEF TokensMeant, AsStated, Described
  <2> QED BY <1>1, <2>1
<1>4. CASE call.token # Absent /\ IsAddress
  <2>1. m \in ByAddress
      BY <1>4 DEF TokensMeant
  <2>2. CASE TokensByAddress(Chain, Checksum[call.token]) = {}
    <3>1. m.to = Checksum[call.token] /\ m.chain = Chain
        BY <2>1, <2>2 DEF ByAddress, AsStated, Described
    <3> QED BY <2>2, <3>1 DEF TokensByAddress
  <2>3. CASE TokensByAddress(Chain, Checksum[call.token]) # {}
    <3>1. PICK u \in TokensByAddress(Chain, Checksum[call.token]) : m = InRegistry(u)
        BY <2>1, <2>3 DEF ByAddress
    <3> QED BY <1>2, <3>1 DEF TokensByAddress
  <2> QED BY <2>2, <2>3
<1>5. CASE call.token # Absent /\ ~IsAddress
  <2>1. PICK u \in TokensBySymbol(call.token, Chain) : m = InRegistry(u)
      BY <1>5 DEF TokensMeant
  <2> QED BY <1>2, <2>1 DEF TokensBySymbol
<1> QED BY <1>3, <1>4, <1>5

(* For any registry, signature set and call: a transaction to a listed     *)
(* contract scales its amounts by the registry's decimals, whatever came   *)
(* along in the call (encode.py:171-188).                                  *)
THEOREM RegistryScales == Spec => []DecimalsOfTheToken
<1>1. TokenInv => DecimalsOfTheToken
    BY ListedDecimals DEF TokenInv, DecimalsOfTheToken, Encoded
<1> QED BY <1>1, TokenInit, TokenStep, PTL DEF Spec

(***************************************************************************)
(* Arguments and what becomes of them                                      *)
(***************************************************************************)

(* The first of several things is one of them, and is none only if all are. *)
LEMMA FirstIsOne ==
  ASSUME NEW n \in Nat, NEW s, DOMAIN s = 1..n, NEW nothing
  PROVE  /\ FirstOf(s, nothing) = nothing => \A i \in 1..n : s[i] = nothing
         /\ FirstOf(s, nothing) # nothing => \E i \in 1..n : FirstOf(s, nothing) = s[i]
<1> DEFINE things == {i \in DOMAIN s : s[i] # nothing}
<1>1. things \in SUBSET Nat
    OBVIOUS
<1>2. FirstOf(s, nothing) = IF things = {} THEN nothing
                            ELSE s[CHOOSE i \in things : \A j \in things : i <= j]
    BY DEF FirstOf
<1>3. CASE things = {}
    BY <1>2, <1>3
<1>4. CASE things # {}
  <2>1. PICK i \in things : \A j \in things : ~(j < i)
      BY <1>1, <1>4, LeastNatural
  <2>2. \A j \in things : i <= j
      BY <1>1, <2>1
  <2> DEFINE first == CHOOSE j \in things : \A m \in things : j <= m
  <2>3. first \in things
      BY <2>2
  <2> HIDE DEF first
  <2>4. FirstOf(s, nothing) = s[first]
      BY <1>2, <1>4 DEF first
  <2> QED BY <2>3, <2>4
<1> QED BY <1>3, <1>4

LEMMA TypeKinds ==
  ASSUME NEW type \in Types
  PROVE  /\ type.kind \in {"address", "bool", "tuple", "uint", "bytes", "array"}
         /\ type.kind = "array" => type.item \in PlainTypes
         /\ type.kind # "array" => type \in PlainTypes
BY DEF Types, PlainTypes

LEMMA NumberWithin ==
  ASSUME NEW type \in Types, IsNumber(type), NEW c, NumberRefusal(c, Bits(type)) = "none"
  PROVE  /\ c.form \in {"int", "digits", "fraction", "exotic"}
         /\ Number(c) \in 0..MaxUint[Bits(type)]
         /\ c.form = "fraction" => /\ token.decimals.form = "int" /\ Representable(Scaled(c))
BY DEF NumberRefusal, Within

LEMMA PlainTyped ==
  ASSUME NEW type \in Types, ~IsArray(type), NEW c \in Cells, ScalarRefusal(c, type) = "none"
  PROVE  Scalar(c, type) \in PlainValues /\ UintFits(Scalar(c, type), type)
<1>1. CASE IsNumber(type)
  <2>1. type.kind \notin {"address", "bool", "bytes"}
      BY <1>1 DEF IsNumber
  <2>2. Scalar(c, type) = Number(c) /\ ScalarRefusal(c, type) = NumberRefusal(c, Bits(type))
      BY <1>1, <2>1 DEF Scalar, ScalarRefusal
  <2>3. Number(c) \in 0..MaxUint[Bits(type)]
      BY <1>1, <2>2, NumberWithin
  <2> QED BY <2>2, <2>3 DEF UintFits, PlainValues
<1>2. CASE ~IsNumber(type)
  <2>1. type.kind \in {"address", "bool", "bytes"}
      BY <1>2, TypeKinds DEF ScalarRefusal, IsArray, IsNumber
  <2>2. CASE type.kind = "address"
    <3>1. c.form = "address" /\ Scalar(c, type) = Checksum[c.value]
        BY <1>2, <2>2 DEF ScalarRefusal, Scalar
    <3>2. c.value \in DOMAIN Checksum
        BY <3>1 DEF Cells, PlainCells
    <3> QED BY <1>2, <3>1, <3>2 DEF UintFits, PlainValues, Addresses
  <2>3. CASE type.kind = "bool"
    <3>1. c.form = "bool" /\ Scalar(c, type) = c.value
        BY <1>2, <2>3 DEF ScalarRefusal, Scalar
    <3>2. c.value \in BOOLEAN
        BY <3>1 DEF Cells, PlainCells
    <3> QED BY <1>2, <3>1, <3>2 DEF UintFits, PlainValues
  <2>4. CASE type.kind = "bytes"
    <3>1. IsHex(c) /\ Scalar(c, type) = [of |-> c.value, size |-> c.size]
        BY <1>2, <2>4 DEF ScalarRefusal, Scalar
    <3>2. c.value \in STRING \cup DOMAIN Checksum /\ c.size \in Nat
        BY <3>1 DEF IsHex, Cells, PlainCells
    <3> QED BY <1>2, <3>1, <3>2 DEF UintFits, PlainValues
  <2> QED BY <2>1, <2>2, <2>3, <2>4
<1> QED BY <1>1, <1>2

(* An argument that is not refused is a value of its parameter's type, and *)
(* what it says of the reading is one of three words.                      *)
Taken(c, type) == FirstOf(ItemRefusals(c, type), "none") = "none"

LEMMA TakenPlain ==
  ASSUME NEW type \in Types, ~IsArray(type), NEW c, Taken(c, type)
  PROVE  ScalarRefusal(c, type) = "none"
<1>1. ItemRefusals(c, type) = <<ScalarRefusal(c, type)>>
    BY DEF ItemRefusals
<1>2. DOMAIN ItemRefusals(c, type) = 1..1 /\ ItemRefusals(c, type)[1] = ScalarRefusal(c, type)
    BY <1>1
<1> QED BY <1>2, FirstIsOne DEF Taken

LEMMA TakenArray ==
  ASSUME NEW type \in Types, IsArray(type), NEW c \in Cells, Taken(c, type)
  PROVE  /\ c.form = "list" /\ c.items \in Seq(PlainCells)
         /\ type.item \in PlainTypes /\ type.item \in Types /\ ~IsArray(type.item)
         /\ \A i \in DOMAIN c.items : ScalarRefusal(c.items[i], type.item) = "none"
<1>1. type.item \in PlainTypes /\ type.item \in Types /\ ~IsArray(type.item)
  <2>1. type.item \in PlainTypes
      BY TypeKinds DEF IsArray
  <2> QED BY <2>1 DEF PlainTypes, Types, IsArray
<1>2. c.form = "list"
  <2> SUFFICES ASSUME c.form # "list" PROVE FALSE
      OBVIOUS
  <2>1. ItemRefusals(c, type) = <<"INVALID_ARRAY">>
      BY DEF ItemRefusals
  <2>2. DOMAIN ItemRefusals(c, type) = 1..1 /\ ItemRefusals(c, type)[1] = "INVALID_ARRAY"
      BY <2>1
  <2>3. PICK s : s = ItemRefusals(c, type)
      OBVIOUS
  <2>4. FirstOf(s, "none") = "none"
      BY <2>3 DEF Taken
  <2>5. \A i \in 1..1 : s[i] = "none"
      BY <2>2, <2>3, <2>4, FirstIsOne
  <2> QED BY <2>2, <2>3, <2>5
<1>3. c.items \in Seq(PlainCells)
    BY <1>2 DEF Cells, PlainCells
<1>4. ItemRefusals(c, type) = [i \in DOMAIN c.items |-> ScalarRefusal(c.items[i], type.item)]
    BY <1>2 DEF ItemRefusals
<1>5. PICK n \in Nat : DOMAIN c.items = 1..n
    BY <1>3
<1>6. DOMAIN ItemRefusals(c, type) = 1..n
    BY <1>4, <1>5
<1>7. \A i \in 1..n : ItemRefusals(c, type)[i] = "none"
    BY <1>6, FirstIsOne DEF Taken
<1> QED BY <1>1, <1>2, <1>3, <1>4, <1>5, <1>7

LEMMA CoercedTyped ==
  ASSUME NEW type \in Types, NEW c \in Cells, Taken(c, type)
  PROVE  Coerced(c, type) \in Values /\ UintFits(Coerced(c, type), type)
<1>1. CASE ~IsArray(type)
  <2>1. Coerced(c, type) = Scalar(c, type)
      BY <1>1 DEF Coerced
  <2>2. Scalar(c, type) \in PlainValues /\ UintFits(Scalar(c, type), type)
      BY <1>1, TakenPlain, PlainTyped
  <2> QED BY <2>1, <2>2 DEF Values
<1>2. CASE IsArray(type)
  <2>1. /\ c.items \in Seq(PlainCells) /\ type.item \in Types /\ ~IsArray(type.item)
        /\ \A i \in DOMAIN c.items : ScalarRefusal(c.items[i], type.item) = "none"
      BY <1>2, TakenArray
  <2>2. PICK n \in Nat : DOMAIN c.items = 1..n
      BY <2>1
  <2>3. \A i \in 1..n : c.items[i] \in Cells
      BY <2>1, <2>2 DEF Cells
  <2>4. \A i \in 1..n : Scalar(c.items[i], type.item) \in PlainValues
      BY <2>1, <2>2, <2>3, PlainTyped
  <2>5. Coerced(c, type) = [i \in 1..n |-> Scalar(c.items[i], type.item)]
      BY <1>2, <2>2 DEF Coerced
  <2>6. Coerced(c, type) \in Seq(PlainValues)
      BY <2>4, <2>5
  <2>7. ~IsNumber(type)
      BY <1>2 DEF IsArray
  <2> QED BY <2>6, <2>7 DEF Values, UintFits
<1> QED BY <1>1, <1>2

LEMMA ReadingTyped ==
  ASSUME NEW type \in Types, NEW c \in Cells, Taken(c, type),
         NEW r \in {"none", "raw", "human"}
  PROVE  FirstOf(<<r>> \o ItemReadings(c, type), "none") \in {"none", "raw", "human"}
<1> DEFINE Words == {"none", "raw", "human"}
<1>1. \A x, t : ScalarReading(x, t) \in Words
    BY DEF ScalarReading
<1>2. ItemReadings(c, type) \in Seq(Words)
  <2>1. CASE ~IsArray(type)
      BY <1>1, <2>1 DEF ItemReadings
  <2>2. CASE IsArray(type)
    <3>1. c.items \in Seq(PlainCells)
        BY <2>2, TakenArray
    <3>2. PICK n \in Nat : DOMAIN c.items = 1..n
        BY <3>1
    <3>3. ItemReadings(c, type) = [i \in 1..n |-> ScalarReading(c.items[i], type.item)]
        BY <2>2, <3>2 DEF ItemReadings
    <3> QED BY <1>1, <3>3
  <2> QED BY <2>1, <2>2
<1>3. PICK s : s = <<r>> \o ItemReadings(c, type)
    OBVIOUS
<1>4. s \in Seq(Words)
    BY <1>2, <1>3
<1>5. PICK n \in Nat : DOMAIN s = 1..n
    BY <1>4
<1>6. \A i \in 1..n : s[i] \in Words
    BY <1>4, <1>5
<1>7. FirstOf(s, "none") \in Words
    BY <1>5, <1>6, FirstIsOne
<1> QED BY <1>3, <1>7

(***************************************************************************)
(* What a call has become so far                                           *)
(***************************************************************************)

(* The arguments taken so far are what the caller gave for them ... *)
TakenUpTo(n) ==
  /\ entry \in Meant /\ ArgumentsRefusal = "none"
  /\ n <= Len(entry.params)
  /\ \A i \in 1..n : /\ Taken(Ordered[i], entry.params[i].type)
                     /\ args[i] = Coerced(Ordered[i], entry.params[i].type)
(* ... and a transaction carries all of them. *)
HandedOver ==
  /\ TakenUpTo(Len(args)) /\ Len(args) = Len(entry.params) /\ Encodable
  /\ flags = RiskFlags(entry, args, Wei)
  /\ tx = [to |-> token.to, chain |-> token.chain, selector |-> entry.sig,
           words |-> [i \in DOMAIN args |-> Word(args[i], entry.params[i].type)],
           value |-> Wei]

EncodeInv ==
  /\ call \in Calls /\ entry \in Signatures \cup {Absent} /\ args \in Seq(Values)
  /\ reading \in {"none", "raw", "human"}
  /\ phase \in {"function", "token", "arguments"} => args = <<>>
  /\ phase \in {"function", "token", "arguments", "coerce"} => tx = Absent
  /\ phase \in {"token", "arguments", "coerce"} => entry \in Meant
  /\ phase = "coerce" => ArgumentsRefusal = "none"
  /\ args # <<>> => TakenUpTo(Len(args))
  /\ phase \in {"encoded", "decode", "read"} \/ tx # Absent => HandedOver

LEMMA EncodeInit == Init => EncodeInv
BY DEF Init, EncodeInv

LEMMA SameWords ==
  ASSUME call' = call, entry' = entry
  PROVE  /\ Meant' = Meant /\ ArgumentsRefusal' = ArgumentsRefusal
         /\ Ordered' = Ordered /\ Wei' = Wei
BY DEF Meant, Overloads, Fits, ArgumentsRefusal, Ordered, Wei

LEMMA SameCoercion ==
  ASSUME token' = token
  PROVE  \A c, t : (Taken(c, t)' <=> Taken(c, t)) /\ Coerced(c, t)' = Coerced(c, t)
<1>1. \A c, b : NumberRefusal(c, b)' = NumberRefusal(c, b)
    BY DEF NumberRefusal, Number, Scaled, Shift, OutOfRange
<1>2. \A c : Number(c)' = Number(c)
    BY DEF Number, Scaled, Shift
<1>3. \A c, t : ScalarRefusal(c, t)' = ScalarRefusal(c, t)
    BY <1>1 DEF ScalarRefusal
<1>4. \A c, t : Scalar(c, t)' = Scalar(c, t)
    BY <1>2 DEF Scalar
<1>5. \A c, t : ItemRefusals(c, t)' = ItemRefusals(c, t)
    BY <1>3 DEF ItemRefusals
<1>6. \A c, t : Taken(c, t)' <=> Taken(c, t)
    BY <1>5 DEF Taken
<1>7. \A c, t : Coerced(c, t)' = Coerced(c, t)
    BY <1>4 DEF Coerced
<1> QED BY <1>6, <1>7

LEMMA SameTaken ==
  ASSUME call' = call, entry' = entry, token' = token, args' = args
  PROVE  \A n : TakenUpTo(n)' <=> TakenUpTo(n)
BY SameCoercion, SameWords DEF TakenUpTo

LEMMA SameEncoding ==
  ASSUME EncodeInv, UNCHANGED encoding,
         phase' \in {"function", "token", "arguments"} => phase = phase' /\ args = <<>>,
         phase' = "coerce" => phase = "coerce",
         phase' \in {"encoded", "decode", "read"} => phase \in {"encoded", "decode", "read"}
  PROVE  EncodeInv'
<1>1. /\ UNCHANGED <<call, entry, token, args, reading, tx, flags>>
      /\ tx' = tx /\ flags' = flags
    BY DEF encoding
<1>2. /\ Meant' = Meant /\ (ArgumentsRefusal' = ArgumentsRefusal) /\ Wei' = Wei
      /\ \A n : TakenUpTo(n)' <=> TakenUpTo(n)
    BY <1>1, SameWords, SameTaken
<1>3. HandedOver' <=> HandedOver
  <2>1. Encodable' <=> Encodable
      BY <1>1 DEF Encodable
  <2> QED BY <1>1, <1>2, <2>1 DEF HandedOver
<1> QED BY <1>1, <1>2, <1>3 DEF EncodeInv

LEMMA MeantKnown ==
  ASSUME entry \in Meant
  PROVE  /\ entry \in Signatures /\ entry # Absent
         /\ entry.params \in Seq([name : STRING, type : Types])
         /\ call.function \in {entry.sig, entry.name}
<1>1. entry \in Signatures /\ call.function \in {entry.sig, entry.name}
    BY DEF Meant, Overloads
<1>2. entry.params \in Seq([name : STRING, type : Types])
    BY <1>1, SignatureAssumption
<1> QED BY <1>1, <1>2, NoneAssumption

LEMMA OrderedCells ==
  ASSUME call \in Calls, entry \in Meant, ArgumentsRefusal = "none",
         NEW i \in 1..Len(entry.params)
  PROVE  /\ Ordered[i] \in Cells /\ entry.params[i].type \in Types
         /\ Ordered[i] = IF call.args.form = "named"
                         THEN call.args.values[entry.params[i].name] ELSE call.args.values[i]
<1> DEFINE Params == [name : STRING, type : Types]
<1>1. PICK params \in Seq(Params) : params = entry.params
    BY MeantKnown
<1>2. i \in DOMAIN entry.params /\ entry.params[i].type \in Types
  <2> HIDE DEF Params
  <2>1. i \in DOMAIN params /\ params[i] \in Params
      BY <1>1
  <2>2. params[i].type \in Types
      BY <2>1 DEF Params
  <2> QED BY <1>1, <2>2
<1>3. CASE call.args.form = "named"
  <2>1. entry.params[i].name \in ParamNames(entry)
      BY <1>2 DEF ParamNames
  <2>2. entry.params[i].name \in DOMAIN call.args.values
      BY <1>3, <2>1 DEF ArgumentsRefusal
  <2>3. Ordered[i] = call.args.values[entry.params[i].name]
      BY <1>2, <1>3 DEF Ordered
  <2> QED BY <1>2, <1>3, <2>2, <2>3, CallsAssumption
<1>4. CASE call.args.form = "list"
  <2>1. Ordered = call.args.values /\ call.args.values \in Seq(Cells)
        /\ Len(call.args.values) = Len(entry.params)
      BY <1>4, CallsAssumption DEF Ordered, ArgumentsRefusal
  <2>2. i \in 1..Len(call.args.values)
      BY <2>1
  <2> QED BY <1>2, <1>4, <2>1, <2>2
<1>5. CASE call.args.form \notin {"named", "list"}
  <2>1. entry.params = <<>>
      BY <1>5 DEF ArgumentsRefusal
  <2> QED BY <2>1
<1> QED BY <1>3, <1>4, <1>5

LEMMA EncodeCoerce == EncodeInv /\ CoerceArgument => EncodeInv'
<1> SUFFICES ASSUME EncodeInv, CoerceArgument PROVE EncodeInv'
    OBVIOUS
<1>1. /\ phase = "coerce" /\ call \in Calls /\ entry \in Meant /\ ArgumentsRefusal = "none"
      /\ args \in Seq(Values) /\ tx = Absent
      /\ UNCHANGED <<call, phase, entry, token, tx, flags>>
    BY DEF CoerceArgument, EncodeInv
<1>2. PICK n \in Nat : n = Len(args)
    BY <1>1
<1>3. n + 1 <= Len(entry.params) /\ Len(entry.params) \in Nat /\ n + 1 \in 1..Len(entry.params)
  <2>1. Len(entry.params) \in Nat
      BY <1>1, MeantKnown
  <2> QED BY <1>2, <2>1 DEF CoerceArgument
<1> DEFINE c == Ordered[n + 1]
           type == entry.params[n + 1].type
<1>4. c \in Cells /\ type \in Types
    BY <1>1, <1>3, OrderedCells
<1>5. NextCell = c /\ NextType = type
    BY <1>2 DEF NextCell, NextType
<1>6. Taken(c, type)
    BY <1>5 DEF CoerceArgument, ArgumentRefusal, Taken
<1>7. /\ args' = Append(args, Coerced(c, type))
      /\ reading' = FirstOf(<<reading>> \o ItemReadings(c, type), "none")
    BY <1>5 DEF CoerceArgument
<1>8. Coerced(c, type) \in Values /\ reading' \in {"none", "raw", "human"}
    BY <1>4, <1>6, <1>7, CoercedTyped, ReadingTyped DEF EncodeInv
<1>9. /\ args' \in Seq(Values) /\ Len(args') = n + 1
      /\ \A i \in 1..n : args'[i] = args[i]
      /\ args'[n + 1] = Coerced(c, type)
    BY <1>1, <1>2, <1>7, <1>8
<1>10. \A i \in 1..n : /\ Taken(Ordered[i], entry.params[i].type)
                       /\ args[i] = Coerced(Ordered[i], entry.params[i].type)
  <2>1. CASE n = 0
      BY <2>1
  <2>2. CASE n # 0
    <3>1. args # <<>>
        BY <1>1, <1>2, <2>2
    <3> QED BY <1>2, <3>1 DEF EncodeInv, TakenUpTo
  <2> QED BY <2>1, <2>2
<1> HIDE DEF c, type
<1>11. \A i \in 1..(n + 1) : /\ Taken(Ordered[i], entry.params[i].type)
                             /\ args'[i] = Coerced(Ordered[i], entry.params[i].type)
  <2>1. \A i \in 1..(n + 1) : i \in 1..n \/ i = n + 1
      OBVIOUS
  <2> QED BY <1>6, <1>9, <1>10, <2>1 DEF c, type
<1>12. TakenUpTo(Len(args))'
    BY <1>1, <1>3, <1>9, <1>11, SameCoercion, SameWords DEF TakenUpTo
<1> QED BY <1>1, <1>8, <1>9, <1>12, SameWords DEF EncodeInv

LEMMA EncodeEncode == EncodeInv /\ Encode => EncodeInv'
<1> SUFFICES ASSUME EncodeInv, Encode PROVE EncodeInv'
    OBVIOUS
<1>1. /\ phase = "coerce" /\ phase' = "encoded"
      /\ entry \in Meant /\ ArgumentsRefusal = "none" /\ args \in Seq(Values)
      /\ Len(args) = Len(entry.params) /\ Encodable
      /\ UNCHANGED <<call, entry, token, args, reading>>
    BY DEF Encode, Coercion, EncodeInv
<1>2. TakenUpTo(Len(args))
  <2>1. CASE args = <<>>
    <3>1. Len(args) = 0
        BY <2>1
    <3> QED BY <1>1, <3>1 DEF TakenUpTo
  <2>2. CASE args # <<>>
      BY <2>2 DEF EncodeInv
  <2> QED BY <2>1, <2>2
<1>3. TakenUpTo(Len(args))'
    BY <1>1, <1>2, SameTaken
<1>4. Encodable' /\ Wei' = Wei
    BY <1>1, SameWords DEF Encodable
<1>5. /\ flags' = RiskFlags(entry, args, Wei)
      /\ tx' = [to |-> token.to, chain |-> token.chain, selector |-> entry.sig,
                words |-> [i \in DOMAIN args |-> Word(args[i], entry.params[i].type)],
                value |-> Wei]
    BY DEF Encode
<1>6. HandedOver'
    BY <1>1, <1>3, <1>4, <1>5 DEF HandedOver
<1> QED BY <1>1, <1>3, <1>6 DEF EncodeInv

LEMMA EncodeStep == EncodeInv /\ [Next]_vars => EncodeInv'
<1> SUFFICES ASSUME EncodeInv, [Next]_vars PROVE EncodeInv'
    OBVIOUS
<1>1. FindFunction => EncodeInv'
  <2> SUFFICES ASSUME FindFunction PROVE EncodeInv'
      OBVIOUS
  <2>1. /\ phase = "function" /\ phase' = "token" /\ entry' \in Meant /\ entry' \in Signatures
        /\ args = <<>> /\ tx = Absent /\ UNCHANGED <<call, args, reading, tx, token, flags>>
      BY DEF FindFunction, EncodeInv, Meant, Overloads
  <2>2. Meant' = Meant
      BY <2>1 DEF Meant, Overloads, Fits
  <2> QED BY <2>1, <2>2 DEF EncodeInv
<1>2. ResolveToken => EncodeInv'
  <2> SUFFICES ASSUME ResolveToken PROVE EncodeInv'
      OBVIOUS
  <2>1. /\ phase = "token" /\ phase' = "arguments" /\ args = <<>> /\ tx = Absent
        /\ UNCHANGED <<call, entry, args, reading, tx, flags>>
      BY DEF ResolveToken, EncodeInv
  <2> QED BY <2>1, SameWords DEF EncodeInv
<1>3. OrderArguments => EncodeInv'
  <2> SUFFICES ASSUME OrderArguments PROVE EncodeInv'
      OBVIOUS
  <2>1. /\ phase = "arguments" /\ phase' = "coerce" /\ args = <<>> /\ tx = Absent
        /\ ArgumentsRefusal = "none"
        /\ UNCHANGED <<call, entry, args, reading, tx, flags>>
      BY DEF OrderArguments, encoding, EncodeInv
  <2> QED BY <2>1, SameWords DEF EncodeInv
<1>4. CoerceArgument => EncodeInv'
    BY EncodeCoerce
<1>5. Encode => EncodeInv'
    BY EncodeEncode
<1>6. ASSUME NEW code, Refuse(code) PROVE EncodeInv'
    BY <1>6, SameEncoding DEF Refuse
<1>7. RefuseFunction \/ RefuseToken \/ RefuseArguments \/ RefuseArgument \/ RefuseValue
           \/ RaiseOnEncoding \/ RefuseCalldata => EncodeInv'
    BY <1>6 DEF RefuseFunction, RefuseToken, RefuseArguments, RefuseArgument,
                RefuseValue, RaiseOnEncoding, RefuseCalldata
<1>8. Deliver \/ DecodeNothing \/ DecodeUnknown \/ DecodeMismatch \/ Decode => EncodeInv'
    BY SameEncoding DEF Deliver, DecodeNothing, DecodeUnknown, DecodeMismatch, Decode, Read
<1>9. UNCHANGED vars => EncodeInv'
  <2> SUFFICES ASSUME UNCHANGED vars PROVE EncodeInv'
      OBVIOUS
  <2>1. UNCHANGED encoding /\ phase' = phase
      BY DEF vars, encoding
  <2> QED BY <2>1, SameEncoding DEF EncodeInv
<1> QED BY <1>1, <1>2, <1>3, <1>4, <1>5, <1>7, <1>8, <1>9 DEF Next

LEMMA EncodeHolds == Spec => []EncodeInv
BY EncodeInit, EncodeStep, PTL DEF Spec

(***************************************************************************)
(* Types                                                                   *)
(***************************************************************************)
PhaseInv ==
  /\ phase \in {"function", "token", "arguments", "coerce", "encoded", "decode",
                "read", "refused", "raised"}
  /\ error = "raises" <=> phase = "raised"
  /\ token.chain \in ChainIds \cup {Absent} /\ token.to \in Addresses \cup {Absent}

LEMMA TokensTyped ==
  ASSUME NEW m \in TokensMeant
  PROVE  m.chain \in ChainIds \cup {Absent} /\ m.to \in Addresses \cup {Absent}
<1>1. Chain \in ChainIds \cup {Absent}
  <2>1. StatedChain \subseteq ChainIds
      BY SnapshotAssumption DEF StatedChain
  <2> QED BY <2>1 DEF Chain
<1>2. \A a \in Addresses \cup {Absent} : AsStated(a).chain = Chain /\ AsStated(a).to = a
    BY DEF AsStated, Described
<1>3. \A t \in Tokens : /\ InRegistry(t).chain \in ChainIds /\ InRegistry(t).to \in Addresses
    BY SnapshotAssumption DEF InRegistry, Described
<1>4. CASE call.token = Absent
  <2>1. m.chain = Chain /\ m.to = Absent
      BY <1>4 DEF TokensMeant, AsStated, Described
  <2> QED BY <1>1, <2>1
<1>5. CASE call.token # Absent /\ IsAddress
  <2>1. Checksum[call.token] \in Addresses
      BY <1>5 DEF IsAddress, Addresses
  <2>2. m = AsStated(Checksum[call.token])
          \/ \E t \in Tokens : m = InRegistry(t)
      BY <1>5 DEF TokensMeant, ByAddress, TokensByAddress
  <2> QED BY <1>1, <1>2, <1>3, <2>1, <2>2
<1>6. CASE call.token # Absent /\ ~IsAddress
    BY <1>3, <1>6 DEF TokensMeant, TokensBySymbol
<1> QED BY <1>4, <1>5, <1>6

LEMMA PhaseHolds == Spec => []PhaseInv
<1>1. Init => PhaseInv
    BY DEF Init, PhaseInv, NoToken
<1>2. PhaseInv /\ [Next]_vars => PhaseInv'
  <2> SUFFICES ASSUME PhaseInv, [Next]_vars PROVE PhaseInv'
      OBVIOUS
  <2>1. ResolveToken => PhaseInv'
    <3> SUFFICES ASSUME ResolveToken PROVE PhaseInv'
        OBVIOUS
    <3>1. phase = "token" /\ phase' = "arguments" /\ error' = error /\ token' \in TokensMeant
        BY DEF ResolveToken
    <3>2. token'.chain \in ChainIds \cup {Absent} /\ token'.to \in Addresses \cup {Absent}
        BY <3>1, TokensTyped
    <3> QED BY <3>1, <3>2 DEF PhaseInv
  <2>2. ASSUME NEW code, Refuse(code) PROVE PhaseInv'
      BY <2>2 DEF Refuse, encoding, PhaseInv
  <2>3. RefuseFunction \/ RefuseToken \/ RefuseArguments \/ RefuseArgument \/ RefuseValue
             \/ RaiseOnEncoding \/ RefuseCalldata => PhaseInv'
      BY <2>2 DEF RefuseFunction, RefuseToken, RefuseArguments, RefuseArgument,
                  RefuseValue, RaiseOnEncoding, RefuseCalldata
  <2>4. FindFunction \/ OrderArguments \/ CoerceArgument \/ Encode \/ Deliver \/ DecodeNothing
          \/ DecodeUnknown \/ DecodeMismatch \/ Decode \/ UNCHANGED vars => PhaseInv'
      BY DEF FindFunction, OrderArguments, CoerceArgument, Encode, Coercion, Deliver,
             DecodeNothing, DecodeUnknown, DecodeMismatch, Decode, Read, encoding, vars,
             PhaseInv
  <2> QED BY <2>1, <2>3, <2>4 DEF Next
<1> QED BY <1>1, <1>2, PTL DEF Spec

LEMMA ArgumentsFit ==
  EncodeInv /\ entry \in Meant =>
    /\ Len(args) <= Len(entry.params)
    /\ \A i \in DOMAIN args : args[i] = Coerced(Ordered[i], entry.params[i].type)
                              /\ UintFits(args[i], entry.params[i].type)
<1> SUFFICES ASSUME EncodeInv, entry \in Meant
             PROVE  /\ Len(args) <= Len(entry.params)
                    /\ \A i \in DOMAIN args :
                         /\ args[i] = Coerced(Ordered[i], entry.params[i].type)
                         /\ UintFits(args[i], entry.params[i].type)
    OBVIOUS
<1>1. args \in Seq(Values) /\ call \in Calls
    BY DEF EncodeInv
<1>2. Len(entry.params) \in Nat
    BY MeantKnown
<1>3. CASE args = <<>>
    BY <1>2, <1>3
<1>4. CASE args # <<>>
  <2>1. TakenUpTo(Len(args))
      BY <1>4 DEF EncodeInv
  <2>2. Len(args) <= Len(entry.params) /\ ArgumentsRefusal = "none" /\ Len(args) \in Nat
      BY <1>1, <2>1 DEF TakenUpTo
  <2> SUFFICES ASSUME NEW i \in DOMAIN args
               PROVE  /\ args[i] = Coerced(Ordered[i], entry.params[i].type)
                      /\ UintFits(args[i], entry.params[i].type)
      BY <2>2
  <2>3. i \in 1..Len(args) /\ i \in 1..Len(entry.params)
      BY <1>1, <1>2, <2>2
  <2>4. /\ Taken(Ordered[i], entry.params[i].type)
        /\ args[i] = Coerced(Ordered[i], entry.params[i].type)
      BY <2>1, <2>3 DEF TakenUpTo
  <2>5. Ordered[i] \in Cells /\ entry.params[i].type \in Types
      BY <1>1, <2>2, <2>3, OrderedCells
  <2> QED BY <2>4, <2>5, CoercedTyped
<1> QED BY <1>3, <1>4

(* For any registry, signatures and calls: whatever is accepted for an     *)
(* unsigned parameter fits its type, in whatever way it was written, and   *)
(* only what leaves with a plain exception counts as raised                *)
(* (encode.py:115-118).                                                    *)
THEOREM TypeCorrect == Spec => []TypeOK
<1>1. EncodeInv /\ PhaseInv => TypeOK
  <2> SUFFICES ASSUME EncodeInv, PhaseInv PROVE TypeOK
      OBVIOUS
  <2>1. CASE args = <<>>
    <3>1. entry \in Signatures => Len(entry.params) \in Nat
        BY SignatureAssumption
    <3>2. Len(args) = 0 /\ DOMAIN args = {}
        BY <2>1
    <3> QED BY <3>1, <3>2 DEF EncodeInv, PhaseInv, TypeOK
  <2>2. CASE args # <<>>
    <3>1. entry \in Meant
        BY <2>2 DEF EncodeInv, TakenUpTo
    <3> QED BY <3>1, ArgumentsFit, MeantKnown DEF EncodeInv, PhaseInv, TypeOK
  <2> QED BY <2>1, <2>2
<1> QED BY <1>1, EncodeHolds, PhaseHolds, PTL

(***************************************************************************)
(* Warnings                                                                *)
(***************************************************************************)

(* What each flag is raised for. *)
LEMMA FlagRules ==
  ASSUME NEW s, NEW values, NEW wei
  PROVE  /\ "unlimited_approval" \in RiskFlags(s, values, wei) <=>
              \/ /\ s.name \in {"approve", "increaseAllowance"}
                 /\ Allowance(s, values) >= UnlimitedThreshold
              \/ /\ s.name = "approve" /\ s.standard = "Permit2"
                 /\ Allowance(s, values) >= MaxUint[160]
         /\ "approval_for_all_granted" \in RiskFlags(s, values, wei) <=>
              s.name = "setApprovalForAll" /\ \E i \in DOMAIN s.params :
                s.params[i].name = "approved" /\ values[i] = TRUE
         /\ "signature_based_allowance" \in RiskFlags(s, values, wei) <=> s.name = "permit"
         /\ "admin_action" \in RiskFlags(s, values, wei) <=>
              s.name \in {"transferOwnership", "renounceOwnership", "upgradeTo",
                          "upgradeToAndCall"}
         /\ "sends_native_value" \in RiskFlags(s, values, wei) <=> wei > 0 /\ s.name # "deposit"
         /\ RiskFlags(s, values, wei) \subseteq
              {"unlimited_approval", "approval_for_all_granted", "signature_based_allowance",
               "admin_action", "sends_native_value"}
BY DEF RiskFlags

(* What is signed for an argument that is not padded is the argument. *)
LEMMA WordsCarry ==
  ASSUME EncodeInv, HandedOver
  PROVE  /\ DOMAIN args = DOMAIN entry.params /\ DOMAIN args = 1..Len(args) /\ Len(args) \in Nat
         /\ DOMAIN tx.words = DOMAIN args /\ tx.value = Wei /\ tx.selector = entry.sig
         /\ \A i \in DOMAIN args : /\ tx.words[i] = Word(args[i], entry.params[i].type)
                                   /\ entry.params[i].type.kind # "bytes" => tx.words[i] = args[i]
<1>1. PICK params : params = entry.params /\ params \in Seq([name : STRING, type : Types])
    BY MeantKnown DEF HandedOver, TakenUpTo
<1>2. args \in Seq(Values) /\ Len(args) = Len(params)
    BY <1>1 DEF EncodeInv, HandedOver
<1>3. DOMAIN args = DOMAIN params /\ DOMAIN args = 1..Len(args) /\ Len(args) \in Nat
    BY <1>1, <1>2
<1>4. /\ tx.words = [i \in DOMAIN args |-> Word(args[i], entry.params[i].type)]
      /\ tx.value = Wei /\ tx.selector = entry.sig
    BY DEF HandedOver
<1>5. \A i \in DOMAIN args : tx.words[i] = Word(args[i], entry.params[i].type)
    BY <1>4
<1>6. \A i \in DOMAIN args : entry.params[i].type.kind # "bytes"
                               => Word(args[i], entry.params[i].type) = args[i]
    BY DEF Word
<1> QED BY <1>1, <1>3, <1>4, <1>5, <1>6

(* The allowance of a call that grants one is its only amount. *)
LEMMA AllowanceIsAmount ==
  ASSUME NEW s \in Signatures, s.name \in {"approve", "increaseAllowance"}, NEW values,
         NEW i \in DOMAIN s.params, s.params[i].name \in {"amount", "addedValue"}
  PROVE  Allowance(s, values) = values[i] /\ s.params[i].type.kind = "uint"
<1> DEFINE named == {j \in DOMAIN s.params : s.params[j].name \in {"amount", "addedValue"}}
<1>1. \A j \in named : j = i
    BY AllowanceAssumption
<1>2. s.params[i].type.kind = "uint"
    BY AllowanceAssumption
<1>3. i \in named
    OBVIOUS
<1>4. (CHOOSE j \in named : TRUE) = i
    BY <1>1, <1>3
<1>5. Allowance(s, values) = IF named = {} THEN 0 ELSE values[CHOOSE j \in named : TRUE]
    BY DEF Allowance
<1> HIDE DEF named
<1> QED BY <1>2, <1>3, <1>4, <1>5

LEMMA Warned == EncodeInv => WarnedBeforeSigning
<1> SUFFICES ASSUME EncodeInv, tx # Absent
             PROVE  /\ \/ Grants("approve", "amount") \/ Grants("increaseAllowance", "addedValue")
                       \/ Grants("permit", "value") \/ Grants("setApprovalForAll", "approved")
                       => flags \ {"sends_native_value"} # {}
                    /\ tx.value > 0 /\ entry.name # "deposit" => "sends_native_value" \in flags
    BY DEF WarnedBeforeSigning, Encoded
<1>1. HandedOver /\ entry \in Signatures /\ flags = RiskFlags(entry, args, Wei)
    BY MeantKnown DEF EncodeInv, HandedOver, TakenUpTo
<1>2. /\ DOMAIN args = DOMAIN entry.params /\ tx.value = Wei
      /\ \A i \in DOMAIN args : entry.params[i].type.kind # "bytes" => tx.words[i] = args[i]
    BY <1>1, WordsCarry
<1>3. ASSUME NEW function \in {"approve", "increaseAllowance"},
             NEW param \in {"amount", "addedValue"}, Grants(function, param)
      PROVE  "unlimited_approval" \in flags
  <2>1. PICK i \in DOMAIN entry.params :
          /\ entry.name = function /\ entry.params[i].name = param
          /\ entry.params[i].type.kind = "uint" => tx.words[i] >= UnlimitedThreshold
      BY <1>3 DEF Grants
  <2>2. Allowance(entry, args) = args[i] /\ entry.params[i].type.kind = "uint"
      BY <1>1, <2>1, AllowanceIsAmount
  <2>3. Allowance(entry, args) >= UnlimitedThreshold
      BY <1>2, <2>1, <2>2
  <2> QED BY <1>1, <2>1, <2>3, FlagRules
<1>4. Grants("permit", "value") => "signature_based_allowance" \in flags
    BY <1>1, FlagRules DEF Grants
<1>5. Grants("setApprovalForAll", "approved") => "approval_for_all_granted" \in flags
  <2> SUFFICES ASSUME Grants("setApprovalForAll", "approved")
               PROVE  "approval_for_all_granted" \in flags
      OBVIOUS
  <2>1. PICK i \in DOMAIN entry.params :
          /\ entry.name = "setApprovalForAll" /\ entry.params[i].name = "approved"
          /\ CASE entry.params[i].type.kind = "uint" -> tx.words[i] >= UnlimitedThreshold
               [] OTHER -> tx.words[i]
      BY DEF Grants
  <2>2. entry.params[i].type.kind = "bool"
      BY <1>1, <2>1, AllowanceAssumption
  <2>3. tx.words[i] = TRUE
      BY <2>1, <2>2
  <2>4. args[i] = TRUE
      BY <1>2, <2>2, <2>3
  <2> QED BY <1>1, <2>1, <2>4, FlagRules
<1>6. tx.value > 0 /\ entry.name # "deposit" => "sends_native_value" \in flags
    BY <1>1, <1>2, FlagRules
<1> QED BY <1>3, <1>4, <1>5, <1>6

(* For any registry, signatures and calls: a large allowance of any of the *)
(* standards, an operator for all tokens and native value are flagged      *)
(* (encode.py:18-21, decoder.py:26-27), when the signatures name their     *)
(* amounts as AllowanceAssumption says.                                    *)
THEOREM WarningsHold == Spec => []WarnedBeforeSigning
BY Warned, EncodeHolds, PTL

(***************************************************************************)
(* Amounts                                                                 *)
(***************************************************************************)

(* Decimals that are an integer are one, whoever states them. *)
LEMMA DecimalsTyped ==
  ASSUME call \in Calls, NEW m \in TokensMeant, m.decimals.form = "int"
  PROVE  m.decimals.value \in Int
<1>1. \A t \in Tokens : t.decimals \in Int
    BY SnapshotAssumption
<1>2. ASSUME NEW t \in Tokens, m = InRegistry(t) PROVE m.decimals.value \in Int
  <2>1. m.decimals = [form |-> "int", value |-> t.decimals]
      BY <1>2 DEF InRegistry, Described
  <2> QED BY <1>1, <2>1
<1>3. ASSUME m.decimals = call.decimals PROVE m.decimals.value \in Int
    BY <1>3, CallsAssumption
<1>4. CASE call.token = Absent
  <2>1. m.decimals = call.decimals
      BY <1>4 DEF TokensMeant, AsStated, Described
  <2> QED BY <1>3, <2>1
<1>5. CASE call.token # Absent /\ IsAddress
  <2>1. m = AsStated(Checksum[call.token]) \/ \E t \in Tokens : m = InRegistry(t)
      BY <1>5 DEF TokensMeant, ByAddress, TokensByAddress
  <2>2. AsStated(Checksum[call.token]).decimals = call.decimals
      BY DEF AsStated, Described
  <2> QED BY <1>2, <1>3, <2>1, <2>2
<1>6. CASE call.token # Absent /\ ~IsAddress
    BY <1>2, <1>6 DEF TokensMeant, TokensBySymbol
<1> QED BY <1>4, <1>5, <1>6

(* A fraction that fits into the decimal context and comes out whole is    *)
(* the number written, in base units.                                      *)
LEMMA FractionExact ==
  ASSUME NEW c, c.form = "fraction", c.n \in Nat, c.k \in Nat, token.decimals.form = "int",
         token.decimals.value \in Int, DigitCount[c.n] <= Precision, Shift(c) <= Places,
         Representable(Scaled(c))
  PROVE  AsWritten(c, Number(c))
<1>1. PICK n \in Nat : n = c.n
    OBVIOUS
<1>2. PICK shift \in Int : shift = c.k - token.decimals.value
    OBVIOUS
<1>3. Shifted(n, shift, Precision, Places) = n
  <2>1. Precision \in Nat \ {0} /\ DigitCount[n] <= Precision
      BY <1>1, DigitCounts, NumbersAssumption
  <2>2. PICK places \in Nat : places = Places /\ shift <= places
      BY <1>2, NumbersAssumption DEF Places, Shift
  <2>3. Rounded(n, Precision) = n
      BY <2>1, RoundedFits
  <2> QED BY <2>1, <2>2, <2>3, ShiftedNat
<1>4. Scaled(c) = [n |-> n, k |-> shift]
    BY <1>1, <1>2, <1>3 DEF Scaled, Shift
<1>5. Number(c) = Truncated([n |-> n, k |-> shift])
    BY <1>4 DEF Number
<1>6. CASE shift <= 0
  <2>1. Number(c) = n * Pow10[-shift]
      BY <1>5, <1>6 DEF Truncated
  <2>2. shift = 0 => Number(c) * Pow10[shift] = n
      BY <2>1, PowersOfTen
  <2> QED BY <1>1, <1>2, <1>6, <2>1, <2>2 DEF AsWritten
<1>7. CASE shift > 0
  <2>1. PICK u \in Nat \ {0} : u = Pow10[shift]
      BY <1>7, PowersOfTen
  <2>2. n % u = 0 /\ Number(c) = n \div u
      BY <1>4, <1>5, <1>7, <2>1 DEF Representable, Truncated
  <2>3. Number(c) * u = n
      BY <2>2, Divides
  <2> QED BY <1>1, <1>2, <1>7, <2>1, <2>3 DEF AsWritten
<1> QED BY <1>6, <1>7

LEMMA PlainAmounts == EncodeInv /\ TokenInv => PlainAmountsAsWritten
<1> SUFFICES ASSUME EncodeInv, TokenInv, tx # Absent, NEW i \in Amounts,
                    Ordered[i].form = "fraction", DigitCount[Ordered[i].n] <= Precision,
                    Shift(Ordered[i]) <= Places
             PROVE  AsWritten(Ordered[i], args[i])
    BY DEF PlainAmountsAsWritten, Encoded
<1>1. HandedOver /\ entry \in Meant /\ ArgumentsRefusal = "none" /\ call \in Calls
    BY DEF EncodeInv, HandedOver, TakenUpTo
<1>2. i \in 1..Len(entry.params) /\ i \in 1..Len(args) /\ entry.params[i].type.kind = "uint"
    BY <1>1, WordsCarry DEF Amounts, HandedOver
<1>3. PICK c : c = Ordered[i]
    OBVIOUS
<1>4. PICK type : type = entry.params[i].type
    OBVIOUS
<1>5. c \in Cells /\ type \in Types /\ type.kind = "uint"
    BY <1>1, <1>2, <1>3, <1>4, OrderedCells
<1>6. Taken(c, type) /\ args[i] = Coerced(c, type)
    BY <1>1, <1>2, <1>3, <1>4 DEF HandedOver, TakenUpTo
<1>7. IsNumber(type) /\ ~IsArray(type)
    BY <1>5 DEF IsNumber, IsArray
<1>8. args[i] = Number(c) /\ NumberRefusal(c, Bits(type)) = "none"
  <2>1. ScalarRefusal(c, type) = "none"
      BY <1>5, <1>6, <1>7, TakenPlain
  <2>2. type.kind \notin {"address", "bool", "bytes"}
      BY <1>5
  <2> QED BY <1>6, <1>7, <2>1, <2>2 DEF Coerced, Scalar, ScalarRefusal
<1>9. token.decimals.form = "int" /\ Representable(Scaled(c))
    BY <1>3, <1>5, <1>7, <1>8, NumberWithin
<1>10. c.n \in Nat /\ c.k \in Nat
    BY <1>3, <1>5 DEF Cells, PlainCells
<1>11. token.decimals.value \in Int
    BY <1>1, <1>9, DecimalsTyped DEF TokenInv
<1> QED BY <1>3, <1>8, <1>9, <1>10, <1>11, FractionExact

(* For any registry, signatures and calls, and any precision: an amount    *)
(* written as digits with a point, that fits into the decimal context and  *)
(* is not shifted below its smallest number, is signed as written          *)
(* (encode.py:99-109).                                                     *)
THEOREM PlainAmountsHold == Spec => []PlainAmountsAsWritten
<1>1. Spec => []TokenInv
    BY TokenInit, TokenStep, PTL DEF Spec
<1> QED BY <1>1, PlainAmounts, EncodeHolds, PTL

(***************************************************************************)
(* What the decoder says                                                   *)
(***************************************************************************)

(* The answer to the empty call, to a selector nobody knows, to arguments  *)
(* that cannot be read, and to the calldata that was made.                 *)
AnswerInv ==
  phase = "read" =>
    \/ /\ received.data = "empty" /\ answer.decoded
       /\ answer.args = Absent /\ "function" \in answer.nulls
    \/ /\ received.data = "foreign" /\ ~answer.decoded
       /\ answer.args = Absent /\ "function" \in answer.nulls
       /\ "unknown_selector" \in answer.flags
    \/ /\ received.data = "cut" /\ ~answer.decoded
       /\ answer.args = Absent /\ "function.args" \in answer.nulls
       /\ "calldata_args_mismatch" \in answer.flags
    \/ /\ received.data = "intact" /\ answer.decoded
       /\ answer.sig = tx.selector /\ answer.args = tx.words
       /\ answer.flags = RiskFlags(BySelector(tx.selector), tx.words, tx.value)

LEMMA AnswerHolds == Spec => []AnswerInv
<1>1. Init => AnswerInv
    BY DEF Init, AnswerInv
<1>2. AnswerInv /\ [Next]_vars => AnswerInv'
  <2> SUFFICES ASSUME AnswerInv, [Next]_vars PROVE AnswerInv'
      OBVIOUS
  <2>1. ASSUME NEW code, Refuse(code) PROVE AnswerInv'
      BY <2>1 DEF Refuse, AnswerInv
  <2>2. RefuseFunction \/ RefuseToken \/ RefuseArguments \/ RefuseArgument \/ RefuseValue
             \/ RaiseOnEncoding \/ RefuseCalldata => AnswerInv'
      BY <2>1 DEF RefuseFunction, RefuseToken, RefuseArguments, RefuseArgument,
                  RefuseValue, RaiseOnEncoding, RefuseCalldata
  <2>3. FindFunction \/ ResolveToken \/ OrderArguments \/ CoerceArgument \/ Encode \/ Deliver
          => AnswerInv'
      BY DEF FindFunction, ResolveToken, OrderArguments, CoerceArgument, Encode, Deliver,
             AnswerInv
  <2>4. DecodeNothing => AnswerInv'
      BY DEF DecodeNothing, Read, AnswerInv
  <2>5. DecodeUnknown => AnswerInv'
      BY DEF DecodeUnknown, Read, AnswerInv
  <2>6. DecodeMismatch => AnswerInv'
      BY DEF DecodeMismatch, Read, MismatchFlag, AnswerInv
  <2>7. Decode => AnswerInv'
      BY DEF Decode, Read, encoding, AnswerInv
  <2>8. UNCHANGED vars => AnswerInv'
      BY DEF vars, AnswerInv
  <2> QED BY <2>2, <2>3, <2>4, <2>5, <2>6, <2>7, <2>8 DEF Next
<1> QED BY <1>1, <1>2, PTL DEF Spec

(* An argument of an encoded call, as the caller gave it and as it was     *)
(* taken.                                                                  *)
LEMMA ArgumentGiven ==
  ASSUME EncodeInv, HandedOver, NEW i \in DOMAIN args
  PROVE  /\ Ordered[i] \in Cells /\ entry.params[i].type \in Types
         /\ Taken(Ordered[i], entry.params[i].type)
         /\ args[i] = Coerced(Ordered[i], entry.params[i].type)
         /\ args[i] \in Values
         /\ Ordered[i] = IF call.args.form = "named"
                         THEN call.args.values[entry.params[i].name] ELSE call.args.values[i]
<1>1. /\ entry \in Meant /\ ArgumentsRefusal = "none" /\ call \in Calls
      /\ TakenUpTo(Len(args)) /\ args \in Seq(Values)
    BY DEF EncodeInv, HandedOver, TakenUpTo
<1>2. i \in 1..Len(entry.params) /\ i \in 1..Len(args)
    BY <1>1, WordsCarry DEF HandedOver
<1>3. args[i] \in Values
    BY <1>1, <1>2
<1> QED BY <1>1, <1>2, <1>3, OrderedCells DEF TakenUpTo

LEMMA BytesTaken ==
  ASSUME NEW type \in Types, type.kind = "bytes", NEW c \in Cells, Taken(c, type)
  PROVE  /\ IsHex(c) /\ c.value \in STRING \cup DOMAIN Checksum /\ c.size \in Nat
         /\ Coerced(c, type) = [of |-> c.value, size |-> c.size]
<1>1. ~IsArray(type) /\ ~IsNumber(type)
    BY DEF IsArray, IsNumber
<1>2. ScalarRefusal(c, type) = "none"
    BY <1>1, TakenPlain
<1>3. IsHex(c)
    BY <1>1, <1>2 DEF ScalarRefusal
<1>4. c.value \in STRING \cup DOMAIN Checksum /\ c.size \in Nat
    BY <1>3 DEF IsHex, Cells, PlainCells
<1> QED BY <1>1, <1>3, <1>4 DEF Coerced, Scalar

LEMMA WordsTyped ==
  ASSUME EncodeInv, HandedOver
  PROVE  tx.words \in Seq(Values)
<1>1. PICK n \in Nat : n = Len(args) /\ DOMAIN args = 1..n
    BY WordsCarry
<1>2. tx.words = [i \in 1..n |-> Word(args[i], entry.params[i].type)]
    BY <1>1 DEF HandedOver
<1>3. ASSUME NEW i \in 1..n PROVE Word(args[i], entry.params[i].type) \in Values
  <2>1. PICK type \in Types : type = entry.params[i].type
      BY <1>1, ArgumentGiven
  <2>2. CASE type.kind = "bytes" /\ type.size # Absent
    <3>1. type.size \in Nat
        BY <2>2 DEF Types, PlainTypes
    <3>2. PICK c \in Cells : Taken(c, type) /\ args[i] = Coerced(c, type)
        BY <1>1, <2>1, ArgumentGiven
    <3>3. /\ args[i] = [of |-> c.value, size |-> c.size]
          /\ c.value \in STRING \cup DOMAIN Checksum
        BY <2>2, <3>2, BytesTaken
    <3>4. Word(args[i], type) = [of |-> c.value, size |-> type.size]
        BY <2>2, <3>3 DEF Word
    <3> QED BY <2>1, <3>1, <3>3, <3>4 DEF Values, PlainValues
  <2>3. CASE ~(type.kind = "bytes" /\ type.size # Absent)
    <3>1. Word(args[i], type) = args[i]
        BY <2>3 DEF Word
    <3> QED BY <1>1, <2>1, <3>1, ArgumentGiven
  <2> QED BY <2>2, <2>3
<1> HIDE DEF Values
<1> QED BY <1>2, <1>3

LEMMA Honest == EncodeInv /\ AnswerInv => DecoderIsHonest
<1> SUFFICES ASSUME EncodeInv, AnswerInv, phase = "read"
             PROVE  /\ answer.decoded /\ received.data # "empty" => answer.args # Absent
                    /\ ~answer.decoded => answer.flags # {}
                    /\ answer.args = Absent => answer.nulls \cap {"function", "function.args"} # {}
    BY DEF DecoderIsHonest
<1>1. tx.words # Absent
  <2>1. tx.words \in Seq(Values)
      BY WordsTyped DEF EncodeInv
  <2> QED BY <2>1, NoneAssumption
<1> QED BY <1>1 DEF AnswerInv

(* For any registry, signatures and calls: calldata without a decoded      *)
(* function or without arguments never comes back as if all were well      *)
(* (decoder.py:7-10).                                                      *)
THEOREM DecoderHonest == Spec => []DecoderIsHonest
BY Honest, EncodeHolds, AnswerHolds, PTL

(***************************************************************************)
(* There and back                                                          *)
(***************************************************************************)

(* One value, taken and put into calldata, is the value that was meant.    *)
LEMMA ScalarMeant ==
  ASSUME NEW type \in Types, type.kind # "array", NEW c \in Cells, ScalarRefusal(c, type) = "none",
         NEW word, type.kind # "bytes" => word = Scalar(c, type),
         type.kind = "bytes" => word.of = Scalar(c, type).of
  PROVE  MeansScalar(c, word, type)
<1>1. type.kind \in {"address", "bool", "bytes", "uint"}
    BY TypeKinds DEF ScalarRefusal, IsNumber
<1>2. CASE type.kind = "uint"
  <2>1. IsNumber(type) /\ type.kind \notin {"address", "bool", "bytes"}
      BY <1>2 DEF IsNumber
  <2>2. word = Number(c) /\ NumberRefusal(c, Bits(type)) = "none"
      BY <1>2, <2>1 DEF Scalar, ScalarRefusal
  <2>3. c.form \in {"int", "digits", "fraction", "exotic"}
      BY <2>1, <2>2, NumberWithin
  <2>4. CASE c.form \in {"int", "digits"}
    <3>1. Number(c) = c.value
        BY <2>4 DEF Number
    <3> QED BY <1>2, <2>2, <3>1 DEF MeansScalar
  <2>5. CASE c.form \in {"fraction", "exotic"}
    <3>1. c \in [form : {"fraction"}, n : Nat, k : Nat] \cup [form : {"exotic"}, n : Int, k : Int]
        BY <2>5 DEF Cells, PlainCells
    <3>2. "value" \notin DOMAIN c
        BY <3>1
    <3> QED BY <1>2, <3>2 DEF MeansScalar
  <2> QED BY <2>3, <2>4, <2>5
<1>3. CASE type.kind = "address"
  <2>1. Scalar(c, type) = Checksum[c.value]
      BY <1>3 DEF Scalar, IsNumber
  <2> QED BY <1>3, <2>1 DEF MeansScalar
<1>4. CASE type.kind = "bool"
  <2>1. Scalar(c, type) = c.value
      BY <1>4 DEF Scalar, IsNumber
  <2> QED BY <1>4, <2>1 DEF MeansScalar
<1>5. CASE type.kind = "bytes"
  <2>1. Scalar(c, type) = [of |-> c.value, size |-> c.size]
      BY <1>5 DEF Scalar, IsNumber
  <2> QED BY <1>5, <2>1 DEF MeansScalar
<1> QED BY <1>1, <1>2, <1>3, <1>4, <1>5

LEMMA WordMeant ==
  ASSUME NEW type \in Types, ~NoArray(type), NEW c \in Cells, Taken(c, type)
  PROVE  Means(c, Word(Coerced(c, type), type), type)
<1>1. CASE type.kind # "array"
  <2>1. ~IsArray(type) /\ Coerced(c, type) = Scalar(c, type)
      BY <1>1 DEF IsArray, Coerced
  <2>2. ScalarRefusal(c, type) = "none"
      BY <2>1, TakenPlain
  <2>3. type.kind # "bytes" => Word(Coerced(c, type), type) = Scalar(c, type)
      BY <2>1 DEF Word
  <2>4. type.kind = "bytes" => Word(Coerced(c, type), type).of = Scalar(c, type).of
    <3> SUFFICES ASSUME type.kind = "bytes"
                 PROVE  Word(Coerced(c, type), type).of = Scalar(c, type).of
        OBVIOUS
    <3>1. Coerced(c, type) = [of |-> c.value, size |-> c.size]
        BY BytesTaken
    <3>2. Word(Coerced(c, type), type).of = c.value
        BY <3>1 DEF Word
    <3> QED BY <2>1, <3>1, <3>2
  <2>5. MeansScalar(c, Word(Coerced(c, type), type), type)
      BY <1>1, <2>2, <2>3, <2>4, ScalarMeant
  <2> QED BY <1>1, <2>5 DEF Means
<1>2. CASE type.kind = "array"
  <2>1. IsArray(type)
      BY <1>2 DEF IsArray, NoArray
  <2>2. /\ c.items \in Seq(PlainCells) /\ type.item \in PlainTypes /\ type.item \in Types
        /\ \A i \in DOMAIN c.items : ScalarRefusal(c.items[i], type.item) = "none"
      BY <2>1, TakenArray
  <2>3. PICK n \in Nat : DOMAIN c.items = 1..n /\ Len(c.items) = n
      BY <2>2
  <2>4. Word(Coerced(c, type), type) = [i \in 1..n |-> Scalar(c.items[i], type.item)]
      BY <1>2, <2>1, <2>3 DEF Word, Coerced
  <2>5. PICK word : word = Word(Coerced(c, type), type)
      OBVIOUS
  <2>6. Len(word) = n /\ DOMAIN word = 1..n
      BY <2>4, <2>5
  <2>7. ASSUME NEW i \in 1..n PROVE MeansScalar(c.items[i], word[i], type.item)
    <3>1. c.items[i] \in Cells /\ ScalarRefusal(c.items[i], type.item) = "none"
        BY <2>2, <2>3 DEF Cells
    <3>2. type.item.kind # "array"
        BY <2>2 DEF PlainTypes
    <3>3. word[i] = Scalar(c.items[i], type.item)
        BY <2>4, <2>5
    <3> QED BY <2>2, <3>1, <3>2, <3>3, ScalarMeant
  <2> QED BY <1>2, <2>3, <2>5, <2>6, <2>7 DEF Means
<1> QED BY <1>1, <1>2

(* The decoder warns of what the encoder warned of: padding does not touch *)
(* an allowance or an approval.                                            *)
LEMMA SameFlags ==
  ASSUME EncodeInv, HandedOver
  PROVE  RiskFlags(entry, tx.words, tx.value) = flags
<1>1. flags = RiskFlags(entry, args, Wei) /\ entry \in Signatures
    BY MeantKnown DEF HandedOver, TakenUpTo
<1>2. /\ DOMAIN args = DOMAIN entry.params /\ tx.value = Wei
      /\ \A i \in DOMAIN args : entry.params[i].type.kind # "bytes" => tx.words[i] = args[i]
    BY WordsCarry
<1>3. entry.name \in {"approve", "increaseAllowance"}
        => Allowance(entry, tx.words) = Allowance(entry, args)
  <2> SUFFICES ASSUME entry.name \in {"approve", "increaseAllowance"}
               PROVE  Allowance(entry, tx.words) = Allowance(entry, args)
      OBVIOUS
  <2>1. CASE \E i \in DOMAIN entry.params : entry.params[i].name \in {"amount", "addedValue"}
    <3>1. PICK i \in DOMAIN entry.params : entry.params[i].name \in {"amount", "addedValue"}
        BY <2>1
    <3>2. /\ Allowance(entry, tx.words) = tx.words[i] /\ Allowance(entry, args) = args[i]
          /\ entry.params[i].type.kind = "uint"
        BY <1>1, <3>1, AllowanceIsAmount
    <3> QED BY <1>2, <3>2
  <2>2. CASE ~\E i \in DOMAIN entry.params : entry.params[i].name \in {"amount", "addedValue"}
      BY <2>2 DEF Allowance
  <2> QED BY <2>1, <2>2
<1>4. entry.name = "setApprovalForAll" =>
        \A i \in DOMAIN entry.params :
          entry.params[i].name = "approved" => tx.words[i] = args[i]
  <2> SUFFICES ASSUME entry.name = "setApprovalForAll", NEW i \in DOMAIN entry.params,
                      entry.params[i].name = "approved"
               PROVE  tx.words[i] = args[i]
      OBVIOUS
  <2>1. entry.params[i].type.kind = "bool"
      BY <1>1, AllowanceAssumption
  <2> QED BY <1>2, <2>1
<1> DEFINE signed == RiskFlags(entry, tx.words, tx.value)
           warned == RiskFlags(entry, args, Wei)
           Flags  == {"unlimited_approval", "approval_for_all_granted",
                      "signature_based_allowance", "admin_action", "sends_native_value"}
<1>5. signed \subseteq Flags /\ warned \subseteq Flags
    BY FlagRules
<1>6. "unlimited_approval" \in signed <=> "unlimited_approval" \in warned
  <2>1. CASE entry.name \in {"approve", "increaseAllowance"}
      BY <1>3, <2>1, FlagRules
  <2>2. CASE entry.name \notin {"approve", "increaseAllowance"}
      BY <2>2, FlagRules
  <2> QED BY <2>1, <2>2
<1>7. "approval_for_all_granted" \in signed <=> "approval_for_all_granted" \in warned
  <2>1. CASE entry.name = "setApprovalForAll"
    <3> DEFINE Approves(values) == \E i \in DOMAIN entry.params :
                 entry.params[i].name = "approved" /\ values[i] = TRUE
    <3>1. Approves(tx.words) <=> Approves(args)
        BY <1>4, <2>1
    <3>2. /\ "approval_for_all_granted" \in signed <=> Approves(tx.words)
          /\ "approval_for_all_granted" \in warned <=> Approves(args)
        BY <2>1, FlagRules
    <3> QED BY <3>1, <3>2
  <2>2. CASE entry.name # "setApprovalForAll"
      BY <2>2, FlagRules
  <2> QED BY <2>1, <2>2
<1>8. /\ "signature_based_allowance" \in signed <=> "signature_based_allowance" \in warned
      /\ "admin_action" \in signed <=> "admin_action" \in warned
    BY FlagRules
<1>9. "sends_native_value" \in signed <=> "sends_native_value" \in warned
    BY <1>2, FlagRules
<1> HIDE DEF signed, warned
<1>10. \A f \in Flags : f \in signed <=> f \in warned
    BY <1>6, <1>7, <1>8, <1>9
<1> HIDE DEF Flags
<1>11. signed = warned
    BY <1>5, <1>10
<1> QED BY <1>1, <1>11 DEF signed, warned

LEMMA ReadBack == EncodeInv /\ AnswerInv => RoundTrip
<1> SUFFICES ASSUME EncodeInv, AnswerInv, phase = "read", received.data = "intact",
                    NEW s, s = BySelector(answer.sig)
             PROVE  /\ answer.decoded
                    /\ call.function \in {s.sig, s.name}
                    /\ \A i \in DOMAIN s.params :
                         Means(IF call.args.form = "named" THEN call.args.values[s.params[i].name]
                               ELSE call.args.values[i],
                               answer.args[i], s.params[i].type)
                    /\ answer.flags = flags
    BY DEF RoundTrip
<1>1. HandedOver /\ entry \in Meant /\ Encodable
    BY DEF EncodeInv, HandedOver, TakenUpTo
<1>2. /\ answer.decoded /\ answer.sig = tx.selector /\ answer.args = tx.words
      /\ answer.flags = RiskFlags(BySelector(tx.selector), tx.words, tx.value)
    BY DEF AnswerInv
<1>3. tx.selector = entry.sig
    BY <1>1, WordsCarry
<1>4. s = entry
    BY <1>1, <1>2, <1>3, MeantKnown, SignatureAssumption DEF BySelector
<1>5. answer.flags = flags
    BY <1>1, <1>2, <1>4, SameFlags
<1>6. ASSUME NEW i \in DOMAIN entry.params
      PROVE  Means(IF call.args.form = "named" THEN call.args.values[entry.params[i].name]
                   ELSE call.args.values[i],
                   tx.words[i], entry.params[i].type)
  <2>1. i \in DOMAIN args /\ tx.words[i] = Word(args[i], entry.params[i].type)
      BY <1>1, WordsCarry
  <2>2. ~NoArray(entry.params[i].type)
      BY <1>1, <2>1 DEF Encodable
  <2>3. /\ Ordered[i] \in Cells /\ entry.params[i].type \in Types
        /\ Taken(Ordered[i], entry.params[i].type)
        /\ args[i] = Coerced(Ordered[i], entry.params[i].type)
        /\ Ordered[i] = IF call.args.form = "named"
                        THEN call.args.values[entry.params[i].name] ELSE call.args.values[i]
      BY <1>1, <2>1, ArgumentGiven
  <2>4. Means(Ordered[i], tx.words[i], entry.params[i].type)
      BY <2>1, <2>2, <2>3, WordMeant
  <2> QED BY <2>3, <2>4
<1> QED BY <1>1, <1>2, <1>4, <1>5, <1>6, MeantKnown

(* For any registry, signatures and calls: what was encoded is decoded to  *)
(* the function asked for, the values given and the flags raised           *)
(* (encode.py:7-10, test_encode_decode_roundtrip).                         *)
THEOREM ThereAndBack == Spec => []RoundTrip
BY ReadBack, EncodeHolds, AnswerHolds, PTL

(***************************************************************************)
(* The reading reported                                                    *)
(***************************************************************************)

(* What an argument so far says of the reading, item by item. *)
ReadingsOf(i) == ItemReadings(Ordered[i], entry.params[i].type)

(* The reading told is that of some argument, and of none only if no       *)
(* argument has one.                                                       *)
ReadingInv ==
  /\ reading # "none" =>
       \E i \in DOMAIN args : \E j \in DOMAIN ReadingsOf(i) : reading = ReadingsOf(i)[j]
  /\ reading = "none" =>
       \A i \in DOMAIN args : \A j \in DOMAIN ReadingsOf(i) : ReadingsOf(i)[j] = "none"

LEMMA ItemReadingsTyped ==
  ASSUME NEW type \in Types, NEW c \in Cells, Taken(c, type)
  PROVE  \E n \in Nat : /\ DOMAIN ItemReadings(c, type) = 1..n
                        /\ ItemReadings(c, type) \in Seq({"none", "raw", "human"})
<1>1. \A x, t : ScalarReading(x, t) \in {"none", "raw", "human"}
    BY DEF ScalarReading
<1>2. CASE ~IsArray(type)
  <2>1. ItemReadings(c, type) = <<ScalarReading(c, type)>>
      BY <1>2 DEF ItemReadings
  <2>2. DOMAIN ItemReadings(c, type) = 1..1
      BY <2>1
  <2> QED BY <1>1, <2>1, <2>2
<1>3. CASE IsArray(type)
  <2>1. c.items \in Seq(PlainCells)
      BY <1>3, TakenArray
  <2>2. PICK n \in Nat : DOMAIN c.items = 1..n
      BY <2>1
  <2>3. ItemReadings(c, type) = [i \in 1..n |-> ScalarReading(c.items[i], type.item)]
      BY <1>3, <2>2 DEF ItemReadings
  <2> QED BY <1>1, <2>3
<1> QED BY <1>2, <1>3

LEMMA SameReadings ==
  ASSUME call' = call, entry' = entry, NEW i
  PROVE  ReadingsOf(i)' = ReadingsOf(i)
<1>1. Ordered' = Ordered
    BY DEF Ordered
<1> QED BY <1>1 DEF ReadingsOf, ItemReadings, IsArray, IsNumber, ScalarReading

LEMMA ReadingCoerce == EncodeInv /\ ReadingInv /\ CoerceArgument => ReadingInv'
<1> SUFFICES ASSUME EncodeInv, ReadingInv, CoerceArgument PROVE ReadingInv'
    OBVIOUS
<1>1. /\ call \in Calls /\ entry \in Meant /\ ArgumentsRefusal = "none"
      /\ args \in Seq(Values) /\ UNCHANGED <<call, entry>>
    BY DEF CoerceArgument, EncodeInv
<1>2. PICK n \in Nat : n = Len(args) /\ DOMAIN args = 1..n
    BY <1>1
<1>3. n + 1 \in 1..Len(entry.params)
  <2>1. Len(entry.params) \in Nat
      BY <1>1, MeantKnown
  <2> QED BY <1>2, <2>1 DEF CoerceArgument
<1>4. PICK c \in Cells, type \in Types : c = NextCell /\ type = NextType
                                          /\ c = Ordered[n + 1] /\ type = entry.params[n + 1].type
    BY <1>1, <1>2, <1>3, OrderedCells DEF NextCell, NextType
<1>5. Taken(c, type)
    BY <1>4 DEF CoerceArgument, ArgumentRefusal, Taken
<1>6. PICK new : new = ItemReadings(c, type) /\ new = ReadingsOf(n + 1)
    BY <1>4 DEF ReadingsOf
<1>7. PICK m \in Nat : DOMAIN new = 1..m /\ new \in Seq({"none", "raw", "human"})
    BY <1>5, <1>6, ItemReadingsTyped
<1>8. reading \in {"none", "raw", "human"}
    BY DEF EncodeInv
<1>9. PICK s : s = <<reading>> \o new
    OBVIOUS
<1>10. reading' = FirstOf(s, "none")
    BY <1>4, <1>6, <1>9 DEF CoerceArgument
<1>11. /\ DOMAIN s = 1..(m + 1) /\ s[1] = reading
       /\ \A j \in 1..m : s[j + 1] = new[j]
    BY <1>7, <1>8, <1>9
<1>12. DOMAIN args' = 1..(n + 1)
  <2>1. Coerced(c, type) \in Values /\ args' = Append(args, Coerced(c, type))
      BY <1>4, <1>5, CoercedTyped DEF CoerceArgument
  <2> QED BY <1>1, <1>2, <2>1
<1>13. \A i : ReadingsOf(i)' = ReadingsOf(i)
    BY <1>1, SameReadings
<1>14. CASE reading' # "none"
  <2>1. PICK j \in 1..(m + 1) : reading' = s[j]
      BY <1>10, <1>11, <1>14, FirstIsOne
  <2>2. CASE j = 1
    <3>1. reading # "none" /\ reading' = reading
        BY <1>11, <1>14, <2>1, <2>2
    <3>2. PICK i \in 1..n : \E k \in DOMAIN ReadingsOf(i) : reading = ReadingsOf(i)[k]
        BY <1>2, <3>1 DEF ReadingInv
    <3>3. i \in 1..(n + 1)
        OBVIOUS
    <3> QED BY <1>12, <1>13, <1>14, <3>1, <3>2, <3>3 DEF ReadingInv
  <2>3. CASE j # 1
    <3>1. j - 1 \in 1..m /\ reading' = new[j - 1]
      <4>1. j - 1 \in 1..m /\ j = (j - 1) + 1
          BY <2>3
      <4> QED BY <1>11, <2>1, <4>1
    <3>2. n + 1 \in 1..(n + 1)
        OBVIOUS
    <3> QED BY <1>6, <1>7, <1>12, <1>13, <1>14, <3>1, <3>2 DEF ReadingInv
  <2> QED BY <2>2, <2>3
<1>15. CASE reading' = "none"
  <2>1. \A j \in 1..(m + 1) : s[j] = "none"
      BY <1>10, <1>11, <1>15, FirstIsOne
  <2>2. reading = "none" /\ \A j \in 1..m : new[j] = "none"
    <3>1. 1 \in 1..(m + 1) /\ \A j \in 1..m : j + 1 \in 1..(m + 1)
        OBVIOUS
    <3> QED BY <1>11, <2>1, <3>1
  <2>3. \A i \in 1..(n + 1) : \A j \in DOMAIN ReadingsOf(i) : ReadingsOf(i)[j] = "none"
    <3>1. \A i \in 1..(n + 1) : i \in 1..n \/ i = n + 1
        OBVIOUS
    <3> QED BY <1>2, <1>6, <1>7, <2>2, <3>1 DEF ReadingInv
  <2> QED BY <1>12, <1>13, <1>15, <2>3 DEF ReadingInv
<1> QED BY <1>14, <1>15

LEMMA ReadingHolds == Spec => []ReadingInv
<1>1. Init => ReadingInv
    BY DEF Init, ReadingInv
<1>2. EncodeInv /\ ReadingInv /\ [Next]_vars => ReadingInv'
  <2> SUFFICES ASSUME EncodeInv, ReadingInv, [Next]_vars PROVE ReadingInv'
      OBVIOUS
  <2>1. UNCHANGED <<call, entry, args, reading>> => ReadingInv'
      BY SameReadings DEF ReadingInv
  <2>2. FindFunction => ReadingInv'
    <3> SUFFICES ASSUME FindFunction PROVE ReadingInv'
        OBVIOUS
    <3>1. args = <<>> /\ UNCHANGED <<args, reading>>
        BY DEF FindFunction, EncodeInv
    <3>2. DOMAIN args = {} /\ DOMAIN args' = {}
        BY <3>1
    <3> QED BY <3>1, <3>2 DEF ReadingInv
  <2>3. CoerceArgument => ReadingInv'
      BY ReadingCoerce
  <2>4. ASSUME NEW code, Refuse(code) PROVE ReadingInv'
      BY <2>1, <2>4 DEF Refuse, encoding
  <2>5. RefuseFunction \/ RefuseToken \/ RefuseArguments \/ RefuseArgument \/ RefuseValue
             \/ RaiseOnEncoding \/ RefuseCalldata => ReadingInv'
      BY <2>4 DEF RefuseFunction, RefuseToken, RefuseArguments, RefuseArgument,
                  RefuseValue, RaiseOnEncoding, RefuseCalldata
  <2>6. ResolveToken \/ OrderArguments \/ Encode \/ Deliver \/ DecodeNothing
          \/ DecodeUnknown \/ DecodeMismatch \/ Decode \/ UNCHANGED vars => ReadingInv'
      BY <2>1 DEF ResolveToken, OrderArguments, Encode, Deliver,
             DecodeNothing, DecodeUnknown, DecodeMismatch, Decode, Read, encoding, vars
  <2> QED BY <2>2, <2>3, <2>5, <2>6 DEF Next
<1> QED BY <1>1, <1>2, EncodeHolds, PTL DEF Spec

(* No two amounts of a call are written in two ways. *)
Unmixed ==
  \A i, k \in Amounts : ~(Ordered[i].form = "fraction" /\ Ordered[k].form \in {"int", "digits"})

LEMMA ReadingMeant == EncodeInv /\ ReadingInv => (Unmixed => ReadingsReported)
<1> SUFFICES ASSUME EncodeInv, ReadingInv, Unmixed, tx # Absent, NEW i \in Amounts,
                    Ordered[i].form \in {"fraction", "int", "digits"}
             PROVE  /\ Ordered[i].form = "fraction" => reading = "human"
                    /\ Ordered[i].form \in {"int", "digits"} => reading = "raw"
    BY DEF ReadingsReported, Encoded
<1>1. HandedOver /\ Encodable /\ i \in DOMAIN args /\ entry.params[i].type.kind = "uint"
    BY DEF EncodeInv, HandedOver, Amounts
<1>2. reading # "none"
  <2>1. ReadingsOf(i) = <<ScalarReading(Ordered[i], entry.params[i].type)>>
      BY <1>1 DEF ReadingsOf, ItemReadings, IsArray, IsNumber
  <2>2. ScalarReading(Ordered[i], entry.params[i].type) # "none"
      BY <1>1 DEF ScalarReading, IsNumber
  <2>3. 1 \in DOMAIN ReadingsOf(i) /\ ReadingsOf(i)[1] # "none"
      BY <2>1, <2>2
  <2> QED BY <1>1, <2>3 DEF ReadingInv
<1>3. PICK k \in DOMAIN args : \E j \in DOMAIN ReadingsOf(k) : reading = ReadingsOf(k)[j]
    BY <1>2 DEF ReadingInv
<1>4. PICK j \in DOMAIN ReadingsOf(k) : reading = ReadingsOf(k)[j]
    BY <1>3
<1>5. PICK type \in Types, c \in Cells : /\ type = entry.params[k].type /\ c = Ordered[k]
                                          /\ Taken(c, type) /\ ~NoArray(type)
    BY <1>1, ArgumentGiven DEF Encodable
<1>6. ~IsArray(type)
  <2> SUFFICES ASSUME IsArray(type) PROVE FALSE
      OBVIOUS
  <2>1. type.item \in PlainTypes /\ type.item.kind # "uint"
      BY <1>5, TakenArray DEF IsArray, IsNumber
  <2>2. ~IsNumber(type.item)
      BY <2>1 DEF IsNumber, PlainTypes
  <2>3. ReadingsOf(k) = [n \in DOMAIN c.items |-> ScalarReading(c.items[n], type.item)]
      BY <1>5 DEF ReadingsOf, ItemReadings
  <2>4. reading = ScalarReading(c.items[j], type.item)
      BY <1>4, <2>3
  <2> QED BY <1>2, <2>2, <2>4 DEF ScalarReading
<1>7. reading = ScalarReading(c, type)
  <2>1. ReadingsOf(k) = <<ScalarReading(c, type)>>
      BY <1>5, <1>6 DEF ReadingsOf, ItemReadings
  <2> QED BY <1>4, <2>1
<1>8. IsNumber(type) /\ type.kind = "uint"
    BY <1>2, <1>5, <1>6, <1>7 DEF ScalarReading, IsArray, NoArray, IsNumber
<1>9. k \in Amounts
    BY <1>5, <1>8 DEF Amounts
<1>10. \/ c.form = "fraction" /\ reading = "human"
       \/ c.form \in {"int", "digits"} /\ reading = "raw"
    BY <1>2, <1>7, <1>8 DEF ScalarReading
<1> QED BY <1>5, <1>9, <1>10 DEF Unmixed

(* For any signatures, registry and calls: the reading reported is that of *)
(* every amount of the call, as encode.py:16 promises, unless the call     *)
(* writes one amount with a fraction and another without.                  *)
THEOREM ReadingHoldsUnmixed == Spec => [](Unmixed => ReadingsReported)
BY ReadingMeant, EncodeHolds, ReadingHolds, PTL
===============================================================================
