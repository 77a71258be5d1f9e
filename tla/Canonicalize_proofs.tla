-------------------------- MODULE Canonicalize_proofs --------------------------
(***************************************************************************)
(* Proofs about Canonicalize: where the asset of a result comes from, what *)
(* is listed as inferred, that amounts are exact within the precision, and *)
(* that a result submitted again comes out the same.                       *)
(***************************************************************************)
EXTENDS Canonicalize, ArithmeticLemmas

Settled ==
  /\ IdentityGrounded /\ RegistryWins /\ AmbiguityNeverGuessed
  /\ ImpostorsFlagged /\ DecimalsGrounded

Shape ==
  /\ phase \in {"chain", "asset", "read", "pick", "amount", "time", "validate",
                "done", "failed", "raised"}
  /\ DOMAIN asset = {"address", "symbol", "name", "decimals", "native", "wrapped"}
  /\ DOMAIN report = {"ambiguous", "by", "scam", "inferred"}

(* Until the asset is known the chain is the caller's and nothing is flagged. *)
Chained ==
  /\ phase = "chain" => chain = Absent
  /\ phase \in {"asset", "pick"} => chain = GivenChain
  /\ phase \in {"chain", "asset", "pick"} => report.scam = FALSE

(* What is read from the chain is only the decimals of an unlisted contract. *)
Reading ==
  phase = "read" =>
    /\ AddressText # Absent /\ AddressText \in DOMAIN Checksum
    /\ chain = GivenChain
    /\ TokensByAddress(chain, Checksum[AddressText]) = {}
    /\ asset.address = Checksum[AddressText] /\ asset.symbol = SymbolText
    /\ asset.native = FALSE
    /\ asset.decimals = Absent /\ StatedDecimals = Absent /\ payload.prefer = "onchain"
    /\ report.scam <=> Impostor

Picking ==
  phase = "pick" =>
    /\ AddressText = Absent /\ SymbolText # Absent
    /\ report.ambiguous = TRUE

Inv == Shape /\ Chained /\ Reading /\ Picking /\ Settled

(***************************************************************************)
(* The registry                                                            *)
(***************************************************************************)
LEMMA NoneIsNoAddress == Absent \notin Addresses /\ \A t \in Tokens : t.address # Absent
BY SnapshotAssumption, TextAssumption DEF Addresses

LEMMA NoneIsNoChain == ChainIds \subseteq Int /\ Absent \notin ChainIds
BY SnapshotAssumption, TextAssumption DEF ChainIds

LEMMA ChainFound ==
  ASSUME NEW c \in Chains
  PROVE  ChainById(c.id) = c
BY SnapshotAssumption DEF ChainById

(* What a ticker may stand for: a listed token or a chain's native asset. *)
LEMMA CandidateKinds ==
  ASSUME NEW id, NEW t \in Candidates(id)
  PROVE  /\ id \in {t.chainId, Absent} /\ t.chainId # Absent
         /\ \/ /\ t \in Tokens /\ t.address # Absent
               /\ Fold[t.symbol] = Fold[SymbolText]
            \/ /\ t.address = Absent
               /\ t.symbol = ChainById(t.chainId).native
               /\ t.decimals = ChainById(t.chainId).decimals
               /\ Fold[SymbolText] \in {Fold[s] : s \in ChainById(t.chainId).aliases}
<1>1. CASE t \in TokensBySymbol(SymbolText, id)
  <2>1. t \in Tokens /\ Fold[t.symbol] = Fold[SymbolText] /\ id \in {t.chainId, Absent}
      BY <1>1 DEF TokensBySymbol
  <2>2. t.chainId # Absent
      BY <2>1, NoneIsNoChain, SnapshotAssumption
  <2> QED BY <2>1, <2>2, NoneIsNoAddress
<1>2. CASE t \in NativeCandidates(SymbolText, id)
  <2>1. PICK c \in Chains :
          /\ Fold[SymbolText] \in {Fold[s] : s \in c.aliases} /\ id \in {c.id, Absent}
          /\ t = [chainId |-> c.id, address |-> Absent, symbol |-> c.native,
                  name |-> c.name, decimals |-> c.decimals]
      BY <1>2 DEF NativeCandidates
  <2>2. t.chainId = c.id /\ ChainById(c.id) = c /\ c.id # Absent
      BY <2>1, ChainFound, NoneIsNoChain DEF ChainIds
  <2> QED BY <2>1, <2>2
<1> QED BY <1>1, <1>2 DEF Candidates

LEMMA FiniteCandidates ==
  ASSUME NEW id
  PROVE  IsFiniteSet(Candidates(id))
<1>1. IsFiniteSet(TokensBySymbol(SymbolText, id))
    BY SnapshotAssumption, FS_Subset DEF TokensBySymbol
<1> DEFINE meant == {d \in Chains : /\ Fold[SymbolText] \in {Fold[s] : s \in d.aliases}
                                    /\ id \in {d.id, Absent}}
           asset_of(c) == [chainId |-> c.id, address |-> Absent, symbol |-> c.native,
                           name |-> c.name, decimals |-> c.decimals]
<1>2. IsFiniteSet(meant)
  <2>1. meant \subseteq Chains
      OBVIOUS
  <2> QED BY <2>1, SnapshotAssumption, FS_Subset
<1>3. IsFiniteSet({asset_of(c) : c \in meant})
  <2> HIDE DEF meant
  <2> DEFINE f == [c \in meant |-> asset_of(c)]
             T == {asset_of(c) : c \in meant}
  <2>1. f \in Surjection(meant, T)
      BY DEF Surjection
  <2> HIDE DEF f, T
  <2>2. IsFiniteSet(T)
      BY <1>2, <2>1, FS_Surjection
  <2> QED BY <2>2 DEF T
<1>4. NativeCandidates(SymbolText, id) = {asset_of(c) : c \in meant}
    BY DEF NativeCandidates
<1> QED BY <1>1, <1>3, <1>4, FS_Union DEF Candidates

(***************************************************************************)
(* The caller's words                                                      *)
(***************************************************************************)
LEMMA SamePayload ==
  ASSUME payload' = payload
  PROVE  /\ GivenChain' = GivenChain
         /\ AddressText' = AddressText /\ SymbolText' = SymbolText /\ NameText' = NameText
         /\ StatedDecimals' = StatedDecimals
         /\ \A id : Candidates(id)' = Candidates(id)
BY DEF GivenChain, Meant, StatedIds, StatedNames, Hinted, AddressText, SymbolText, NameText,
       Hidden, StatedDecimals, Candidates

LEMMA OneChainMeant == \A c, d \in Meant : c = d
<1>1. \A c, d \in StatedIds : c = d
    BY DEF StatedIds
<1>2. \A c, d \in StatedNames : c = d
    BY DEF StatedNames
<1>3. \A c, d \in Hinted : c = d
    BY DEF Hinted
<1> QED BY <1>1, <1>2, <1>3 DEF Meant

(***************************************************************************)
(* What settles the asset                                                  *)
(***************************************************************************)

(* A listed contract is reported as the registry has it. *)
LEMMA ListedSettles ==
  ASSUME payload' = payload, chain' = chain, chain = GivenChain,
         AddressText # Absent, AddressText \in DOMAIN Checksum,
         NEW t \in TokensByAddress(chain, Checksum[AddressText]),
         asset' = Registered(t), report'.scam = FALSE
  PROVE  Settled'
<1>1. /\ t \in Tokens /\ t.chainId = chain /\ t.address = Checksum[AddressText]
      /\ t.address # Absent
    BY NoneIsNoAddress DEF TokensByAddress
<1>2. /\ asset'.address = t.address /\ asset'.symbol = t.symbol /\ asset'.name = t.name
      /\ asset'.decimals = t.decimals /\ asset'.native = FALSE
      /\ asset'.wrapped = WrappedOf(chain, t.address)
    BY DEF Registered
<1>3. TokensByAddress(chain, t.address) = {t}
    BY <1>1, SnapshotAssumption DEF TokensByAddress
<1>4. AddressText' = AddressText /\ GivenChain' = GivenChain
    BY SamePayload
<1>5. IdentityGrounded'
    BY <1>1, <1>2, <1>4 DEF IdentityGrounded
<1>6. RegistryWins'
    BY <1>1, <1>2, <1>3 DEF RegistryWins
<1>7. AmbiguityNeverGuessed'
    BY <1>4 DEF AmbiguityNeverGuessed
<1>8. ImpostorsFlagged'
  <2>1. CASE t.symbol = Absent
      BY <1>2, <2>1 DEF ImpostorsFlagged
  <2>2. CASE t.symbol # Absent
    <3>1. t \in TokensBySymbol(t.symbol, chain)
        BY <1>1 DEF TokensBySymbol
    <3> QED BY <1>2, <3>1 DEF ImpostorsFlagged
  <2> QED BY <2>1, <2>2
<1>9. DecimalsGrounded'
    BY <1>2, <1>3 DEF DecimalsGrounded
<1> QED BY <1>5, <1>6, <1>7, <1>8, <1>9 DEF Settled

(* An unlisted contract keeps the caller's address and symbol. *)
LEMMA UnlistedSettles ==
  ASSUME payload' = payload, chain' = chain, chain = GivenChain,
         AddressText # Absent, AddressText \in DOMAIN Checksum,
         TokensByAddress(chain, Checksum[AddressText]) = {},
         asset'.address = Checksum[AddressText], asset'.symbol = SymbolText,
         asset'.native = FALSE, report'.scam <=> Impostor,
         \/ asset'.decimals = StatedDecimals
         \/ /\ StatedDecimals = Absent /\ payload.prefer = "onchain"
            /\ report'.by = "onchain" /\ answer' = asset'.decimals
  PROVE  Settled'
<1>1. /\ AddressText' = AddressText /\ GivenChain' = GivenChain
      /\ StatedDecimals' = StatedDecimals
    BY SamePayload
<1>2. asset'.address # Absent
    BY NoneIsNoAddress DEF Addresses
<1>3. IdentityGrounded'
    BY <1>1 DEF IdentityGrounded
<1>4. RegistryWins'
    BY TextAssumption DEF RegistryWins
<1>5. AmbiguityNeverGuessed'
    BY <1>1 DEF AmbiguityNeverGuessed
<1>6. ImpostorsFlagged'
  <2>1. CASE chain = Absent \/ SymbolText = Absent
      BY <2>1 DEF ImpostorsFlagged, Impostor
  <2>2. CASE chain # Absent /\ SymbolText # Absent
    <3>1. \A t \in TokensBySymbol(SymbolText, chain) : t.address # asset'.address
        BY <2>2 DEF TokensBySymbol, TokensByAddress
    <3> QED BY <1>2, <2>2, <3>1 DEF ImpostorsFlagged, Impostor
  <2> QED BY <2>1, <2>2
<1>7. DecimalsGrounded'
    BY <1>1 DEF DecimalsGrounded
<1> QED BY <1>3, <1>4, <1>5, <1>6, <1>7 DEF Settled

(* A ticker's only candidate, or the one the model named. *)
LEMMA AdoptedSettles ==
  ASSUME payload' = payload, chain = GivenChain, AddressText = Absent, SymbolText # Absent,
         NEW t \in Candidates(chain), NEW by, Adopt(t, by),
         DOMAIN report = {"ambiguous", "by", "scam", "inferred"}, report.scam = FALSE,
         \A u \in Candidates(chain) : Identity(u) # Identity(t) =>
           answer' = Identity(t) /\ report.ambiguous = TRUE /\ by = "heuristic"
  PROVE  Settled'
<1>1. /\ AddressText' = AddressText /\ SymbolText' = SymbolText /\ GivenChain' = GivenChain
      /\ \A u : u \in Candidates(GivenChain)' <=> u \in Candidates(chain)
    BY SamePayload
<1>2. /\ chain' = t.chainId /\ asset'.address = t.address /\ asset'.symbol = t.symbol
      /\ asset'.name = t.name /\ asset'.decimals = t.decimals
      /\ asset'.wrapped = WrappedOf(t.chainId, t.address)
    BY DEF Adopt
<1>3. asset'.native = (t.address = Absent)
    BY DEF Adopt
<1>4. /\ report'.scam = FALSE /\ report'.by = by
      /\ report.ambiguous = TRUE => report'.ambiguous = TRUE
    BY DEF Adopt
<1>5. Asked' = Identity(t)
    BY <1>2 DEF Asked, Identity
<1>6. AmbiguityNeverGuessed'
    BY <1>1, <1>4, <1>5 DEF AmbiguityNeverGuessed
<1>7. CASE t \in Tokens /\ t.address # Absent /\ Fold[t.symbol] = Fold[SymbolText]
  <2>1. asset'.native = FALSE
      BY <1>3, <1>7
  <2>2. TokensByAddress(t.chainId, t.address) = {t}
      BY <1>7, SnapshotAssumption DEF TokensByAddress
  <2>3. chain \in {t.chainId, Absent} /\ t.chainId # Absent
      BY CandidateKinds
  <2>4. IdentityGrounded'
      BY <1>1, <1>2, <1>7, <2>1, <2>2, <2>3 DEF IdentityGrounded
  <2>5. RegistryWins'
      BY <1>2, <2>1, <2>2 DEF RegistryWins
  <2>6. ImpostorsFlagged'
    <3>1. t \in TokensBySymbol(t.symbol, t.chainId)
        BY <1>7 DEF TokensBySymbol
    <3> QED BY <1>2, <1>4, <3>1 DEF ImpostorsFlagged
  <2>7. DecimalsGrounded'
      BY <1>2, <2>2 DEF DecimalsGrounded
  <2> QED BY <1>6, <2>4, <2>5, <2>6, <2>7 DEF Settled
<1>8. CASE /\ t.address = Absent
           /\ t.symbol = ChainById(t.chainId).native
           /\ t.decimals = ChainById(t.chainId).decimals
           /\ Fold[SymbolText] \in {Fold[s] : s \in ChainById(t.chainId).aliases}
  <2>1. asset'.native = TRUE
      BY <1>3, <1>8
  <2>2. TokensByAddress(t.chainId, t.address) = {}
      BY <1>8, NoneIsNoAddress DEF TokensByAddress
  <2>3. chain \in {t.chainId, Absent} /\ t.chainId # Absent
      BY CandidateKinds
  <2>4. IdentityGrounded'
      BY <1>1, <1>2, <1>8, <2>1, <2>3 DEF IdentityGrounded
  <2>5. RegistryWins'
      BY <1>2, <1>8, <2>1, <2>2 DEF RegistryWins
  <2>6. ImpostorsFlagged'
      BY <1>2, <1>4, <1>8 DEF ImpostorsFlagged
  <2>7. DecimalsGrounded'
      BY <2>1 DEF DecimalsGrounded
  <2> QED BY <1>6, <2>4, <2>5, <2>6, <2>7 DEF Settled
<1> QED BY <1>7, <1>8, CandidateKinds

(* Once the asset is known no stage touches what the properties speak of. *)
LEMMA StaysSettled ==
  ASSUME Settled, payload' = payload, chain' = chain, asset' = asset, answer' = answer,
         report'.scam = report.scam, report'.by = report.by,
         report'.ambiguous = report.ambiguous, Resolved' => Resolved
  PROVE  Settled'
<1>1. /\ AddressText' = AddressText /\ SymbolText' = SymbolText /\ GivenChain' = GivenChain
      /\ StatedDecimals' = StatedDecimals
      /\ \A u : u \in Candidates(GivenChain)' <=> u \in Candidates(GivenChain)
    BY SamePayload
<1>2. IdentityGrounded'
    BY <1>1 DEF Settled, IdentityGrounded
<1>3. RegistryWins'
    BY DEF Settled, RegistryWins
<1>4. AmbiguityNeverGuessed'
    BY <1>1 DEF Settled, AmbiguityNeverGuessed, Asked
<1>5. ImpostorsFlagged'
    BY DEF Settled, ImpostorsFlagged
<1>6. DecimalsGrounded'
    BY <1>1 DEF Settled, DecimalsGrounded
<1> QED BY <1>2, <1>3, <1>4, <1>5, <1>6 DEF Settled

LEMMA NotYetSettled ==
  ASSUME ~Resolved'
  PROVE  Settled'
BY DEF Settled, IdentityGrounded, RegistryWins, AmbiguityNeverGuessed, ImpostorsFlagged,
       DecimalsGrounded

(***************************************************************************)
(* The stages                                                              *)
(***************************************************************************)
LEMMA InitInv == Init => Inv
<1> SUFFICES ASSUME Init PROVE Inv
    OBVIOUS
<1>1. phase = "chain" /\ chain = Absent /\ asset = NoAsset /\ report = NoReport
    BY DEF Init
<1>2. Shape /\ Chained
    BY <1>1 DEF Shape, Chained, NoAsset, NoReport
<1>3. Reading /\ Picking
    BY <1>1 DEF Reading, Picking
<1>4. Settled
    BY <1>1 DEF Resolved, Settled, IdentityGrounded, RegistryWins, AmbiguityNeverGuessed,
                ImpostorsFlagged, DecimalsGrounded
<1> QED BY <1>2, <1>3, <1>4 DEF Inv

(* A stage after which the asset is known, and nothing else is expected. *)
LEMMA Concludes ==
  ASSUME Shape', Settled', phase' \notin {"chain", "asset", "read", "pick"}
  PROVE  Inv'
BY DEF Inv, Chained, Reading, Picking

(* A stage that gives up. *)
LEMMA Abandons ==
  ASSUME Inv, UNCHANGED <<asset, report>>, phase' \in {"failed", "raised"}
  PROVE  Inv'
<1>1. Shape'
    BY DEF Inv, Shape
<1>2. ~Resolved'
    BY DEF Resolved
<1> QED BY <1>1, <1>2, NotYetSettled, Concludes

(* What a plain exception leaves behind. *)
Raise == RaiseOnDetection \/ PickRaises \/ RaiseOnAmount \/ RaiseOnTimestamp
LEMMA Raising ==
  Raise => /\ phase \in {"chain", "pick", "amount", "time"} /\ phase' = "raised"
           /\ UNCHANGED <<payload, error, chain, asset, amount, stamp, report, answer, earlier>>
BY DEF Raise, RaiseOnDetection, PickRaises, RaiseOnAmount, RaiseOnTimestamp

LEMMA ResolveChainInv == Inv /\ ResolveChain => Inv'
<1> SUFFICES ASSUME Inv, ResolveChain PROVE Inv'
    OBVIOUS
<1>1. /\ phase = "chain" /\ phase' \in {"failed", "asset"}
      /\ UNCHANGED <<payload, asset, amount, stamp, answer, earlier>>
      /\ chain = Absent /\ report.scam = FALSE
    BY DEF ResolveChain, Fail, Inv, Chained
<1>2. DOMAIN report' = DOMAIN report /\ report'.scam = FALSE
    BY <1>1 DEF ResolveChain, Inv, Shape
<1>3. chain' = GivenChain
    BY <1>1, OneChainMeant DEF ResolveChain, GivenChain
<1>4. Shape'
    BY <1>1, <1>2 DEF Inv, Shape
<1>5. Chained'
    BY <1>1, <1>2, <1>3, SamePayload DEF Chained
<1>6. Reading' /\ Picking' /\ ~Resolved'
    BY <1>1 DEF Reading, Picking, Resolved
<1> QED BY <1>4, <1>5, <1>6, NotYetSettled DEF Inv

LEMMA KnownAddressInv == Inv /\ KnownAddress => Inv'
<1> SUFFICES ASSUME Inv, KnownAddress PROVE Inv'
    OBVIOUS
<1>1. /\ phase = "asset" /\ phase' = "amount" /\ payload' = payload /\ chain' = chain
      /\ AddressText # Absent /\ AddressText \in DOMAIN Checksum
    BY DEF KnownAddress, ByAddress
<1>2. PICK t \in TokensByAddress(chain, Checksum[AddressText]) : asset' = Registered(t)
    BY DEF KnownAddress
<1>3. DOMAIN report' = DOMAIN report /\ report'.scam = FALSE
    BY <1>1 DEF KnownAddress, Inv, Shape, Chained
<1>4. Shape'
    BY <1>1, <1>2, <1>3 DEF Inv, Shape, Registered
<1>5. Settled'
    BY <1>1, <1>2, <1>3, ListedSettles DEF Inv, Chained
<1> QED BY <1>1, <1>4, <1>5, Concludes

LEMMA UnknownAddressInv == Inv /\ UnknownAddress => Inv'
<1> SUFFICES ASSUME Inv, UnknownAddress PROVE Inv'
    OBVIOUS
<1>1. /\ phase = "asset" /\ payload' = payload /\ chain' = chain /\ chain = GivenChain
      /\ AddressText # Absent /\ AddressText \in DOMAIN Checksum
      /\ TokensByAddress(chain, Checksum[AddressText]) = {}
      /\ phase' = IF ReadsChain THEN "read" ELSE "amount"
    BY DEF UnknownAddress, ByAddress, Inv, Chained
<1>2. /\ asset'.address = Checksum[AddressText] /\ asset'.symbol = SymbolText
      /\ asset'.native = FALSE /\ asset'.decimals = StatedDecimals
      /\ DOMAIN asset' = DOMAIN asset
    BY DEF UnknownAddress, Inv, Shape
<1>3. DOMAIN report' = DOMAIN report /\ (report'.scam <=> Impostor)
    BY DEF UnknownAddress, Inv, Shape
<1>4. Shape'
    BY <1>1, <1>2, <1>3 DEF Inv, Shape
<1>5. Settled'
    BY <1>1, <1>2, <1>3, UnlistedSettles
<1>6. CASE ReadsChain
  <2>1. phase' = "read"
      BY <1>1, <1>6
  <2>2. StatedDecimals = Absent /\ payload.prefer = "onchain"
      BY <1>6 DEF ReadsChain
  <2>3. Impostor' <=> Impostor
      BY <1>1, SamePayload DEF Impostor
  <2>4. Reading'
      BY <1>1, <1>2, <1>3, <2>2, <2>3, SamePayload DEF Reading
  <2>5. Chained' /\ Picking'
      BY <2>1 DEF Chained, Picking
  <2> QED BY <1>4, <1>5, <2>4, <2>5 DEF Inv
<1>7. CASE ~ReadsChain
    BY <1>1, <1>4, <1>5, <1>7, Concludes
<1> QED BY <1>6, <1>7

LEMMA ReadDecimalsInv == Inv /\ ReadDecimals => Inv'
<1> SUFFICES ASSUME Inv, ReadDecimals PROVE Inv'
    OBVIOUS
<1>1. phase = "read" /\ phase' = "amount" /\ payload' = payload /\ chain' = chain
    BY DEF ReadDecimals
<1>2. /\ DOMAIN asset' = DOMAIN asset /\ DOMAIN report' = DOMAIN report
      /\ asset'.address = asset.address /\ asset'.symbol = asset.symbol
      /\ asset'.native = asset.native
    BY DEF ReadDecimals, Inv, Shape
<1>3. report'.scam = report.scam
    BY DEF ReadDecimals, Inv, Shape
<1>4. asset'.decimals = Absent \/ (report'.by = "onchain" /\ answer' = asset'.decimals)
    BY <1>1 DEF ReadDecimals, Inv, Shape, Reading
<1>5. Shape'
    BY <1>1, <1>2 DEF Inv, Shape
<1>6. Settled'
    BY <1>1, <1>2, <1>3, <1>4, UnlistedSettles DEF Inv, Reading
<1> QED BY <1>1, <1>5, <1>6, Concludes

LEMMA AdoptShape ==
  ASSUME Shape, NEW t, NEW by, Adopt(t, by)
  PROVE  Shape'
BY DEF Adopt, Shape

LEMMA UniqueTickerInv == Inv /\ UniqueTicker => Inv'
<1> SUFFICES ASSUME Inv, UniqueTicker PROVE Inv'
    OBVIOUS
<1>1. /\ phase = "asset" /\ payload' = payload /\ chain = GivenChain
      /\ AddressText = Absent /\ SymbolText # Absent
      /\ report.scam = FALSE /\ Cardinality(Candidates(chain)) = 1
    BY DEF UniqueTicker, ByTicker, Inv, Chained
<1>2. PICK t \in Candidates(chain) : Adopt(t, "registry")
    BY DEF UniqueTicker
<1>3. \A u \in Candidates(chain) : u = t
    BY <1>1, FiniteCandidates, FS_Singleton
<1>4. Shape' /\ phase' = "amount"
    BY <1>2, AdoptShape DEF Inv, Adopt
<1>5. Settled'
    BY <1>1, <1>2, <1>3, AdoptedSettles DEF Inv, Shape
<1> QED BY <1>4, <1>5, Concludes

LEMMA AmbiguousTickerInv == Inv /\ AmbiguousTicker => Inv'
<1> SUFFICES ASSUME Inv, AmbiguousTicker PROVE Inv'
    OBVIOUS
<1>1. /\ phase = "asset" /\ phase' = "pick" /\ UNCHANGED <<payload, chain, asset>>
      /\ chain = GivenChain /\ AddressText = Absent /\ SymbolText # Absent
    BY DEF AmbiguousTicker, ByTicker, Inv, Chained
<1>2. DOMAIN report' = DOMAIN report /\ report'.scam = FALSE /\ report'.ambiguous = TRUE
    BY <1>1 DEF AmbiguousTicker, Inv, Shape, Chained
<1>3. Shape'
    BY <1>1, <1>2 DEF Inv, Shape
<1>4. Chained' /\ Picking' /\ Reading'
    BY <1>1, <1>2, SamePayload DEF Chained, Picking, Reading
<1>5. ~Resolved'
    BY <1>1 DEF Resolved
<1> QED BY <1>3, <1>4, <1>5, NotYetSettled DEF Inv

LEMMA PickCandidateInv == Inv /\ PickCandidate => Inv'
<1> SUFFICES ASSUME Inv, PickCandidate PROVE Inv'
    OBVIOUS
<1>1. /\ phase = "pick" /\ payload' = payload /\ chain = GivenChain
      /\ AddressText = Absent /\ SymbolText # Absent
      /\ report.scam = FALSE /\ report.ambiguous = TRUE
    BY DEF PickCandidate, Inv, Chained, Picking
<1>2. PICK t \in Candidates(chain) : answer' = Identity(t) /\ Adopt(t, "heuristic")
    BY DEF PickCandidate, Endorsed
<1>3. Shape' /\ phase' = "amount"
    BY <1>2, AdoptShape DEF Inv, Adopt
<1>4. Settled'
    BY <1>1, <1>2, AdoptedSettles DEF Inv, Shape
<1> QED BY <1>3, <1>4, Concludes

LEMMA NothingToResolveInv == Inv /\ NothingToResolve => Inv'
<1> SUFFICES ASSUME Inv, NothingToResolve PROVE Inv'
    OBVIOUS
<1>1. /\ phase = "asset" /\ phase' = "amount" /\ UNCHANGED <<payload, chain, report>>
      /\ AddressText = Absent /\ SymbolText = Absent /\ report.scam = FALSE
    BY DEF NothingToResolve, Inv, Chained
<1>2. /\ DOMAIN asset' = DOMAIN NoAsset /\ asset'.address = Absent /\ asset'.native = Absent
      /\ asset'.symbol = Absent /\ asset'.decimals = StatedDecimals
    BY DEF NothingToResolve, NoAsset
<1>3. Shape'
    BY <1>1, <1>2 DEF Inv, Shape, NoAsset
<1>4. /\ AddressText' = AddressText /\ SymbolText' = SymbolText
      /\ StatedDecimals' = StatedDecimals
    BY <1>1, SamePayload
<1>5. TokensByAddress(chain, Absent) = {} /\ Absent # TRUE
    BY NoneIsNoAddress, TextAssumption DEF TokensByAddress
<1>6. IdentityGrounded'
    BY <1>1, <1>2, <1>4 DEF IdentityGrounded
<1>7. RegistryWins'
    BY <1>1, <1>2, <1>5 DEF RegistryWins
<1>8. AmbiguityNeverGuessed' /\ ImpostorsFlagged' /\ DecimalsGrounded'
    BY <1>1, <1>2, <1>4 DEF AmbiguityNeverGuessed, ImpostorsFlagged, DecimalsGrounded
<1> QED BY <1>1, <1>3, <1>6, <1>7, <1>8, Concludes DEF Settled

(* Amount, timestamp and validation only add to what was inferred. *)
LEMMA LaterStages ==
  Inv /\ (ConvertAmount \/ NormTimestamp \/ Validate) => Inv'
<1> SUFFICES ASSUME Inv, ConvertAmount \/ NormTimestamp \/ Validate PROVE Inv'
    OBVIOUS
<1>1. /\ phase \in {"amount", "time", "validate"}
      /\ phase' \in {"time", "validate", "done", "failed"}
      /\ UNCHANGED <<payload, chain, asset, answer>>
    BY DEF ConvertAmount, NormTimestamp, Validate, Fail
<1>2. /\ DOMAIN report' = DOMAIN report /\ report'.scam = report.scam
      /\ report'.by = report.by /\ report'.ambiguous = report.ambiguous
    BY DEF ConvertAmount, NormTimestamp, Validate, Inv, Shape
<1>3. Shape'
    BY <1>1, <1>2 DEF Inv, Shape
<1>4. Settled'
    BY <1>1, <1>2, StaysSettled DEF Inv, Resolved
<1> QED BY <1>1, <1>3, <1>4, Concludes

LEMMA Refusals ==
  Inv /\ (RefuseAddress \/ RefuseTicker \/ NoCandidatePicked \/ RefuseAmount
          \/ RefuseTimestamp \/ Raise) => Inv'
BY Abandons, Raising
   DEF RefuseAddress, RefuseTicker, NoCandidatePicked, RefuseAmount, RefuseTimestamp, Fail

LEMMA ResubmitInv == Inv /\ Resubmit => Inv'
<1> SUFFICES ASSUME Inv, Resubmit PROVE Inv'
    OBVIOUS
<1>1. phase' = "chain" /\ chain' = Absent /\ asset' = NoAsset /\ report' = NoReport
    BY DEF Resubmit
<1>2. Shape' /\ Chained'
    BY <1>1 DEF Shape, Chained, NoAsset, NoReport
<1>3. Reading' /\ Picking' /\ ~Resolved'
    BY <1>1 DEF Reading, Picking, Resolved
<1> QED BY <1>2, <1>3, NotYetSettled DEF Inv

LEMMA StutterInv == Inv /\ UNCHANGED vars => Inv'
<1> SUFFICES ASSUME Inv, UNCHANGED vars PROVE Inv'
    OBVIOUS
<1>1. Settled'
    BY StaysSettled DEF vars, Inv, Resolved
<1>2. Shape' /\ Picking' /\ Chained'
    BY SamePayload DEF vars, Inv, Shape, Picking, Chained
<1>3. Impostor' <=> Impostor
    BY SamePayload DEF vars, Impostor
<1>4. Reading'
    BY <1>3, SamePayload DEF vars, Inv, Reading
<1> QED BY <1>1, <1>2, <1>4 DEF Inv

LEMMA NextInv == Inv /\ [Next]_vars => Inv'
BY ResolveChainInv, KnownAddressInv, UnknownAddressInv, ReadDecimalsInv, UniqueTickerInv,
   AmbiguousTickerInv, PickCandidateInv, NothingToResolveInv, LaterStages, Refusals,
   ResubmitInv, StutterInv
   DEF Next, Stages, Raise

(* The inductive invariant holds throughout. *)
THEOREM InvHolds == Spec => []Inv
BY InitInv, NextInv, PTL DEF Spec

(* For any registry and payload, submitted once or its result again: the   *)
(* reported address is the caller's, or that of an asset listed under the  *)
(* caller's symbol on the caller's chain (pipeline.py:75-143).             *)
THEOREM IdentityHolds == Spec => []IdentityGrounded
<1>1. Inv => IdentityGrounded
    BY DEF Inv, Settled
<1> QED BY <1>1, InvHolds, PTL

(* For any registry and payload: a listed asset has the registry's symbol, *)
(* name, decimals and wrapped asset, whatever else the caller claimed      *)
(* (pipeline.py:78-85, 127-136).                                           *)
THEOREM RegistryHolds == Spec => []RegistryWins
<1>1. Inv => RegistryWins
    BY DEF Inv, Settled
<1> QED BY <1>1, InvHolds, PTL

(* For any registry, payload and model: a ticker with several meanings is  *)
(* settled only by an answer that is exactly one of them (llm.py:3-12).    *)
THEOREM NothingGuessed == Spec => []AmbiguityNeverGuessed
<1>1. Inv => AmbiguityNeverGuessed
    BY DEF Inv, Settled
<1> QED BY <1>1, InvHolds, PTL

(* For any registry and payload: an asset is flagged exactly when it pairs *)
(* a contract with a symbol of others of its chain (pipeline.py:88-96).    *)
THEOREM ImpostorsHold == Spec => []ImpostorsFlagged
<1>1. Inv => ImpostorsFlagged
    BY DEF Inv, Settled
<1> QED BY <1>1, InvHolds, PTL

(* For any registry, payload and node: decimals are the registry's, the    *)
(* caller's, or what the contract answered to a caller who had opted in    *)
(* (pipeline.py:71, 85, 97-106, 149).                                      *)
THEOREM DecimalsHold == Spec => []DecimalsGrounded
<1>1. Inv => DecimalsGrounded
    BY DEF Inv, Settled
<1> QED BY <1>1, InvHolds, PTL

(***************************************************************************)
(* Types                                                                   *)
(***************************************************************************)
LEMMA CandidateType ==
  ASSUME NEW id, NEW t \in Candidates(id)
  PROVE  /\ t.chainId \in ChainIds /\ t.address \in Optional(Addresses)
         /\ t.symbol \in Texts /\ t.name \in Texts /\ t.decimals \in Nat
<1>1. CASE t \in TokensBySymbol(SymbolText, id)
    BY <1>1, SnapshotAssumption DEF TokensBySymbol, Optional
<1>2. CASE t \in NativeCandidates(SymbolText, id)
    BY <1>2, SnapshotAssumption DEF NativeCandidates, ChainIds, Optional
<1> QED BY <1>1, <1>2 DEF Candidates

LEMMA WrappedType ==
  ASSUME NEW id \in Optional(ChainIds), NEW a
  PROVE  WrappedOf(id, a) \in Optional(Texts)
<1>1. CASE id \in ChainIds
  <2>1. PICK c \in Chains : id = c.id
      BY <1>1 DEF ChainIds
  <2>2. ChainById(id) = c /\ c.native \in Texts
      BY <2>1, ChainFound, SnapshotAssumption
  <2> QED BY <2>2 DEF WrappedOf, Optional
<1>2. CASE id = Absent
    BY <1>2 DEF WrappedOf, Optional
<1> QED BY <1>1, <1>2 DEF Optional

LEMMA StatedTypes ==
  ASSUME payload \in PayloadType
  PROVE  /\ AddressText \in Optional(Texts) /\ SymbolText \in Optional(Texts)
         /\ NameText \in Optional(Texts) /\ StatedDecimals \in Optional(Nat)
         /\ StatedRaw \subseteq Int /\ StatedHuman \subseteq [n : Int, k : Nat]
         /\ Meant \subseteq ChainIds
<1>1. /\ payload.address \in Optional(Texts) /\ payload.symbol \in Optional(Texts)
      /\ payload.name \in Optional(Texts) /\ payload.decimals \in DecimalCells
      /\ payload.amount \in AmountCells
    BY DEF PayloadType
<1>2. AddressText \in Optional(Texts) /\ SymbolText \in Optional(Texts)
      /\ NameText \in Optional(Texts)
    BY <1>1 DEF AddressText, SymbolText, NameText, Optional
<1>3. StatedDecimals \in Optional(Nat)
    BY <1>1, NumbersAssumption DEF StatedDecimals, DecimalCells, NoCell, Optional
<1>4. StatedRaw \subseteq Int
    BY <1>1 DEF StatedRaw, AmountCells, NoCell
<1>5. StatedHuman \subseteq [n : Int, k : Nat]
    BY <1>1 DEF StatedHuman, AmountCells, NoCell
<1>6. Meant \subseteq ChainIds
    BY SnapshotAssumption DEF Meant
<1> QED BY <1>2, <1>3, <1>4, <1>5, <1>6

(* A raw amount is rounded before its zeros are cut off. *)
LEMMA HumanForm ==
  ASSUME NEW raw \in Nat, NEW d \in Nat
  PROVE  \E n \in Nat : /\ HumanOf(raw, d) = Trimmed(n, d)
                        /\ d <= Places => n = Rounded(raw, Precision)
<1>1. PICK f \in Nat : f = Places
    BY NumbersAssumption DEF Places
<1>2. d \in Int /\ Precision \in Nat
    BY NumbersAssumption
<1> QED BY <1>1, <1>2, ShiftedNat DEF HumanOf

(* Amounts never become negative (resolve.py:142-165). *)
LEMMA HumanType ==
  ASSUME NEW raw \in Nat, NEW d \in Nat
  PROVE  HumanOf(raw, d) \in [n : Nat, k : Nat]
<1>1. PICK n \in Nat : HumanOf(raw, d) = Trimmed(n, d)
    BY HumanForm
<1>2. PICK z \in 0..d : Trimmed(n, d) = [n |-> n \div Pow10[z], k |-> d - z]
    BY TrimmedPlaces
<1>3. PICK u \in Nat \ {0} : u = Pow10[z]
    BY <1>2, PowersOfTen
<1>4. n \div u \in Nat /\ d - z \in Nat
    BY <1>3, Divides
<1> QED BY <1>1, <1>2, <1>3, <1>4

LEMMA ShiftLimitType == ShiftLimit \in Nat
BY NumbersAssumption DEF ShiftLimit

LEMMA NoRawIfNegative ==
  ASSUME NEW h \in [n : Int, k : Nat], NEW d \in Nat, h.n < 0 \/ d > ShiftLimit
  PROVE  RawOf(h, d) = {}
BY DEF RawOf

(* With places to spare a human amount always has a raw one ... *)
LEMMA RawOfWhole ==
  ASSUME NEW h \in [n : Int, k : Nat], NEW d \in Nat, h.n >= 0, h.k <= d, d <= ShiftLimit,
         NEW n, n = Rounded(h.n, Precision), NEW u, u = Pow10[d - h.k]
  PROVE  RawOf(h, d) = {n * u}
<1>1. ~(h.n < 0 \/ d > ShiftLimit)
    BY ShiftLimitType
<1> QED BY <1>1 DEF RawOf

(* ... with too few only if what is cut off are zeros. *)
LEMMA RawOfFraction ==
  ASSUME NEW h \in [n : Int, k : Nat], NEW d \in Nat, h.n >= 0, h.k > d, d <= ShiftLimit,
         NEW n, n = Rounded(h.n, Precision), NEW u, u = Pow10[h.k - d]
  PROVE  \A q : q \in RawOf(h, d) <=> q = n \div u /\ q * u = n
<1>1. ~(h.n < 0 \/ d > ShiftLimit) /\ ~(h.k <= d)
    BY ShiftLimitType
<1> QED BY <1>1 DEF RawOf

LEMMA RawType ==
  ASSUME NEW h \in [n : Int, k : Nat], NEW d \in Nat
  PROVE  RawOf(h, d) \subseteq Nat
<1>1. CASE h.n < 0 \/ d > ShiftLimit
    BY <1>1, NoRawIfNegative
<1>2. CASE ~(h.n < 0 \/ d > ShiftLimit)
  <2>1. h.n \in Nat /\ d <= ShiftLimit
      BY <1>2, ShiftLimitType
  <2>2. PICK n \in Nat : n = Rounded(h.n, Precision)
      BY <2>1, RoundedNat, NumbersAssumption
  <2>3. CASE h.k <= d
    <3>1. PICK u \in Nat : u = Pow10[d - h.k]
        BY <2>3, PowersOfTen
    <3>2. n * u \in Nat
        OBVIOUS
    <3> QED BY <2>1, <2>2, <2>3, <3>1, <3>2, RawOfWhole
  <2>4. CASE h.k > d
    <3>1. PICK u \in Nat \ {0} : u = Pow10[h.k - d]
        BY <2>4, PowersOfTen
    <3>2. n \div u \in Nat
        BY <3>1, Divides
    <3> QED BY <2>1, <2>2, <2>4, <3>1, <3>2, RawOfFraction
  <2> QED BY <2>3, <2>4
<1> QED BY <1>1, <1>2

LEMMA RawsType ==
  ASSUME payload \in PayloadType, NEW d, StatedHuman # {} => d \in Nat
  PROVE  RawsOfHuman(d) \subseteq Nat
BY StatedTypes, RawType DEF RawsOfHuman

LEMMA TypeInit == Init => TypeOK
BY PayloadsAssumption
   DEF Init, TypeOK, ReportType, NoAsset, AssetType, AmountType, NoReport, Optional

LEMMA TypeOfChain == TypeOK /\ ResolveChain => TypeOK'
BY StatedTypes DEF TypeOK, ReportType, ResolveChain, Fail, Optional

LEMMA TypeOfAddress ==
  TypeOK /\ (RefuseAddress \/ KnownAddress \/ UnknownAddress \/ ReadDecimals) => TypeOK'
<1> SUFFICES ASSUME TypeOK PROVE (RefuseAddress \/ KnownAddress \/ UnknownAddress
                                  \/ ReadDecimals) => TypeOK'
    OBVIOUS
<1>1. RefuseAddress => TypeOK'
    BY DEF TypeOK, RefuseAddress, Fail
<1>2. ASSUME KnownAddress PROVE TypeOK'
  <2>1. PICK t \in TokensByAddress(chain, Checksum[AddressText]) : asset' = Registered(t)
      BY <1>2 DEF KnownAddress
  <2>2. t.address \in Addresses /\ t.symbol \in Texts /\ t.name \in Texts /\ t.decimals \in Nat
      BY <2>1, SnapshotAssumption DEF TokensByAddress
  <2>3. WrappedOf(chain, t.address) \in Optional(Texts)
      BY WrappedType DEF TypeOK
  <2>4. asset' \in AssetType
      BY <2>1, <2>2, <2>3 DEF Registered, AssetType, Optional
  <2> QED BY <1>2, <2>4 DEF TypeOK, ReportType, KnownAddress
<1>3. ASSUME UnknownAddress PROVE TypeOK'
  <2>1. Checksum[AddressText] \in Addresses
      BY <1>3 DEF UnknownAddress, Addresses
  <2>2. SymbolText \in Optional(Texts) /\ NameText \in Optional(Texts)
        /\ StatedDecimals \in Optional(Nat)
      BY StatedTypes DEF TypeOK
  <2>3. asset' \in AssetType
      BY <1>3, <2>1, <2>2 DEF UnknownAddress, AssetType, Optional
  <2>4. Impostor \in BOOLEAN
      BY DEF Impostor
  <2> QED BY <1>3, <2>3, <2>4 DEF TypeOK, ReportType, UnknownAddress
<1>4. ASSUME ReadDecimals PROVE TypeOK'
  <2>3. report' \in ReportType
    <3>1. CASE answer' = Absent
        BY <1>4, <3>1 DEF ReadDecimals, TypeOK
    <3>2. CASE answer' # Absent
      <4>1. report \in ReportType
          BY DEF TypeOK
      <4>2. report' = [report EXCEPT !.by = "onchain",
                                     !.inferred = report.inferred \cup {"decimals"}]
          BY <1>4, <3>2 DEF ReadDecimals
      <4> QED BY <4>1, <4>2 DEF ReportType
    <3> QED BY <3>1, <3>2
  <2>1. answer' = Absent \/ answer' \in Nat
      BY <1>4, NumbersAssumption DEF ReadDecimals
  <2>2. asset' \in AssetType
      BY <1>4, <2>1 DEF ReadDecimals, TypeOK, AssetType, Optional
  <2>4. /\ phase' = "amount"
        /\ UNCHANGED <<payload, error, chain, amount, stamp, earlier>>
      BY <1>4 DEF ReadDecimals
  <2> QED BY <2>2, <2>3, <2>4 DEF TypeOK
<1> QED BY <1>1, <1>2, <1>3, <1>4

LEMMA TypeOfAdoption ==
  ASSUME TypeOK, NEW t \in Candidates(chain), NEW by \in {"registry", "heuristic"},
         Adopt(t, by), UNCHANGED <<payload, error, amount, stamp, earlier>>
  PROVE  TypeOK'
<1>1. /\ t.chainId \in ChainIds /\ t.address \in Optional(Addresses)
      /\ t.symbol \in Texts /\ t.name \in Texts /\ t.decimals \in Nat
    BY CandidateType
<1>2. WrappedOf(t.chainId, t.address) \in Optional(Texts)
    BY <1>1, WrappedType DEF Optional
<1>3. asset' \in AssetType /\ chain' \in Optional(ChainIds)
    BY <1>1, <1>2 DEF Adopt, AssetType, Optional
<1> QED BY <1>3 DEF TypeOK, ReportType, Adopt

LEMMA TypeOfTicker ==
  TypeOK /\ (RefuseTicker \/ UniqueTicker \/ AmbiguousTicker \/ PickCandidate
             \/ NoCandidatePicked \/ NothingToResolve) => TypeOK'
<1>1. TypeOK /\ (RefuseTicker \/ AmbiguousTicker \/ NoCandidatePicked) => TypeOK'
    BY DEF TypeOK, ReportType, RefuseTicker, AmbiguousTicker, NoCandidatePicked, Fail
<1>2. TypeOK /\ (UniqueTicker \/ PickCandidate) => TypeOK'
    BY TypeOfAdoption DEF UniqueTicker, PickCandidate
<1>3. ASSUME TypeOK, NothingToResolve PROVE TypeOK'
  <2>1. NameText \in Optional(Texts) /\ StatedDecimals \in Optional(Nat)
      BY <1>3, StatedTypes DEF TypeOK
  <2>2. asset' \in AssetType
      BY <1>3, <2>1 DEF NothingToResolve, NoAsset, AssetType, Optional
  <2> QED BY <1>3, <2>2 DEF TypeOK, NothingToResolve
<1> QED BY <1>1, <1>2, <1>3

LEMMA TypeOfAmount ==
  TypeOK /\ (RefuseAmount \/ ConvertAmount) => TypeOK'
<1>1. TypeOK /\ RefuseAmount => TypeOK'
    BY DEF TypeOK, RefuseAmount, Fail
<1>2. ASSUME TypeOK, ConvertAmount PROVE TypeOK'
  <2> DEFINE converted == RawsOfHuman(asset.decimals)
  <2>1. StatedRaw \subseteq Int /\ StatedHuman \subseteq [n : Int, k : Nat]
      BY <1>2, StatedTypes DEF TypeOK
  <2>2. /\ StatedRaw \cup StatedHuman # {} => asset.decimals \in Nat
        /\ \A raw \in StatedRaw : raw >= 0
    <3>1. asset.decimals \in Optional(Nat)
        BY <1>2 DEF TypeOK, AssetType
    <3> QED BY <1>2, <2>1, <3>1
            DEF ConvertAmount, NeedDecimals, Unconvertible, Unshowable, Optional
  <2>3. converted \subseteq Nat /\ StatedRaw \subseteq Nat
    <3>1. StatedHuman # {} => asset.decimals \in Nat
        BY <2>2
    <3>2. converted \subseteq Nat
        BY <1>2, <3>1, RawsType DEF TypeOK
    <3> QED BY <2>1, <2>2, <3>2
  <2>4. amount' \in AmountType
    <3>1. CASE StatedRaw \cup converted = {}
        BY <1>2, <3>1 DEF ConvertAmount, TypeOK
    <3>2. CASE StatedRaw \cup converted # {}
      <4>1. PICK raw \in StatedRaw \cup converted :
              amount' = [raw |-> raw, human |-> HumanOf(raw, asset.decimals)]
          BY <1>2, <3>2 DEF ConvertAmount
      <4>2. asset.decimals \in Nat /\ raw \in Nat
        <5>1. StatedHuman = {} => converted = {}
            BY DEF RawsOfHuman
        <5> HIDE DEF converted
        <5> QED BY <2>2, <2>3, <4>1, <5>1
      <4>3. HumanOf(raw, asset.decimals) \in [n : Nat, k : Nat]
          BY <4>2, HumanType
      <4> QED BY <4>1, <4>2, <4>3 DEF AmountType
    <3> QED BY <3>1, <3>2
  <2> QED BY <1>2, <2>4 DEF TypeOK, ReportType, ConvertAmount
<1> QED BY <1>1, <1>2

LEMMA TypeOfTime == TypeOK /\ (NormTimestamp \/ RefuseTimestamp \/ Validate) => TypeOK'
<1>1. TypeOK /\ (RefuseTimestamp \/ Validate) => TypeOK'
    BY DEF TypeOK, RefuseTimestamp, Validate, Fail
<1>2. ASSUME TypeOK, NormTimestamp PROVE TypeOK'
  <2>1. payload.time \in TimeCells
      BY <1>2 DEF TypeOK, PayloadType
  <2>2. \A v \in Int : v \div PerSecond \in Int
      BY NumbersAssumption
  <2>3. stamp' \in Optional(Int)
      BY <1>2, <2>1, <2>2 DEF NormTimestamp, TimeCells, NoCell, Optional
  <2> QED BY <1>2, <2>3 DEF TypeOK, ReportType, NormTimestamp
<1> QED BY <1>1, <1>2

LEMMA TypeOfResubmission == TypeOK /\ Resubmit => TypeOK'
<1> SUFFICES ASSUME TypeOK, Resubmit PROVE TypeOK'
    OBVIOUS
<1>1. payload' \in PayloadType
  <2>1. /\ asset.address \in Optional(Texts) /\ asset.symbol \in Optional(Texts)
        /\ asset.name \in Optional(Texts) /\ asset.decimals \in Optional(Nat)
    <3>1. Addresses \subseteq Texts
        BY TextAssumption
    <3> QED BY <3>1 DEF TypeOK, AssetType, Optional
  <2>2. chain \in Optional(Int)
      BY NoneIsNoChain DEF TypeOK, Optional
  <2>3. amount.raw \in Optional(Nat)
      BY DEF TypeOK, AmountType, NoAmount, Optional
  <2> DEFINE d == IF asset.decimals = Absent THEN NoCell
                  ELSE [form |-> "int", value |-> asset.decimals]
             m == IF amount.raw = Absent THEN NoCell
                  ELSE [form |-> "digits", human |-> FALSE, value |-> amount.raw]
  <2>4. d \in DecimalCells /\ m \in AmountCells
      BY <2>1, <2>3 DEF DecimalCells, AmountCells, Optional
  <2>5. NoCell \in ChainCells /\ NoCell \in TimeCells
      BY DEF ChainCells, TimeCells
  <2>6. payload' = [payload EXCEPT
          !.address = asset.address, !.symbol = asset.symbol, !.name = asset.name,
          !.chainId = chain, !.chain = NoCell, !.decimals = d, !.amount = m, !.time = NoCell]
      BY DEF Resubmit, AsPayload
  <2> HIDE DEF d, m
  <2> QED BY <2>1, <2>2, <2>4, <2>5, <2>6 DEF TypeOK, PayloadType
<1>2. earlier' \in [chain : Optional(ChainIds), asset : AssetType, amount : AmountType,
                    stamp : Optional(Int)]
    BY DEF Resubmit, Result, TypeOK
<1>3. /\ NoAsset \in AssetType /\ NoAmount \in AmountType /\ Absent \in Optional(ChainIds)
      /\ Absent \in Optional(Int)
    BY DEF NoAsset, AssetType, AmountType, Optional
<1> QED BY <1>1, <1>2, <1>3 DEF Resubmit, TypeOK, ReportType, NoReport, Optional

LEMMA TypeStep == TypeOK /\ [Next]_vars => TypeOK'
<1>1. TypeOK /\ UNCHANGED vars => TypeOK'
    BY DEF TypeOK, vars
<1>2. TypeOK /\ Raise => TypeOK'
    BY Raising DEF TypeOK
<1> QED
  BY <1>1, <1>2, TypeOfChain, TypeOfAddress, TypeOfTicker, TypeOfAmount, TypeOfTime,
     TypeOfResubmission DEF Next, Stages, Raise

(* For any registry, payload, model and node: amounts are never negative,  *)
(* raw and human amount are there together or not at all, and everything   *)
(* reported is of the kind the schema names (pipeline.py:157-175).         *)
THEOREM TypeCorrect == Spec => []TypeOK
BY TypeInit, TypeStep, PTL DEF Spec

(***************************************************************************)
(* What was inferred                                                       *)
(***************************************************************************)

(* Every entry of the report is made by one stage, and says of the result  *)
(* from then on what no later stage undoes.                                *)
Asking == phase \in {"asset", "pick", "read"}
Converted == phase \in {"time", "validate", "done"}
Reported ==
  /\ phase = "chain" => report.inferred = {} /\ amount = NoAmount
  /\ Asking \/ phase = "amount" \/ Converted =>
       /\ ChainStated => chain # Absent
       /\ "chainId" \in report.inferred <=> chain # Absent /\ ~ChainStated
       /\ "decimals" \in report.inferred =>
            ~Asking /\ asset.decimals # Absent /\ StatedDecimals = Absent
       /\ ~Converted => amount = NoAmount /\ "amount_raw" \notin report.inferred
       /\ Converted => ("amount_raw" \in report.inferred <=> amount # NoAmount /\ StatedRaw = {})
       /\ "timestamp_utc" \in report.inferred =>
            phase \in {"validate", "done"} /\ stamp # Absent

LEMMA SameStatements ==
  ASSUME payload' = payload
  PROVE  /\ ChainStated' = ChainStated /\ StatedDecimals' = StatedDecimals
         /\ StatedRaw' = StatedRaw /\ StatedHuman' = StatedHuman
BY DEF ChainStated, StatedIds, StatedNames, StatedDecimals, StatedRaw, StatedHuman

LEMMA ReportedInit == Init => Reported
BY DEF Init, Reported, NoReport, Asking, Converted

LEMMA ReportedFailure == phase' \in {"failed", "raised"} => Reported'
BY DEF Reported, Asking, Converted

LEMMA ReportedChain == TypeOK /\ Inv /\ Reported /\ ResolveChain => Reported'
<1> SUFFICES ASSUME TypeOK, Inv, Reported, ResolveChain, phase' = "asset" PROVE Reported'
    BY ReportedFailure DEF ResolveChain, Fail
<1>1. /\ chain = Absent /\ amount' = NoAmount /\ UNCHANGED payload
      /\ Meant = {} => ~ChainStated
    BY DEF ResolveChain, Inv, Chained, Reported, Fail
<1>2. /\ report' = [report EXCEPT !.inferred = IF FromHint THEN {"chainId"} ELSE {}]
      /\ report \in ReportType
    BY DEF ResolveChain, TypeOK
<1>3. report'.inferred = IF FromHint THEN {"chainId"} ELSE {}
    BY <1>2 DEF ReportType
<1>4. chain' # Absent <=> Meant # {}
    BY <1>1, StatedTypes, NoneIsNoChain DEF ResolveChain, TypeOK
<1> QED BY <1>1, <1>3, <1>4, SameStatements DEF Reported, Asking, Converted, FromHint

(* The stages that settle the asset and keep the chain. *)
LEMMA ReportedAsset ==
  TypeOK /\ Reported /\ (KnownAddress \/ UnknownAddress \/ ReadDecimals \/ AmbiguousTicker
                         \/ NothingToResolve) /\ Inv => Reported'
<1> SUFFICES ASSUME TypeOK, Reported, Inv, KnownAddress \/ UnknownAddress \/ ReadDecimals
                      \/ AmbiguousTicker \/ NothingToResolve
             PROVE  Reported'
    OBVIOUS
<1>1. /\ Asking /\ phase' \in {"read", "pick", "amount"}
      /\ UNCHANGED <<payload, chain, amount, stamp>>
    BY DEF KnownAddress, UnknownAddress, ReadDecimals, AmbiguousTicker, NothingToResolve,
           ByAddress, ByTicker, Asking
<1>2. report \in ReportType
    BY DEF TypeOK
<1>3. CASE KnownAddress \/ UnknownAddress \/ AmbiguousTicker \/ NothingToResolve
  <2>1. report'.inferred = report.inferred
      BY <1>2, <1>3
         DEF KnownAddress, UnknownAddress, AmbiguousTicker, NothingToResolve, ReportType
  <2> QED BY <1>1, <2>1, SameStatements DEF Reported, Asking, Converted
<1>4. CASE ReadDecimals
  <2>1. phase = "read" /\ phase' = "amount" /\ StatedDecimals = Absent
      BY <1>4 DEF ReadDecimals, Inv, Reading
  <2>2. CASE answer' = Absent
    <3>1. report' = report
        BY <1>4, <2>2 DEF ReadDecimals
    <3> QED BY <1>1, <3>1, SameStatements DEF Reported, Asking, Converted
  <2>3. CASE answer' # Absent
    <3>1. asset.decimals = Absent /\ asset' = [asset EXCEPT !.decimals = answer']
          /\ report' = [report EXCEPT !.by = "onchain",
                                      !.inferred = report.inferred \cup {"decimals"}]
        BY <1>4, <2>3 DEF ReadDecimals, Inv, Reading
    <3>2. asset'.decimals # Absent
        BY <2>3, <3>1 DEF Inv, Shape
    <3>3. report'.inferred = report.inferred \cup {"decimals"}
        BY <1>2, <3>1 DEF ReportType
    <3> QED
        BY <1>1, <2>1, <3>2, <3>3, SameStatements DEF Reported, Asking, Converted
  <2> QED BY <2>2, <2>3
<1> QED BY <1>3, <1>4

LEMMA ReportedAdoption ==
  ASSUME TypeOK, Reported, Asking, NEW t \in Candidates(chain), NEW by, Adopt(t, by),
         UNCHANGED <<payload, amount, stamp>>
  PROVE  Reported'
<1>1. chain' = t.chainId /\ chain' # Absent /\ chain \in {t.chainId, Absent}
      /\ phase' = "amount"
    BY CandidateKinds DEF Adopt
<1>2. /\ report' = [report EXCEPT !.by = by, !.inferred = report.inferred
                       \cup IF chain = Absent THEN {"chainId"} ELSE {}]
      /\ report \in ReportType
    BY DEF Adopt, TypeOK
<1>3. report'.inferred = report.inferred \cup IF chain = Absent THEN {"chainId"} ELSE {}
    BY <1>2 DEF ReportType
<1> QED BY <1>1, <1>3, SameStatements DEF Reported, Asking, Converted

LEMMA ReportedTicker ==
  TypeOK /\ Reported /\ (UniqueTicker \/ PickCandidate) => Reported'
BY ReportedAdoption DEF UniqueTicker, PickCandidate, ByTicker, Asking

(* An amount is either raw or human. *)
LEMMA OneAmount == StatedRaw = {} \/ StatedHuman = {}
BY DEF StatedRaw, StatedHuman

LEMMA ReportedAmount == TypeOK /\ TypeOK' /\ Reported /\ ConvertAmount => Reported'
<1> SUFFICES ASSUME TypeOK, TypeOK', Reported, ConvertAmount PROVE Reported'
    OBVIOUS
<1> DEFINE converted == RawsOfHuman(asset.decimals)
<1>1. /\ phase = "amount" /\ phase' = "time" /\ UNCHANGED <<payload, chain, asset, stamp>>
      /\ amount = NoAmount /\ report \in ReportType
    BY DEF ConvertAmount, Reported, TypeOK, Asking, Converted
<1>2. /\ IF StatedRaw \cup converted = {} THEN amount' = amount
         ELSE \E raw \in StatedRaw \cup converted :
                amount' = [raw |-> raw, human |-> HumanOf(raw, asset.decimals)]
      /\ report' = [report EXCEPT !.inferred =
                      report.inferred \cup IF converted # {} THEN {"amount_raw"} ELSE {}]
    BY DEF ConvertAmount
<1>3. StatedRaw = {} \/ converted = {}
    BY OneAmount DEF RawsOfHuman
<1> HIDE DEF converted
<1>4. report'.inferred = report.inferred \cup IF converted # {} THEN {"amount_raw"} ELSE {}
    BY <1>1, <1>2 DEF ReportType
<1>5. amount' # NoAmount <=> StatedRaw \cup converted # {}
  <2>1. CASE StatedRaw \cup converted = {}
      BY <1>1, <1>2, <2>1
  <2>2. CASE StatedRaw \cup converted # {}
    <3>1. PICK raw \in StatedRaw \cup converted :
            amount' = [raw |-> raw, human |-> HumanOf(raw, asset.decimals)]
        BY <1>2, <2>2
    <3>2. raw \in Int
      <4>1. CASE StatedRaw # {}
          BY <1>3, <4>1, StatedTypes DEF TypeOK
      <4>2. CASE converted # {}
        <5>1. StatedHuman # {} /\ NeedDecimals
            BY <4>2 DEF converted, NeedDecimals, RawsOfHuman
        <5>2. asset.decimals \in Nat
            BY <5>1 DEF ConvertAmount, TypeOK, AssetType, Optional
        <5>3. converted \subseteq Nat
            BY <5>2, RawsType DEF converted, TypeOK
        <5>4. raw \in Nat
            BY <1>3, <4>2, <5>3
        <5> QED BY <5>4
      <4> QED BY <4>1, <4>2
    <3> QED BY <2>2, <3>1, <3>2, TextAssumption DEF NoAmount
  <2> QED BY <2>1, <2>2
<1>6. "amount_raw" \in report'.inferred <=> amount' # NoAmount /\ StatedRaw = {}
    BY <1>1, <1>3, <1>4, <1>5 DEF Reported, Asking, Converted
<1> QED BY <1>1, <1>4, <1>6, SameStatements DEF Reported, Asking, Converted

LEMMA ReportedTime == TypeOK /\ TypeOK' /\ Reported /\ NormTimestamp => Reported'
<1> SUFFICES ASSUME TypeOK, TypeOK', Reported, NormTimestamp PROVE Reported'
    OBVIOUS
<1> DEFINE c == payload.time
           guessed == c.form = "naive" \/ (c.form = "number" /\ InMillis(c.value))
<1>1. /\ phase = "time" /\ phase' = "validate" /\ UNCHANGED <<payload, chain, asset, amount>>
      /\ report \in ReportType /\ c \in TimeCells
    BY DEF NormTimestamp, TypeOK, PayloadType
<1>2. report'.inferred = report.inferred \cup IF guessed THEN {"timestamp_utc"} ELSE {}
    BY <1>1 DEF NormTimestamp, ReportType
<1>3. guessed => stamp' # Absent
  <2>1. CASE c.form = "naive"
    <3>1. stamp' = c.value /\ c.value \in Int
        BY <1>1, <2>1 DEF NormTimestamp, TimeCells, NoCell
    <3> QED BY <3>1, TextAssumption
  <2>2. CASE c.form = "number" /\ InMillis(c.value)
    <3>1. c.value \in Int /\ ~InSeconds(c.value)
        BY <1>1, <2>2, NumbersAssumption DEF TimeCells, NoCell, InMillis, InSeconds
    <3>2. stamp' = c.value \div PerSecond
        BY <2>2, <3>1 DEF NormTimestamp
    <3>3. stamp' \in Int
        BY <3>1, <3>2, NumbersAssumption
    <3> QED BY <3>3, TextAssumption
  <2> QED BY <2>1, <2>2
<1> HIDE DEF guessed
<1> QED BY <1>1, <1>2, <1>3, SameStatements DEF Reported, Asking, Converted

LEMMA ReportedStep == TypeOK /\ TypeOK' /\ Inv /\ Reported /\ [Next]_vars => Reported'
<1> SUFFICES ASSUME TypeOK, TypeOK', Inv, Reported, [Next]_vars PROVE Reported'
    OBVIOUS
<1>1. ResolveChain => Reported'
    BY ReportedChain
<1>2. KnownAddress \/ UnknownAddress \/ ReadDecimals \/ AmbiguousTicker
        \/ NothingToResolve => Reported'
    BY ReportedAsset
<1>3. UniqueTicker \/ PickCandidate => Reported'
    BY ReportedTicker
<1>4. ConvertAmount => Reported'
    BY ReportedAmount
<1>5. NormTimestamp => Reported'
    BY ReportedTime
<1>6. RefuseAddress \/ RefuseTicker \/ NoCandidatePicked \/ RefuseAmount \/ RefuseTimestamp
        \/ Raise => Reported'
    BY ReportedFailure, Raising
       DEF RefuseAddress, RefuseTicker, NoCandidatePicked, RefuseAmount, RefuseTimestamp, Fail
<1>7. Validate => Reported'
    BY ReportedFailure, SameStatements DEF Validate, Fail, Reported, Asking, Converted
<1>8. Resubmit => Reported'
    BY DEF Resubmit, Reported, NoReport, Asking, Converted
<1>9. UNCHANGED vars => Reported'
    BY SameStatements DEF vars, Reported, Asking, Converted
<1> QED BY <1>1, <1>2, <1>3, <1>4, <1>5, <1>6, <1>7, <1>8, <1>9 DEF Next, Stages, Raise

LEMMA ReportedHolds == Spec => []Reported
BY ReportedInit, ReportedStep, TypeCorrect, InvHolds, PTL DEF Spec

(* For any registry and payload: a chain id or raw amount in the result is *)
(* listed as inferred exactly if the caller did not state one.  Decimals   *)
(* listed as inferred are in the result and were not stated, a timestamp   *)
(* listed is in the result; that every such one is listed is not claimed,  *)
(* and what comes from the registry is not                                 *)
(* (pipeline.py:62, 85, 103, 136, 140, 172, 181).                          *)
THEOREM InferencesHold == Spec => []InferencesReported
<1>1. Reported => InferencesReported
    BY DEF Reported, InferencesReported, Asking, Converted
<1> QED BY <1>1, ReportedHolds, PTL

(***************************************************************************)
(* Amounts                                                                 *)
(***************************************************************************)

(* A raw amount that is not rounded has one human amount. *)
LEMMA HumanExact ==
  ASSUME NEW raw \in Nat, NEW d \in Nat, d <= Places, Rounded(raw, Precision) = raw
  PROVE  LET human == HumanOf(raw, d)
         IN  human.k <= d /\ human.n * Pow10[d - human.k] = raw
<1>1. PICK z \in 0..d : /\ Trimmed(raw, d) = [n |-> raw \div Pow10[z], k |-> d - z]
                        /\ raw % Pow10[z] = 0
    BY TrimmedPlaces
<1>2. PICK u \in Nat \ {0} : u = Pow10[z]
    BY <1>1, PowersOfTen
<1>3. HumanOf(raw, d) = [n |-> raw \div u, k |-> d - z]
    BY <1>1, <1>2, HumanForm
<1>4. (raw \div u) * u = raw
    BY <1>1, <1>2, Divides
<1>5. d - z <= d /\ d - (d - z) = z
    OBVIOUS
<1> QED BY <1>2, <1>3, <1>4, <1>5

LEMMA PlacesShift == \A d \in Nat : d <= Places => d <= ShiftLimit
BY NumbersAssumption DEF Places, ShiftLimit

LEMMA RawExact ==
  ASSUME NEW h \in [n : Int, k : Nat], NEW d \in Nat, d <= Places, h.n < Pow10[Precision],
         NEW raw \in RawOf(h, d)
  PROVE  /\ raw \in Nat /\ Rounded(raw, Precision) = raw
         /\ raw * Pow10[h.k] = h.n * Pow10[d]
<1>1. PICK n \in Nat, k \in Nat : n = h.n /\ k = h.k /\ n < Pow10[Precision]
  <2>1. h.n \in Nat /\ h.k \in Nat
      BY NoRawIfNegative
  <2> QED BY <2>1
<1>2. Rounded(n, Precision) = n
    BY <1>1, RoundedFits, NumbersAssumption
<1>3. CASE k <= d
  <2>1. PICK j \in Nat : j = d - k /\ d = j + k
      BY <1>3
  <2>2. PICK u, v, w \in Nat : u = Pow10[j] /\ v = Pow10[k] /\ w = Pow10[d] /\ w = u * v
    <3>1. Pow10[j] \in Nat /\ Pow10[k] \in Nat /\ Pow10[d] \in Nat
        BY PowersOfTen
    <3>2. Pow10[d] = Pow10[j] * Pow10[k]
        BY <2>1, PowersAdd
    <3> QED BY <3>1, <3>2
  <2>3. raw = n * u
    <3>1. RawOf(h, d) = {n * u}
        BY <1>1, <1>2, <1>3, <2>1, <2>2, RawOfWhole, PlacesShift
    <3> QED BY <3>1
  <2>4. Rounded(raw, Precision) = raw
      BY <1>1, <2>2, <2>3, RoundedMultiple, NumbersAssumption
  <2>5. n * u \in Nat /\ (n * u) * v = n * (u * v)
      OBVIOUS
  <2> QED BY <1>1, <2>2, <2>3, <2>4, <2>5
<1>4. CASE k > d
  <2>1. PICK j \in Nat : j = k - d /\ k = j + d
      BY <1>4
  <2>2. PICK u \in Nat \ {0}, v, w \in Nat :
          u = Pow10[j] /\ v = Pow10[d] /\ w = Pow10[k] /\ w = u * v
    <3>1. Pow10[j] \in Nat \ {0} /\ Pow10[d] \in Nat /\ Pow10[k] \in Nat
      <4>1. \A i \in Nat : Pow10[i] \in Nat /\ Pow10[i] > 0
          BY PowersOfTen
      <4> QED BY <4>1
    <3>2. Pow10[k] = Pow10[j] * Pow10[d]
        BY <2>1, PowersAdd
    <3> QED BY <3>1, <3>2
  <2>3. raw = n \div u /\ raw * u = n
    <3>1. Rounded(h.n, Precision) = n /\ h.n >= 0 /\ h.k > d /\ Pow10[h.k - d] = u
        BY <1>1, <1>2, <1>4, <2>1, <2>2
    <3> QED BY <3>1, RawOfFraction, PlacesShift
  <2>4. raw \in Nat /\ raw <= n
      BY <2>2, <2>3, Divides
  <2>5. Rounded(raw, Precision) = raw
    <3>1. PICK p \in Nat : p = Pow10[Precision]
        BY PowersOfTen, NumbersAssumption
    <3>2. raw < p
        BY <1>1, <2>4, <3>1
    <3> QED BY <2>4, <3>1, <3>2, RoundedFits, NumbersAssumption
  <2>6. raw * (u * v) = (raw * u) * v
      BY <2>4
  <2> QED BY <1>1, <2>2, <2>3, <2>4, <2>5, <2>6
<1> QED BY <1>3, <1>4

(* No raw amount means no whole number of units. *)
LEMMA NoRawExact ==
  ASSUME NEW h \in [n : Int, k : Nat], NEW d \in Nat, d <= Places, h.n < Pow10[Precision],
         RawOf(h, d) = {}
  PROVE  h.n < 0 \/ (h.n * Pow10[d]) % Pow10[h.k] # 0
<1> SUFFICES ASSUME ~(h.n < 0), (h.n * Pow10[d]) % Pow10[h.k] = 0 PROVE FALSE
    OBVIOUS
<1>1. PICK n \in Nat, k \in Nat : n = h.n /\ k = h.k /\ n < Pow10[Precision]
    OBVIOUS
<1>2. Rounded(n, Precision) = n
    BY <1>1, RoundedFits, NumbersAssumption
<1>3. k > d
  <2> SUFFICES ASSUME k <= d PROVE FALSE
      BY <1>1
  <2>1. RawOf(h, d) = {n * Pow10[d - k]}
      BY <1>1, <1>2, RawOfWhole, PlacesShift
  <2> QED BY <2>1
<1>4. PICK j \in Nat : j = k - d /\ k = j + d
    BY <1>3
<1>5. PICK u, v, w \in Nat \ {0} :
        u = Pow10[j] /\ v = Pow10[d] /\ w = Pow10[k] /\ w = u * v
  <2>1. Pow10[j] \in Nat \ {0} /\ Pow10[d] \in Nat \ {0} /\ Pow10[k] \in Nat \ {0}
    <3>1. \A i \in Nat : Pow10[i] \in Nat /\ Pow10[i] > 0
        BY PowersOfTen
    <3> QED BY <3>1
  <2>2. Pow10[k] = Pow10[j] * Pow10[d]
      BY <1>4, PowersAdd
  <2> QED BY <2>1, <2>2
<1>6. PICK q \in Nat : q * w = n * v
  <2>1. n * v \in Nat /\ (n * v) % w = 0
      BY <1>1, <1>5
  <2> QED BY <1>5, <2>1, Divides
<1>7. n = q * u
  <2>1. (q * u - n) * v = 0
      BY <1>5, <1>6
  <2>2. q * u - n \in Int
      OBVIOUS
  <2>3. \A x \in Int : x # 0 => x * v # 0
      BY <1>5
  <2>4. q * u - n = 0
      BY <2>1, <2>2, <2>3
  <2>5. q * u \in Int
      OBVIOUS
  <2> QED BY <2>4, <2>5
<1>8. n \div u = q
    BY <1>5, <1>7, Divides
<1>9. q \in RawOf(h, d)
  <2>1. Rounded(h.n, Precision) = n /\ h.n >= 0 /\ h.k > d /\ Pow10[h.k - d] = u
      BY <1>1, <1>2, <1>3, <1>4, <1>5
  <2>2. \A x : x \in RawOf(h, d) <=> x = n \div u /\ x * u = n
      BY <1>5, <2>1, RawOfFraction, PlacesShift
  <2> QED BY <1>7, <1>8, <2>2
<1> QED BY <1>9

(* The amounts of a result are one amount. *)
Within ==
  \A n \in StatedRaw \cup {h.n : h \in StatedHuman} :
    n < Pow10[Precision] /\ asset.decimals <= Places
OneValue ==
  /\ amount # NoAmount =>
       /\ amount.human.k <= asset.decimals
       /\ amount.human.n * Pow10[asset.decimals - amount.human.k] = amount.raw
       /\ StatedRaw \subseteq {amount.raw}
       /\ \A h \in StatedHuman : amount.raw * Pow10[h.k] = h.n * Pow10[asset.decimals]
  /\ amount = NoAmount =>
       /\ StatedRaw = {}
       /\ \A h \in StatedHuman : h.n < 0 \/ (h.n * Pow10[asset.decimals]) % Pow10[h.k] # 0
Exact == Converted /\ Within => OneValue

LEMMA ConvertsExactly ==
  ASSUME TypeOK, Reported, Within, ConvertAmount
  PROVE  OneValue'
<1> DEFINE d == asset.decimals
           converted == RawsOfHuman(d)
<1>1. /\ UNCHANGED <<payload, asset>> /\ amount = NoAmount
      /\ IF StatedRaw \cup converted = {} THEN amount' = amount
         ELSE \E raw \in StatedRaw \cup converted :
                amount' = [raw |-> raw, human |-> HumanOf(raw, d)]
    BY DEF ConvertAmount, Reported, Asking, Converted
<1>2. /\ StatedRaw' = StatedRaw /\ StatedHuman' = StatedHuman
    BY <1>1, SameStatements
<1>3. /\ \A x, y \in StatedRaw : x = y
      /\ \A x, y \in StatedHuman : x = y
    BY DEF StatedRaw, StatedHuman
<1>4. StatedRaw \subseteq Int /\ StatedHuman \subseteq [n : Int, k : Nat]
    BY StatedTypes DEF TypeOK
<1>5. StatedRaw \cup StatedHuman # {} => d \in Nat
    BY DEF ConvertAmount, NeedDecimals, TypeOK, AssetType, Optional
<1>6. CASE StatedRaw # {}
  <2>1. PICK raw : raw \in StatedRaw /\ amount' = [raw |-> raw, human |-> HumanOf(raw, d)]
    <3>1. converted = {}
        BY <1>6, OneAmount DEF RawsOfHuman
    <3> QED BY <1>1, <1>6, <3>1
  <2>2. raw \in Nat /\ raw < Pow10[Precision] /\ d \in Nat /\ d <= Places
      BY <1>4, <1>5, <2>1 DEF ConvertAmount, NeedDecimals, Unconvertible, Unshowable, Within
  <2>3. Rounded(raw, Precision) = raw
      BY <2>2, RoundedFits, NumbersAssumption
  <2>4. /\ HumanOf(raw, d).k <= d
        /\ HumanOf(raw, d).n * Pow10[d - HumanOf(raw, d).k] = raw
      BY <2>2, <2>3, HumanExact
  <2>5. StatedRaw \subseteq {raw} /\ StatedHuman = {}
      BY <1>3, <1>6, <2>1, OneAmount
  <2>6. amount'.raw = raw /\ amount'.human = HumanOf(raw, d) /\ amount' # NoAmount
      BY <2>1, <2>2, TextAssumption DEF NoAmount
  <2> QED BY <1>1, <1>2, <2>4, <2>5, <2>6 DEF OneValue
<1>7. CASE StatedRaw = {} /\ StatedHuman # {}
  <2>1. PICK h : h \in StatedHuman
      BY <1>7
  <2>2. h \in [n : Int, k : Nat] /\ d \in Nat /\ h.n < Pow10[Precision] /\ d <= Places
      BY <1>4, <1>5, <2>1 DEF Within
  <2>3. StatedHuman = {h} /\ converted = RawOf(h, d)
    <3>1. StatedHuman = {h}
        BY <1>3, <2>1
    <3>2. \A x : x \in converted <=> \E g \in StatedHuman : x \in RawOf(g, d)
        BY DEF RawsOfHuman
    <3> HIDE DEF converted
    <3>3. \A x : x \in converted <=> x \in RawOf(h, d)
        BY <3>1, <3>2
    <3> QED BY <3>1, <3>3
  <2> HIDE DEF converted
  <2>4. CASE converted = {}
    <3>1. amount' = NoAmount
        BY <1>1, <1>7, <2>4
    <3>2. h.n < 0 \/ (h.n * Pow10[d]) % Pow10[h.k] # 0
        BY <2>2, <2>3, <2>4, NoRawExact
    <3> QED BY <1>1, <1>2, <1>7, <2>3, <3>1, <3>2 DEF OneValue
  <2>5. CASE converted # {}
    <3>1. PICK raw \in RawOf(h, d) : amount' = [raw |-> raw, human |-> HumanOf(raw, d)]
        BY <1>1, <1>7, <2>3, <2>5
    <3>2. /\ raw \in Nat /\ Rounded(raw, Precision) = raw
          /\ raw * Pow10[h.k] = h.n * Pow10[d]
        BY <2>2, RawExact
    <3>3. /\ HumanOf(raw, d).k <= d
          /\ HumanOf(raw, d).n * Pow10[d - HumanOf(raw, d).k] = raw
        BY <2>2, <3>2, HumanExact
    <3>4. amount'.raw = raw /\ amount'.human = HumanOf(raw, d) /\ amount' # NoAmount
        BY <3>1, <3>2, TextAssumption DEF NoAmount
    <3> QED BY <1>1, <1>2, <1>7, <2>3, <3>2, <3>3, <3>4 DEF OneValue
  <2> QED BY <2>4, <2>5
<1>8. CASE StatedRaw = {} /\ StatedHuman = {}
  <2>1. amount' = NoAmount
      BY <1>1, <1>8 DEF RawsOfHuman
  <2> QED BY <1>2, <1>8, <2>1 DEF OneValue
<1> QED BY <1>6, <1>7, <1>8

LEMMA ExactStep == TypeOK /\ Reported /\ Exact /\ [Next]_vars => Exact'
<1> SUFFICES ASSUME TypeOK, Reported, Exact, [Next]_vars, Converted', Within' PROVE OneValue'
    BY DEF Exact
<1>1. CASE ConvertAmount
  <2>1. Within
      BY <1>1, SameStatements DEF ConvertAmount, Within
  <2> QED BY <1>1, <2>1, ConvertsExactly
<1>2. CASE NormTimestamp \/ Validate \/ UNCHANGED vars
  <2>1. Converted /\ UNCHANGED <<payload, asset, amount>>
      BY <1>2 DEF NormTimestamp, Validate, Fail, vars, Converted
  <2>2. StatedRaw' = StatedRaw /\ StatedHuman' = StatedHuman
      BY <2>1, SameStatements
  <2> QED BY <2>1, <2>2 DEF Exact, Within, OneValue
<1>3. CASE Next /\ ~(ConvertAmount \/ NormTimestamp \/ Validate)
    BY <1>3, Raising
       DEF Next, Stages, ResolveChain, RefuseAddress, KnownAddress, UnknownAddress,
           ReadDecimals, RefuseTicker, UniqueTicker, AmbiguousTicker, PickCandidate,
           NoCandidatePicked, NothingToResolve, RefuseAmount, RefuseTimestamp, Resubmit,
           Adopt, Fail, Converted, Raise
<1> QED BY <1>1, <1>2, <1>3

LEMMA ExactHolds == Spec => []Exact
<1>1. Init => Exact
    BY DEF Init, Exact, Converted
<1> QED BY <1>1, ExactStep, TypeCorrect, ReportedHolds, PTL DEF Spec

(* For any payload whose amount has no more digits than the decimal        *)
(* context, of a token whose decimals do not reach below its smallest      *)
(* number: the raw and the human amount reported are the caller's amount, *)
(* and none is reported only if it is no whole number of units             *)
(* (resolve.py:142-165).                                                   *)
THEOREM AmountsHold == Spec => []AmountsExactWithinPrecision
<1>1. Exact => AmountsExactWithinPrecision
    BY DEF Exact, Within, OneValue, Converted, AmountsExactWithinPrecision, AmountsExact
<1> QED BY <1>1, ExactHolds, PTL

(***************************************************************************)
(* A result submitted again                                                *)
(***************************************************************************)

(* The four forms of an asset in a result: a contract of the registry, any *)
(* other contract, a native asset, or none.                                *)
Listed(c, a) ==
  \E t \in TokensByAddress(c, a.address) :
    /\ a.symbol = t.symbol /\ a.name = t.name /\ a.decimals = t.decimals
    /\ a.native = FALSE /\ a.wrapped = WrappedOf(c, t.address)
Unlisted(c, a) ==
  /\ a.address \in Addresses /\ TokensByAddress(c, a.address) = {}
  /\ a.native = FALSE /\ a.wrapped = Absent
NativeOf(c, a) ==
  \E d \in Chains :
    /\ c = d.id /\ a.address = Absent
    /\ a.symbol = d.native /\ a.name = d.name /\ a.decimals = d.decimals
    /\ a.native = TRUE /\ a.wrapped = WrappedOf(c, Absent)
Unnamed(a) ==
  /\ a.address = Absent /\ a.symbol = Absent /\ a.native = Absent /\ a.wrapped = Absent
  /\ a.name \notin DOMAIN Checksum
Formed(c, a) == Listed(c, a) \/ Unlisted(c, a) \/ NativeOf(c, a) \/ Unnamed(a)

Accepted(p, a) ==
  CASE p.schema = "default" -> a.decimals \in 0..MaxDecimals \cup {Absent}
    [] p.schema = "accepting" -> TRUE
    [] OTHER -> FALSE
Shown(m, a) ==
  m # NoAmount => /\ a.decimals # Absent /\ m.human = HumanOf(m.raw, a.decimals)
                  /\ ~Unshowable(m.raw, a.decimals)

(* What a call has made of its payload so far. *)
Canonical ==
  /\ Asking \/ Resolved => (chain = Absent => payload.hint = Absent)
  /\ phase = "read" => Unlisted(chain, asset)
  /\ Resolved => Formed(chain, asset) /\ Shown(amount, asset)
  /\ phase = "done" => Accepted(payload, asset)

(* The result the payload is made of, and what the payload says of it. *)
Remembered ==
  earlier # Absent =>
    /\ Formed(earlier.chain, earlier.asset) /\ Shown(earlier.amount, earlier.asset)
    /\ Accepted(payload, earlier.asset)
    /\ earlier.chain = Absent => payload.hint = Absent
    /\ payload.address = earlier.asset.address /\ payload.symbol = earlier.asset.symbol
    /\ payload.name = earlier.asset.name
    /\ payload.chainId = earlier.chain /\ payload.chain = NoCell /\ payload.time = NoCell
    /\ payload.decimals = IF earlier.asset.decimals = Absent THEN NoCell
                          ELSE [form |-> "int", value |-> earlier.asset.decimals]
    /\ payload.amount = IF earlier.amount.raw = Absent THEN NoCell
                        ELSE [form |-> "digits", human |-> FALSE, value |-> earlier.amount.raw]

Excepted ==
  \/ earlier = Absent
  \/ payload.prefer = "onchain" /\ earlier.asset.decimals = Absent
  \/ earlier.asset.decimals \notin 0..MaxDecimals \cup {Absent}

(* The second call repeats the first, stage by stage. *)
Repeats ==
  ~Excepted =>
    /\ phase \notin {"read", "pick", "failed", "raised"}
    /\ phase # "chain" => chain = earlier.chain
    /\ Resolved => asset = earlier.asset
    /\ Converted => amount = earlier.amount
    /\ stamp = Absent

LEMMA SameAsset ==
  ASSUME NEW a \in AssetType, NEW b \in AssetType,
         a.address = b.address, a.symbol = b.symbol, a.name = b.name,
         a.decimals = b.decimals, a.native = b.native, a.wrapped = b.wrapped
  PROVE  a = b
BY DEF AssetType

LEMMA SameStage ==
  ASSUME UNCHANGED <<payload, chain, asset, amount>>, Canonical,
         Asking' => Asking \/ Resolved, Resolved' => Resolved, phase' = "read" => phase = "read",
         phase' = "done" => Accepted(payload, asset)
  PROVE  Canonical'
BY DEF Canonical, Formed, Listed, Unlisted, NativeOf, Unnamed, Shown, Accepted, Asking, Resolved

LEMMA CanonicalInit == Init => Canonical
BY DEF Init, Canonical, Asking, Resolved

LEMMA CanonicalFailure == phase' \in {"failed", "raised"} => Canonical'
BY DEF Canonical, Asking, Resolved

LEMMA CanonicalChain == ResolveChain => Canonical'
<1> SUFFICES ASSUME ResolveChain, phase' = "asset" PROVE Canonical'
    BY CanonicalFailure DEF ResolveChain, Fail
<1>1. Meant = {} => Hinted = {}
    BY DEF ResolveChain, Fail
<1>2. chain' = Absent => Meant = {}
    BY NoneIsNoChain, SnapshotAssumption DEF ResolveChain, Meant
<1>3. chain' = Absent => payload'.hint = Absent
    BY <1>1, <1>2 DEF Hinted, ResolveChain
<1> QED BY <1>3 DEF Canonical, Asking, Resolved

LEMMA CanonicalAddress ==
  TypeOK /\ Inv /\ Reported /\ Canonical /\ (KnownAddress \/ UnknownAddress) => Canonical'
<1> SUFFICES ASSUME TypeOK, Inv, Reported, Canonical, KnownAddress \/ UnknownAddress
             PROVE  Canonical'
    OBVIOUS
<1>1. /\ phase = "asset" /\ phase' \in {"read", "amount"} /\ UNCHANGED <<payload, chain, amount>>
      /\ amount = NoAmount
    BY DEF KnownAddress, UnknownAddress, ByAddress, Reported, Asking, Converted
<1>2. CASE KnownAddress
  <2>1. PICK t \in TokensByAddress(chain, Checksum[AddressText]) : asset' = Registered(t)
      BY <1>2 DEF KnownAddress
  <2>2. t \in TokensByAddress(chain, t.address)
      BY <2>1 DEF TokensByAddress
  <2>3. Listed(chain', asset')
      BY <1>1, <2>1, <2>2 DEF Listed, Registered
  <2>4. phase' = "amount"
      BY <1>2 DEF KnownAddress
  <2> QED BY <1>1, <2>3, <2>4 DEF Canonical, Asking, Resolved, Formed, Shown
<1>3. CASE UnknownAddress
  <2>1. Unlisted(chain', asset')
      BY <1>1, <1>3 DEF UnknownAddress, Unlisted, Addresses
  <2> QED BY <1>1, <2>1 DEF Canonical, Asking, Resolved, Formed, Shown
<1> QED BY <1>2, <1>3

LEMMA CanonicalRead == TypeOK /\ Reported /\ Canonical /\ ReadDecimals => Canonical'
<1> SUFFICES ASSUME TypeOK, Reported, Canonical, ReadDecimals PROVE Canonical'
    OBVIOUS
<1>1. /\ phase = "read" /\ phase' = "amount" /\ UNCHANGED <<payload, chain, amount>>
      /\ amount = NoAmount
    BY DEF ReadDecimals, Reported, Asking, Converted
<1>2. /\ asset'.address = asset.address /\ asset'.native = asset.native
      /\ asset'.wrapped = asset.wrapped
    BY DEF ReadDecimals, TypeOK, AssetType
<1>3. Unlisted(chain', asset')
    BY <1>1, <1>2 DEF Canonical, Unlisted
<1> QED BY <1>1, <1>3 DEF Canonical, Asking, Resolved, Formed, Shown

LEMMA AdoptedForm ==
  ASSUME NEW t \in Candidates(chain), NEW by, Adopt(t, by)
  PROVE  Listed(chain', asset') \/ NativeOf(chain', asset')
<1>1. /\ chain' = t.chainId /\ asset'.address = t.address /\ asset'.symbol = t.symbol
      /\ asset'.name = t.name /\ asset'.decimals = t.decimals
      /\ asset'.wrapped = WrappedOf(t.chainId, t.address)
    BY DEF Adopt
<1>2. asset'.native = (t.address = Absent)
    BY DEF Adopt
<1>3. CASE t \in TokensBySymbol(SymbolText, chain)
  <2>1. t \in TokensByAddress(t.chainId, t.address) /\ t.address # Absent
      BY <1>3, NoneIsNoAddress DEF TokensBySymbol, TokensByAddress
  <2>2. asset'.native = FALSE
      BY <1>2, <2>1
  <2> QED BY <1>1, <2>1, <2>2 DEF Listed
<1>4. CASE t \in NativeCandidates(SymbolText, chain)
  <2>1. PICK c \in Chains :
          t = [chainId |-> c.id, address |-> Absent, symbol |-> c.native,
               name |-> c.name, decimals |-> c.decimals]
      BY <1>4 DEF NativeCandidates
  <2>2. t.address = Absent
      BY <2>1
  <2>3. asset'.native = TRUE
      BY <1>2, <2>2
  <2> QED BY <1>1, <2>1, <2>3 DEF NativeOf
<1> QED BY <1>3, <1>4 DEF Candidates

LEMMA CanonicalTicker ==
  Reported /\ Canonical /\ (UniqueTicker \/ PickCandidate) => Canonical'
<1> SUFFICES ASSUME Reported, Canonical, UniqueTicker \/ PickCandidate PROVE Canonical'
    OBVIOUS
<1>1. PICK t \in Candidates(chain), by \in {"registry", "heuristic"} : Adopt(t, by)
    BY DEF UniqueTicker, PickCandidate
<1>2. phase' = "amount" /\ UNCHANGED <<payload, amount>> /\ amount = NoAmount
      /\ chain' # Absent
    BY <1>1, CandidateKinds
       DEF UniqueTicker, PickCandidate, ByTicker, Reported, Asking, Converted, Adopt
<1>3. Formed(chain', asset')
    BY <1>1, AdoptedForm DEF Formed
<1> QED BY <1>2, <1>3 DEF Canonical, Asking, Resolved, Shown

LEMMA CanonicalNothing ==
  TypeOK /\ Reported /\ Canonical /\ NothingToResolve => Canonical'
<1> SUFFICES ASSUME TypeOK, Reported, Canonical, NothingToResolve PROVE Canonical'
    OBVIOUS
<1>1. /\ phase = "asset" /\ phase' = "amount" /\ UNCHANGED <<payload, chain, amount>>
      /\ amount = NoAmount /\ AddressText = Absent
    BY DEF NothingToResolve, Reported, Asking, Converted
<1>2. /\ asset'.address = Absent /\ asset'.symbol = Absent /\ asset'.native = Absent
      /\ asset'.wrapped = Absent /\ asset'.name = NameText
    BY DEF NothingToResolve, NoAsset
<1>3. Absent \notin DOMAIN Checksum
    BY TextAssumption
<1>4. Hidden = {} /\ payload.address = Absent
    BY <1>1, <1>3 DEF AddressText, Hidden
<1>5. NameText \notin DOMAIN Checksum
    BY <1>4 DEF NameText, Hidden
<1> QED BY <1>1, <1>2, <1>5 DEF Canonical, Asking, Resolved, Formed, Unnamed, Shown

LEMMA CanonicalAmount ==
  TypeOK /\ TypeOK' /\ Reported /\ Canonical /\ ConvertAmount => Canonical'
<1> SUFFICES ASSUME TypeOK, TypeOK', Reported, Canonical, ConvertAmount PROVE Canonical'
    OBVIOUS
<1> DEFINE raws == StatedRaw \cup RawsOfHuman(asset.decimals)
<1>1. /\ phase = "amount" /\ phase' = "time" /\ UNCHANGED <<payload, chain, asset>>
      /\ amount = NoAmount
    BY DEF ConvertAmount, Reported, Asking, Converted
<1>2. raws # {} => /\ asset.decimals # Absent
                   /\ \A raw \in raws : ~Unshowable(raw, asset.decimals)
    BY DEF ConvertAmount, NeedDecimals, Unconvertible, RawsOfHuman
<1>3. Shown(amount', asset)
  <2>1. CASE raws = {}
      BY <1>1, <2>1 DEF ConvertAmount, Shown
  <2>2. CASE raws # {}
    <3>1. PICK raw \in raws :
            amount' = [raw |-> raw, human |-> HumanOf(raw, asset.decimals)]
        BY <2>2 DEF ConvertAmount
    <3> QED BY <1>2, <2>2, <3>1 DEF Shown
  <2> QED BY <2>1, <2>2
<1>4. Formed(chain, asset)
    BY <1>1 DEF Canonical, Resolved
<1>5. Shown(amount', asset') /\ Formed(chain', asset')
    BY <1>1, <1>3, <1>4 DEF Shown, Formed, Listed, Unlisted, NativeOf, Unnamed
<1> QED BY <1>1, <1>5 DEF Canonical, Asking, Resolved

LEMMA CanonicalStep ==
  TypeOK /\ TypeOK' /\ Inv /\ Reported /\ Canonical /\ [Next]_vars => Canonical'
<1> SUFFICES ASSUME TypeOK, TypeOK', Inv, Reported, Canonical, [Next]_vars PROVE Canonical'
    OBVIOUS
<1>1. ResolveChain => Canonical'
    BY CanonicalChain
<1>2. KnownAddress \/ UnknownAddress => Canonical'
    BY CanonicalAddress
<1>3. ReadDecimals => Canonical'
    BY CanonicalRead
<1>4. UniqueTicker \/ PickCandidate => Canonical'
    BY CanonicalTicker
<1>5. NothingToResolve => Canonical'
    BY CanonicalNothing
<1>6. ConvertAmount => Canonical'
    BY CanonicalAmount
<1>7. AmbiguousTicker \/ NormTimestamp \/ UNCHANGED vars => Canonical'
  <2>1. phase = "done" => Accepted(payload, asset)
      BY DEF Canonical
  <2> QED BY <2>1, SameStage
          DEF AmbiguousTicker, ByTicker, NormTimestamp, vars, Asking, Resolved
<1>8. Validate => Canonical'
  <2>1. Conforms => Accepted(payload, asset)
      BY DEF Conforms, Accepted
  <2> QED BY <2>1, SameStage, CanonicalFailure DEF Validate, Fail, Asking, Resolved
<1>9. RefuseAddress \/ RefuseTicker \/ NoCandidatePicked \/ RefuseAmount \/ RefuseTimestamp
        \/ Raise => Canonical'
    BY CanonicalFailure, Raising
       DEF RefuseAddress, RefuseTicker, NoCandidatePicked, RefuseAmount, RefuseTimestamp, Fail
<1>10. Resubmit => Canonical'
    BY DEF Resubmit, Canonical, Asking, Resolved
<1> QED BY <1>1, <1>2, <1>3, <1>4, <1>5, <1>6, <1>7, <1>8, <1>9, <1>10
        DEF Next, Stages, Raise

LEMMA CanonicalHolds == Spec => []Canonical
BY CanonicalInit, CanonicalStep, TypeCorrect, InvHolds, ReportedHolds, PTL DEF Spec

(* Resubmission writes the result down; the stages leave it alone. *)
LEMMA RememberedStep ==
  TypeOK /\ Canonical /\ Remembered /\ [Next]_vars => Remembered'
<1> SUFFICES ASSUME TypeOK, Canonical, Remembered, [Next]_vars PROVE Remembered'
    OBVIOUS
<1>1. CASE Resubmit
  <2>1. /\ Formed(chain, asset) /\ Shown(amount, asset) /\ Accepted(payload, asset)
        /\ chain = Absent => payload.hint = Absent
      BY <1>1 DEF Resubmit, Canonical, Resolved
  <2>2. /\ earlier'.chain = chain /\ earlier'.asset = asset /\ earlier'.amount = amount
      BY <1>1 DEF Resubmit, Result
  <2>3. payload \in PayloadType /\ payload' = AsPayload
      BY <1>1 DEF Resubmit, TypeOK
  <2>4. /\ payload'.schema = payload.schema /\ payload'.hint = payload.hint
        /\ payload'.address = asset.address /\ payload'.symbol = asset.symbol
        /\ payload'.name = asset.name /\ payload'.chainId = chain
        /\ payload'.chain = NoCell /\ payload'.time = NoCell
      BY <2>3 DEF AsPayload, PayloadType
  <2>5. payload'.decimals = IF asset.decimals = Absent THEN NoCell
                            ELSE [form |-> "int", value |-> asset.decimals]
      BY <2>3 DEF AsPayload, PayloadType
  <2>6. payload'.amount = IF amount.raw = Absent THEN NoCell
                          ELSE [form |-> "digits", human |-> FALSE, value |-> amount.raw]
      BY <2>3 DEF AsPayload, PayloadType
  <2>7. /\ Formed(earlier'.chain, earlier'.asset) /\ Shown(earlier'.amount, earlier'.asset)
        /\ Accepted(payload', earlier'.asset)
      BY <2>1, <2>2, <2>4 DEF Accepted
  <2> QED BY <2>1, <2>2, <2>4, <2>5, <2>6, <2>7 DEF Remembered
<1>2. CASE Stages \/ UNCHANGED vars
  <2>1. UNCHANGED <<payload, earlier>>
      BY <1>2, Raising
         DEF Stages, Raise, ResolveChain, RefuseAddress, KnownAddress, UnknownAddress, ReadDecimals,
             RefuseTicker, UniqueTicker, AmbiguousTicker, PickCandidate, NoCandidatePicked,
             NothingToResolve, RefuseAmount, ConvertAmount, NormTimestamp, RefuseTimestamp,
             Validate, vars
  <2> QED BY <2>1
          DEF Remembered, Formed, Listed, Unlisted, NativeOf, Unnamed, Shown, Accepted
<1> QED BY <1>1, <1>2 DEF Next

LEMMA RememberedHolds == Spec => []Remembered
<1>1. Init => Remembered
    BY DEF Init, Remembered
<1> QED BY <1>1, RememberedStep, TypeCorrect, CanonicalHolds, PTL DEF Spec

(* What detection makes of a result. *)
LEMMA Redetected ==
  ASSUME TypeOK, Remembered, ~Excepted
  PROVE  /\ earlier # Absent /\ earlier.asset \in AssetType /\ earlier.amount \in AmountType
         /\ earlier.chain \in Optional(ChainIds)
         /\ StatedDecimals = earlier.asset.decimals
         /\ StatedHuman = {} /\ ~Endless
         /\ StatedRaw = IF earlier.amount = NoAmount THEN {} ELSE {earlier.amount.raw}
         /\ GivenChain = earlier.chain /\ (earlier.chain = Absent => ~ChainStated /\ Hinted = {})
<1>1. /\ earlier # Absent /\ earlier.asset \in AssetType /\ earlier.amount \in AmountType
      /\ earlier.chain \in Optional(ChainIds)
    BY DEF Excepted, TypeOK, Optional
<1>2. StatedDecimals = earlier.asset.decimals
  <2>1. CASE earlier.asset.decimals = Absent
      BY <1>1, <2>1 DEF Remembered, StatedDecimals, NoCell
  <2>2. CASE earlier.asset.decimals # Absent
      BY <1>1, <2>2 DEF Remembered, StatedDecimals, Excepted
  <2> QED BY <2>1, <2>2
<1>3. /\ StatedHuman = {}
      /\ StatedRaw = IF earlier.amount = NoAmount THEN {} ELSE {earlier.amount.raw}
  <2>1. CASE earlier.amount = NoAmount
    <3>1. payload.amount = NoCell
        BY <1>1, <2>1 DEF Remembered, NoAmount
    <3> QED BY <2>1, <3>1 DEF StatedRaw, StatedHuman, NoCell
  <2>2. CASE earlier.amount # NoAmount
    <3>1. earlier.amount.raw \in Nat
        BY <1>1, <2>2 DEF AmountType
    <3>2. earlier.amount.raw # Absent
        BY <3>1, TextAssumption
    <3>3. payload.amount = [form |-> "digits", human |-> FALSE, value |-> earlier.amount.raw]
        BY <1>1, <3>2 DEF Remembered
    <3> QED BY <2>2, <3>3 DEF StatedRaw, StatedHuman
  <2> QED BY <2>1, <2>2
<1>4. GivenChain = earlier.chain /\ (earlier.chain = Absent => ~ChainStated /\ Hinted = {})
  <2>1. StatedNames = {}
      BY <1>1 DEF Remembered, StatedNames, NoCell
  <2>2. CASE earlier.chain = Absent
    <3>1. StatedIds = {} /\ Hinted = {}
        BY <1>1, <2>2 DEF Remembered, StatedIds, Hinted, NoCell
    <3>2. Meant = {}
        BY <2>1, <3>1 DEF Meant
    <3> QED BY <2>1, <2>2, <3>1, <3>2 DEF GivenChain, ChainStated
  <2>3. CASE earlier.chain # Absent
    <3>1. StatedIds = {earlier.chain} /\ earlier.chain \in ChainIds
        BY <1>1, <2>3 DEF Remembered, StatedIds, Optional
    <3>2. Meant = {earlier.chain}
        BY <3>1 DEF Meant
    <3> QED BY <2>3, <3>2 DEF GivenChain
  <2> QED BY <2>2, <2>3
<1>5. ~Endless
    BY <1>1 DEF Remembered, Endless, NoCell
<1> QED BY <1>1, <1>2, <1>3, <1>4, <1>5

(* A contract is looked up again under its own address ... *)
LEMMA ReaddressedText ==
  ASSUME TypeOK, Remembered, ~Excepted, earlier.asset.address # Absent
  PROVE  /\ AddressText = earlier.asset.address /\ SymbolText = earlier.asset.symbol
         /\ NameText = earlier.asset.name
         /\ AddressText \in DOMAIN Checksum /\ Checksum[AddressText] = AddressText
<1>1. earlier # Absent /\ earlier.asset.address \in Addresses
    BY Redetected DEF AssetType, Optional
<1>2. payload.address = earlier.asset.address /\ Hidden = {}
    BY <1>1 DEF Remembered, Hidden
<1> QED BY <1>1, <1>2, TextAssumption DEF Remembered, AddressText, SymbolText, NameText

(* ... and a native asset under its own symbol, which nothing else shares. *)
LEMMA ReadNative ==
  ASSUME TypeOK, Remembered, ~Excepted, NativeOf(earlier.chain, earlier.asset)
  PROVE  /\ AddressText = Absent /\ SymbolText # Absent
         /\ \E t : /\ Candidates(earlier.chain) = {t}
                   /\ t.chainId = earlier.chain /\ t.address = Absent
                   /\ t.symbol = earlier.asset.symbol /\ t.name = earlier.asset.name
                   /\ t.decimals = earlier.asset.decimals
<1> DEFINE a == earlier.asset
<1>1. PICK d \in Chains :
        /\ earlier.chain = d.id /\ a.address = Absent
        /\ a.symbol = d.native /\ a.name = d.name /\ a.decimals = d.decimals
    BY DEF NativeOf
<1>2. /\ d.native \in d.aliases /\ d.native \notin DOMAIN Checksum /\ d.name \notin DOMAIN Checksum
      /\ \A t \in Tokens : t.chainId = d.id => Fold[t.symbol] # Fold[d.native]
      /\ d.native \in Texts /\ d.id # Absent
    BY NativeAssumption, SnapshotAssumption, NoneIsNoChain DEF ChainIds
<1>3. /\ earlier # Absent /\ payload.address = Absent
      /\ payload.symbol = d.native /\ payload.name = d.name
    BY <1>1, Redetected DEF Remembered
<1>4. Hidden = {}
    BY <1>2, <1>3 DEF Hidden
<1>5. AddressText = Absent /\ SymbolText = d.native
    BY <1>3, <1>4 DEF AddressText, SymbolText
<1>6. TokensBySymbol(d.native, d.id) = {}
    BY <1>2 DEF TokensBySymbol
<1> DEFINE t == [chainId |-> d.id, address |-> Absent, symbol |-> d.native,
                 name |-> d.name, decimals |-> d.decimals]
<1>7. \A x : x \in NativeCandidates(d.native, d.id) <=> x = t
  <2>1. Fold[d.native] \in {Fold[s] : s \in d.aliases}
      BY <1>2
  <2>2. \A c \in Chains : d.id \in {c.id, Absent} => c = d
      BY <1>2, SnapshotAssumption
  <2> QED BY <2>1, <2>2 DEF NativeCandidates
<1>8. Candidates(d.id) = {t}
    BY <1>5, <1>6, <1>7 DEF Candidates
<1>9. Candidates(earlier.chain) = {t}
    BY <1>1, <1>8
<1>10. /\ t.chainId = earlier.chain /\ t.address = Absent /\ t.symbol = a.symbol
       /\ t.name = a.name /\ t.decimals = a.decimals
    BY <1>1
<1>11. SymbolText # Absent
    BY <1>2, <1>5, TextAssumption
<1> HIDE DEF t
<1> QED BY <1>5, <1>9, <1>10, <1>11

(* With nothing to go by, nothing is looked up. *)
LEMMA ReadNothing ==
  ASSUME TypeOK, Remembered, ~Excepted, Unnamed(earlier.asset)
  PROVE  AddressText = Absent /\ SymbolText = Absent /\ NameText = earlier.asset.name
<1>1. /\ earlier # Absent /\ payload.address = Absent /\ payload.symbol = Absent
      /\ payload.name = earlier.asset.name /\ payload.name \notin DOMAIN Checksum
    BY Redetected DEF Remembered, Unnamed
<1>2. Hidden = {}
    BY <1>1, TextAssumption DEF Hidden
<1> QED BY <1>1, <1>2 DEF AddressText, SymbolText, NameText

(* The stages of the second call, one after the other. *)
LEMMA RepeatsDetection ==
  TypeOK /\ Remembered /\ Repeats /\ RaiseOnDetection => Repeats'
BY Redetected DEF RaiseOnDetection, Repeats, Excepted

LEMMA RepeatsChain ==
  TypeOK /\ Inv /\ Remembered /\ Repeats /\ ResolveChain => Repeats'
<1> SUFFICES ASSUME TypeOK, Inv, Remembered, Repeats, ResolveChain, ~Excepted PROVE Repeats'
    BY DEF Repeats, Excepted, ResolveChain
<1>1. /\ earlier.chain = Absent => ~ChainStated /\ Hinted = {}
      /\ earlier.chain = GivenChain /\ chain = Absent /\ stamp = Absent
    BY Redetected DEF ResolveChain, Inv, Chained, Repeats
<1>2. Meant = {} => GivenChain = Absent
    BY DEF GivenChain
<1>3. Meant # {} => GivenChain \in Meant /\ GivenChain # Absent
    BY NoneIsNoChain, SnapshotAssumption DEF GivenChain, Meant
<1>4. phase' = "asset" /\ chain' = earlier.chain
    BY <1>1, <1>2, <1>3, OneChainMeant DEF ResolveChain, Fail
<1> QED BY <1>1, <1>4 DEF Repeats, ResolveChain, Excepted, Resolved, Converted

(* The asset is settled as before. *)
LEMMA RepeatsSettled ==
  ASSUME TypeOK, Remembered, Repeats, ~Excepted, phase = "asset", phase' = "amount",
         UNCHANGED <<payload, stamp, earlier>>, chain' = earlier.chain, asset' = earlier.asset
  PROVE  Repeats'
BY DEF Repeats, Excepted, Resolved, Converted

LEMMA RepeatsAddress ==
  TypeOK /\ TypeOK' /\ Remembered /\ Repeats
    /\ (RefuseAddress \/ KnownAddress \/ UnknownAddress \/ ReadDecimals) => Repeats'
<1> SUFFICES ASSUME TypeOK, TypeOK', Remembered, Repeats, ~Excepted,
                    RefuseAddress \/ KnownAddress \/ UnknownAddress \/ ReadDecimals
             PROVE  Repeats'
    BY DEF Repeats, Excepted, RefuseAddress, KnownAddress, UnknownAddress, ReadDecimals
<1> DEFINE a == earlier.asset
<1>1. /\ phase = "asset" /\ AddressText # Absent /\ chain = earlier.chain
    BY DEF Repeats, RefuseAddress, KnownAddress, UnknownAddress, ReadDecimals, ByAddress
<1>2. a \in AssetType /\ asset' \in AssetType /\ earlier # Absent
      /\ Formed(earlier.chain, a) /\ StatedDecimals = a.decimals
    BY Redetected DEF TypeOK, Remembered
<1>3. a.address # Absent
    BY <1>1, <1>2, ReadNative, ReadNothing, NoneIsNoAddress DEF Formed, Listed, Unlisted, TokensByAddress
<1>4. /\ AddressText = a.address /\ SymbolText = a.symbol /\ NameText = a.name
      /\ AddressText \in DOMAIN Checksum /\ Checksum[AddressText] = a.address
    BY <1>3, ReaddressedText
<1>5. CASE KnownAddress
  <2>1. PICK t \in TokensByAddress(chain, a.address) : asset' = Registered(t)
      BY <1>4, <1>5 DEF KnownAddress
  <2>2. Listed(chain, a)
      BY <1>1, <1>2, <1>3, <2>1 DEF Formed, Unlisted, NativeOf, Unnamed
  <2>3. \A u \in TokensByAddress(chain, a.address) : u = t
      BY <2>1, SnapshotAssumption DEF TokensByAddress
  <2>4. /\ a.symbol = t.symbol /\ a.name = t.name /\ a.decimals = t.decimals
        /\ a.native = FALSE /\ a.wrapped = WrappedOf(chain, t.address)
        /\ a.address = t.address
      BY <2>1, <2>2, <2>3 DEF Listed, TokensByAddress
  <2>5. /\ asset'.symbol = t.symbol /\ asset'.name = t.name /\ asset'.decimals = t.decimals
        /\ asset'.native = FALSE /\ asset'.wrapped = WrappedOf(chain, t.address)
        /\ asset'.address = t.address
      BY <2>1 DEF Registered
  <2>6. asset' = a
      BY <1>2, <2>4, <2>5, SameAsset
  <2> QED BY <1>1, <1>5, <2>6, RepeatsSettled DEF KnownAddress
<1>6. CASE UnknownAddress
  <2>1. TokensByAddress(chain, a.address) = {}
      BY <1>4, <1>6 DEF UnknownAddress
  <2>2. a.native = FALSE /\ a.wrapped = Absent
      BY <1>1, <1>2, <1>3, <2>1 DEF Formed, Listed, Unlisted, NativeOf, Unnamed
  <2>3. /\ asset'.address = a.address /\ asset'.symbol = a.symbol /\ asset'.name = a.name
        /\ asset'.decimals = a.decimals /\ asset'.native = FALSE /\ asset'.wrapped = Absent
      BY <1>2, <1>4, <1>6 DEF UnknownAddress
  <2>4. asset' = a
      BY <1>2, <2>2, <2>3, SameAsset
  <2>5. ~ReadsChain
      BY <1>2 DEF ReadsChain, Excepted
  <2> QED BY <1>1, <1>6, <2>4, <2>5, RepeatsSettled DEF UnknownAddress
<1>7. ~RefuseAddress /\ ~ReadDecimals
    BY <1>1, <1>4 DEF RefuseAddress, ReadDecimals
<1> QED BY <1>5, <1>6, <1>7

LEMMA RepeatsTicker ==
  TypeOK /\ TypeOK' /\ Remembered /\ Repeats
    /\ (RefuseTicker \/ UniqueTicker \/ AmbiguousTicker \/ PickCandidate \/ NoCandidatePicked
          \/ PickRaises)
    => Repeats'
<1> SUFFICES ASSUME TypeOK, TypeOK', Remembered, Repeats, ~Excepted,
                    RefuseTicker \/ UniqueTicker \/ AmbiguousTicker \/ PickCandidate
                      \/ NoCandidatePicked \/ PickRaises
             PROVE  Repeats'
    BY DEF Repeats, Excepted, RefuseTicker, UniqueTicker, AmbiguousTicker, PickCandidate,
           NoCandidatePicked, PickRaises
<1> DEFINE a == earlier.asset
<1>1. /\ phase = "asset" /\ AddressText = Absent /\ SymbolText # Absent /\ chain = earlier.chain
    BY DEF Repeats, RefuseTicker, UniqueTicker, AmbiguousTicker, PickCandidate,
           NoCandidatePicked, PickRaises, ByTicker
<1>2. a \in AssetType /\ asset' \in AssetType /\ earlier # Absent /\ Formed(earlier.chain, a)
    BY Redetected DEF TypeOK, Remembered
<1>3. NativeOf(earlier.chain, a)
    BY <1>1, <1>2, ReaddressedText, ReadNothing, NoneIsNoAddress
       DEF Formed, Listed, Unlisted, TokensByAddress
<1>4. PICK t : /\ Candidates(chain) = {t}
               /\ t.chainId = chain /\ t.address = Absent
               /\ t.symbol = a.symbol /\ t.name = a.name /\ t.decimals = a.decimals
    BY <1>1, <1>3, ReadNative
<1>5. Cardinality(Candidates(chain)) = 1
    BY <1>4, FS_Singleton
<1>6. UniqueTicker
    BY <1>1, <1>4, <1>5
       DEF RefuseTicker, AmbiguousTicker, PickCandidate, NoCandidatePicked, PickRaises
<1>7. Adopt(t, "registry")
    BY <1>4, <1>6 DEF UniqueTicker
<1>8. /\ asset'.address = a.address /\ asset'.symbol = a.symbol /\ asset'.name = a.name
      /\ asset'.decimals = a.decimals /\ asset'.wrapped = a.wrapped
    BY <1>1, <1>3, <1>4, <1>7 DEF Adopt, NativeOf
<1>9. asset'.native = a.native
  <2>1. asset'.native = (t.address = Absent)
      BY <1>7 DEF Adopt
  <2>2. asset'.native = TRUE
      BY <1>4, <2>1
  <2> QED BY <1>3, <2>2 DEF NativeOf
<1>10. asset' = a
    BY <1>2, <1>8, <1>9, SameAsset
<1>11. chain' = earlier.chain /\ phase' = "amount"
    BY <1>1, <1>4, <1>7 DEF Adopt
<1> QED BY <1>1, <1>6, <1>10, <1>11, RepeatsSettled DEF UniqueTicker

LEMMA RepeatsNothing ==
  TypeOK /\ TypeOK' /\ Remembered /\ Repeats /\ NothingToResolve => Repeats'
<1> SUFFICES ASSUME TypeOK, TypeOK', Remembered, Repeats, ~Excepted, NothingToResolve
             PROVE  Repeats'
    BY DEF Repeats, Excepted, NothingToResolve
<1> DEFINE a == earlier.asset
<1>1. /\ phase = "asset" /\ AddressText = Absent /\ SymbolText = Absent
      /\ chain = earlier.chain
    BY DEF Repeats, NothingToResolve
<1>2. a \in AssetType /\ asset' \in AssetType /\ Formed(earlier.chain, a)
      /\ StatedDecimals = a.decimals
    BY Redetected DEF TypeOK, Remembered
<1>3. Unnamed(a)
    BY <1>1, <1>2, ReaddressedText, ReadNative, NoneIsNoAddress
       DEF Formed, Listed, Unlisted, TokensByAddress
<1>4. NameText = a.name
    BY <1>3, ReadNothing
<1>5. asset' = a
    BY <1>2, <1>3, <1>4, SameAsset DEF NothingToResolve, NoAsset, Unnamed
<1> QED BY <1>1, <1>5, RepeatsSettled DEF NothingToResolve

LEMMA RepeatsAmount ==
  TypeOK /\ Reported /\ Remembered /\ Repeats
    /\ (RefuseAmount \/ RaiseOnAmount \/ ConvertAmount) => Repeats'
<1> SUFFICES ASSUME TypeOK, Reported, Remembered, Repeats, ~Excepted,
                    RefuseAmount \/ RaiseOnAmount \/ ConvertAmount
             PROVE  Repeats'
    BY DEF Repeats, Excepted, RefuseAmount, RaiseOnAmount, ConvertAmount
<1> DEFINE m == earlier.amount
<1>1. /\ phase = "amount" /\ asset = earlier.asset /\ amount = NoAmount
    BY DEF Repeats, RefuseAmount, RaiseOnAmount, ConvertAmount, Resolved, Reported, Converted
<1>2. /\ m \in AmountType /\ Shown(m, asset) /\ StatedHuman = {}
      /\ StatedRaw = IF m = NoAmount THEN {} ELSE {m.raw}
    BY <1>1, Redetected DEF Remembered
<1>3. payload.amount.form \notin {"infinity", "nan"}
    BY Redetected DEF Remembered, NoCell
<1>4. m # NoAmount => /\ m.raw \in Nat /\ asset.decimals # Absent
                      /\ m = [raw |-> m.raw, human |-> HumanOf(m.raw, asset.decimals)]
                      /\ ~Unshowable(m.raw, asset.decimals)
    BY <1>2 DEF AmountType, Shown
<1>5. RawsOfHuman(asset.decimals) = {}
    BY <1>2 DEF RawsOfHuman
<1>6. ~RefuseAmount /\ ~RaiseOnAmount
    BY <1>2, <1>3, <1>4, <1>5 DEF RefuseAmount, RaiseOnAmount, NeedDecimals, Unconvertible
<1>7. ConvertAmount
    BY <1>6
<1>8. amount' = m
    BY <1>1, <1>2, <1>4, <1>7, <1>5 DEF ConvertAmount
<1> QED BY <1>1, <1>7, <1>8 DEF ConvertAmount, Repeats, Excepted, Resolved, Converted

LEMMA RepeatsTime ==
  TypeOK /\ Remembered /\ Repeats
    /\ (NormTimestamp \/ RefuseTimestamp \/ RaiseOnTimestamp \/ Validate) => Repeats'
<1> SUFFICES ASSUME TypeOK, Remembered, Repeats, ~Excepted,
                    NormTimestamp \/ RefuseTimestamp \/ RaiseOnTimestamp \/ Validate
             PROVE  Repeats'
    BY DEF Repeats, Excepted, NormTimestamp, RefuseTimestamp, RaiseOnTimestamp, Validate
<1>1. payload.time = NoCell /\ Accepted(payload, earlier.asset) /\ stamp = Absent
    BY Redetected DEF Remembered, Repeats
<1>2. CASE NormTimestamp
  <2>1. stamp' = Absent
      BY <1>1, <1>2 DEF NormTimestamp, NoCell
  <2> QED BY <1>2, <2>1 DEF NormTimestamp, Repeats, Excepted, Resolved, Converted
<1>3. CASE Validate
  <2>1. asset = earlier.asset
      BY <1>3 DEF Validate, Repeats, Resolved
  <2>2. Conforms
      BY <1>1, <2>1 DEF Conforms, Accepted
  <2> QED BY <1>3, <2>2 DEF Validate, Repeats, Excepted, Resolved, Converted
<1>4. ~RefuseTimestamp /\ ~RaiseOnTimestamp
    BY <1>1 DEF RefuseTimestamp, RaiseOnTimestamp, NoCell
<1> QED BY <1>2, <1>3, <1>4

LEMMA RepeatsStep ==
  TypeOK /\ TypeOK' /\ Inv /\ Reported /\ Remembered /\ Repeats /\ [Next]_vars => Repeats'
<1>1. Resubmit => Repeats'
    BY DEF Resubmit, Repeats, Resolved, Converted
<1>2. Repeats /\ UNCHANGED vars => Repeats'
    BY DEF vars, Repeats, Excepted, Resolved, Converted
<1> QED
  BY <1>1, <1>2, RepeatsDetection, RepeatsChain, RepeatsAddress, RepeatsTicker, RepeatsNothing, RepeatsAmount,
     RepeatsTime DEF Next, Stages

(* For any registry, payload, model and node: a result submitted again     *)
(* under the same hints is accepted and comes out the same, but for its    *)
(* timestamp, the two exceptions of the property apart                     *)
(* (pipeline.py:39-209 as a whole).                                        *)
THEOREM FixedPoints == Spec => []Idempotent
<1>1. Init => Repeats
    BY DEF Init, Repeats, Excepted
<1>2. TypeOK /\ Remembered /\ Repeats => Idempotent
  <2> SUFFICES ASSUME TypeOK, Repeats, ~Excepted, Remembered
               PROVE  /\ phase \notin {"failed", "raised"}
                      /\ phase = "done" => Result = [earlier EXCEPT !.stamp = Absent]
      BY DEF Idempotent, Excepted
  <2>1. earlier \in [chain : Optional(ChainIds), asset : AssetType, amount : AmountType,
                     stamp : Optional(Int)]
      BY DEF TypeOK, Excepted, Optional
  <2>2. phase = "done" => /\ chain = earlier.chain /\ asset = earlier.asset
                          /\ amount = earlier.amount /\ stamp = Absent
      BY DEF Repeats, Resolved, Converted
  <2> QED BY <2>1, <2>2 DEF Result, Repeats
<1> QED
  BY <1>1, <1>2, RepeatsStep, TypeCorrect, InvHolds, ReportedHolds, RememberedHolds, PTL DEF Spec
===============================================================================
