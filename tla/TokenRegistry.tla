---------------------------- MODULE TokenRegistry ----------------------------
(***************************************************************************)
(* The pinned registry of evm_canon/registry.py: a snapshot of chains and  *)
(* token contracts, loaded once and never written, and its lookups.        *)
(***************************************************************************)
EXTENDS Integers, FiniteSets

CONSTANTS
  Chains,    \* chains: records [id, native, name, aliases, decimals, wrapped]
             \*   native, name: symbol and name of the native asset
             \*   aliases: what the native asset is also called
             \*   wrapped: the contract that wraps it
  Tokens,    \* tokens: records [chainId, address, symbol, name, decimals]
  Alias,     \* chain id of each known chain name or alias
  Texts,     \* the texts a payload may carry
  Fold,      \* the lower case of each text
  Checksum,  \* the checksummed address of each text that is an address
  Absent     \* None

ChainIds == {c.id : c \in Chains}
Addresses == {Checksum[s] : s \in DOMAIN Checksum}

(* The snapshot has one entry per chain and per (chain, address); symbols  *)
(* may collide, also on one chain.                                         *)
ASSUME SnapshotAssumption ==
  /\ IsFiniteSet(Chains) /\ IsFiniteSet(Tokens)
  /\ \A c, d \in Chains : c.id = d.id => c = d
  /\ \A t, u \in Tokens : t.chainId = u.chainId /\ t.address = u.address => t = u
  /\ \A t \in Tokens : t.chainId \in ChainIds /\ t.address \in Addresses
  /\ \A s \in DOMAIN Alias : Alias[s] \in ChainIds
  /\ \A t \in Tokens : {t.symbol, t.name} \subseteq Texts /\ t.decimals \in Nat
  /\ \A c \in Chains : /\ c.id \in Int /\ {c.native, c.name} \subseteq Texts
                        /\ c.decimals \in Nat
(* A native asset goes by its own symbol, which is of no other asset of    *)
(* its chain, and neither its symbol nor its name is an address.           *)
ASSUME NativeAssumption ==
  \A c \in Chains :
    /\ c.native \in c.aliases /\ {c.native, c.name} \cap DOMAIN Checksum = {}
    /\ \A t \in Tokens : t.chainId = c.id => Fold[t.symbol] # Fold[c.native]
ASSUME TextAssumption ==
  /\ DOMAIN Checksum \subseteq Texts
  /\ DOMAIN Fold = Texts
  /\ \A a \in Addresses : a \in DOMAIN Checksum /\ Checksum[a] = a
  /\ Absent \notin Texts /\ Absent \notin Int /\ Absent \notin BOOLEAN

ChainById(id) == CHOOSE c \in Chains : c.id = id

TokensByAddress(id, address) == {t \in Tokens : t.chainId = id /\ t.address = address}

(* Mutant: the chain is not looked at. *)
TokensBySymbolAnywhere(symbol, id) == {t \in Tokens : Fold[t.symbol] = Fold[symbol]}
(* The assets a symbol may mean, on one chain or, with no chain, on all. *)
TokensBySymbol(symbol, id) ==
  {t \in Tokens : Fold[t.symbol] = Fold[symbol] /\ id \in {t.chainId, Absent}}

NativeCandidates(symbol, id) ==
  {[chainId |-> c.id, address |-> Absent, symbol |-> c.native, name |-> c.name,
    decimals |-> c.decimals] :
     c \in {d \in Chains : /\ Fold[symbol] \in {Fold[s] : s \in d.aliases}
                           /\ id \in {d.id, Absent}}}

(* The native symbol a contract wraps. *)
WrappedOf(id, address) ==
  IF id # Absent /\ ChainById(id).wrapped = address THEN ChainById(id).native ELSE Absent
===============================================================================
