----------------------------- MODULE MCRegistry -----------------------------
(* The registry the instances for TLC share: three chains with two native  *)
(* assets, one under two names; a symbol on two chains, one twice on a     *)
(* chain, and the wrapped native asset.  Scaled down: decimals 1 and 3     *)
(* stand for 6 and 18.                                                     *)
EXTENDS TokenRegistry

RegistryChain(id, native, aliases, wrapped) ==
  [id |-> id, native |-> native, name |-> "Label", aliases |-> aliases, decimals |-> 3,
   wrapped |-> wrapped]

RegistryToken(id, address, symbol, decimals) ==
  [chainId |-> id, address |-> address, symbol |-> symbol, name |-> symbol,
   decimals |-> decimals]

MCChains ==
  { RegistryChain(1, "ETH", {"ETH"}, "0xWeth1"),
    RegistryChain(10, "ETH", {"ETH"}, "0xWeth10"),
    RegistryChain(137, "POL", {"POL", "MATIC"}, "0xWpol") }

MCTokens ==
  { RegistryToken(1, "0xUsdc1", "USDC", 1), RegistryToken(137, "0xUsdc137", "USDC", 1),
    RegistryToken(1, "0xWeth1", "WETH", 3), RegistryToken(10, "0xDupA", "DUP", 1),
    RegistryToken(10, "0xDupB", "DUP", 2) }

MCAlias == [s \in {"eth", "mainnet", "polygon"} |-> IF s = "polygon" THEN 137 ELSE 1]

Contracts == {"0xUsdc1", "0xUsdc137", "0xWeth1", "0xDupA", "0xDupB", "0xFake"}
MCChecksum ==
  [s \in Contracts \cup {"0xusdc1"} |-> IF s = "0xusdc1" THEN "0xUsdc1" ELSE s]

Symbols == {"USDC", "usdc", "ETH", "POL", "MATIC", "WETH", "DUP", "NOPE"}
MCTexts == Symbols \cup DOMAIN MCChecksum \cup {"0xnothex", "Label"}
MCFold == [s \in MCTexts |-> IF s = "usdc" THEN "USDC" ELSE s]
=============================================================================
