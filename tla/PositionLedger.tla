---------------------------- MODULE PositionLedger ----------------------------
(***************************************************************************)
(* What a cost-basis calculator of evm_canon/lots.py promises about        *)
(* quantities, whatever the matching method: a ledger of buys and sells,   *)
(* once put in order, is honoured entry by entry against one position per  *)
(* asset, up to its end or up to the first sell that exceeds the position, *)
(* which is refused by its place in the ledger.  Nothing is ever clamped.  *)
(* Lots, costs and the order of consumption do not exist at this level.    *)
(***************************************************************************)
EXTENDS Naturals, Sequences

CONSTANT Assets

VARIABLES ledger,    \* the entries in processing order
          next,      \* the entry to be honoured
          position,  \* quantity held of each asset
          status     \* "open", "running", "complete", "refused"
                     \* or "malformed"

vars == <<ledger, next, position, status>>

Entries == [side : {"buy", "sell"}, asset : Assets, amount : Nat \ {0}]

Init ==
  /\ ledger = <<>>
  /\ next = 1
  /\ position = [a \in Assets |-> 0]
  /\ status = "open"

(* The request is read and put in order, or turned away as malformed. *)
Load ==
  /\ status = "open"
  /\ \/ ledger' \in Seq(Entries) /\ status' = "running"
     \/ ledger' = <<>> /\ status' = "malformed"
  /\ UNCHANGED <<next, position>>

Due == status = "running" /\ next \in DOMAIN ledger

Acquire ==
  /\ Due
  /\ ledger[next].side = "buy"
  /\ position' = [position EXCEPT ![ledger[next].asset] = @ + ledger[next].amount]
  /\ next' = next + 1
  /\ UNCHANGED <<ledger, status>>

Dispose ==
  /\ Due
  /\ ledger[next].side = "sell"
  /\ ledger[next].amount <= position[ledger[next].asset]
  /\ position' = [position EXCEPT ![ledger[next].asset] = @ - ledger[next].amount]
  /\ next' = next + 1
  /\ UNCHANGED <<ledger, status>>

Refuse ==
  /\ Due
  /\ ledger[next].side = "sell"
  /\ ledger[next].amount > position[ledger[next].asset]
  /\ status' = "refused"
  /\ UNCHANGED <<ledger, next, position>>

Complete ==
  /\ status = "running"
  /\ next > Len(ledger)
  /\ status' = "complete"
  /\ UNCHANGED <<ledger, next, position>>

Next == Load \/ Acquire \/ Dispose \/ Refuse \/ Complete

Spec == Init /\ [][Next]_vars
===============================================================================
