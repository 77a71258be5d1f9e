---------------------------- MODULE MCEnsResolution ----------------------------
(* An instance of EnsResolution for TLC. *)
EXTENDS EnsResolution

CONSTANTS a1, a2, ownA, ownB, e1, e2, e3

MCSpellings == {"vault.eth", "Vault.eth", "pool.eth"}
MCNames == {"vault.eth", "pool.eth"}
MCLower == [s \in MCSpellings |-> IF s = "Vault.eth" THEN "vault.eth" ELSE s]

MCDefaultRpcs == <<e1, e2>>
MCSettings == {[rpc |-> Absent, env |-> Absent], [rpc |-> Absent, env |-> e3],
               [rpc |-> e1, env |-> e3]}

Nodes == MCNames \cup {a1, a2}
Blank == [where \in {ownA, ownB} |-> [n \in Nodes |-> Absent]]
All(where) == [n \in Nodes |-> where]

(* vault.eth and a1 name each other; a2 claims vault.eth too. *)
Claimed ==
  [resolver |-> All(ownA),
   record |-> [Blank EXCEPT ![ownA] = [n \in Nodes |->
     CASE n = "vault.eth" -> a1 [] n = "pool.eth" -> Absent
       [] n = a1 -> "Vault.eth" [] n = a2 -> "vault.eth"]]]

(* vault.eth has moved to another resolver, where it belongs to a2; the    *)
(* old resolver still answers as before.                                   *)
Moved ==
  [resolver |-> [Claimed.resolver EXCEPT !["vault.eth"] = ownB],
   record |-> [Claimed.record EXCEPT ![ownB]["vault.eth"] = a2]]

(* a1 is renamed to pool.eth, which has no address yet. *)
Renamed ==
  [resolver |-> All(ownA),
   record |-> [Claimed.record EXCEPT ![ownA][a1] = "pool.eth"]]

(* Nothing is registered. *)
Empty == [resolver |-> All(Absent), record |-> Blank]

(* The resolver of vault.eth has no addr() function. *)
Broken ==
  [resolver |-> All(ownA),
   record |-> [Claimed.record EXCEPT ![ownA]["vault.eth"] = Reverts]]

MCWorlds == {Claimed, Moved, Renamed, Empty, Broken}
===============================================================================
