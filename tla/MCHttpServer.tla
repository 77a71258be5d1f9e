----------------------------- MODULE MCHttpServer -----------------------------
(* Instances of HttpServer for TLC. *)
EXTENDS HttpServer, TLC

CONSTANTS Alice, Bob

Post(path, body) == [verb |-> "POST", path |-> path, pays |-> TRUE, body |-> body]
Get(path, pays) == [verb |-> "GET", path |-> path, pays |-> pays, body |-> NotJson]
Raw(object) == "raw" :> object

Ledger == "trades" :> "ledger"
Transfer == "args" :> "arguments"

AliceRequests ==
  { Get(<<"healthz", "">>, FALSE),
    Get(<<"lots", "fifo">>, TRUE),
    Get(<<"decode", "">>, FALSE),
    Post(<<"lots", "fifo">>, Ledger @@ "method" :> "LIFO"),
    Post(<<"lots", "hifo">>, Raw(Ledger @@ "method" :> "LIFO")),
    Post(<<"lots", "">>, Raw(Ledger) @@ "method" :> "HIFO"),
    Post(<<"lots", "">>, Raw(Ledger @@ "method" :> "") @@ "method" :> "HIFO"),
    Post(<<"lots", "gains">>, Ledger @@ "method" :> "LIFO"),
    Post(<<"lots", "inventory">>, Ledger),
    Post(<<"lots", "holding-period">>,
         Raw(Ledger @@ "method" :> "HIFO") @@ "method" :> "LIFO"),
    Post(<<"lots", "balances">>, Raw(NotAnObject)),
    [Post(<<"lots", "">>, Ledger) EXCEPT !.pays = FALSE],
    Post(<<"encode", "transfer">>, Transfer @@ "function" :> "approve"),
    Post(<<"encode", "">>, Raw(Transfer @@ "function" :> "approve")),
    Post(<<"encode", "">>, Raw(Transfer) @@ "function" :> "approve"),
    Post(<<"encode", "">>, Raw(Transfer @@ "function" :> "") @@ "function" :> "approve"),
    Post(<<"encode", "wrap">>, Raw(NotAnObject)),
    Post(<<"decode", "">>, NotJson),
    Post(<<"canonicalize", "">>, "symbol" :> "USDC"),
    Post(<<"resolve", "">>, "name" :> "alice.eth"),
    Post(<<"checksum", "">>, <<>>) }

(* What Bob sends stalls, fails or holds the loop while Alice's is served. *)
BobRequests ==
  { Get(<<"healthz", "">>, FALSE),
    Post(<<"resolve", "">>, "name" :> "alice.eth") }

MCRequests == Alice :> AliceRequests @@ Bob :> BobRequests

MCMayRaise == {<<"canonicalize", "">>, <<"encode", "">>}
===============================================================================
