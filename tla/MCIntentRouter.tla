--------------------------- MODULE MCIntentRouter ---------------------------
(* Two intents of a bank and one of a shop that shares an example.         *)
EXTENDS IntentRouter, TLC

MCQueries == {<<"bank", "pay the bill">>, <<"bank", "settle it">>}
MCWords == ("pay the bill" :> {"pay", "the", "bill"}) @@ ("settle it" :> {"settle", "it"})
             @@ ("pay the rent" :> {"pay", "the", "rent"})
MCTexts == DOMAIN MCWords

Node(id, domain, examples) ==
  [id |-> id, domain |-> domain, examples |-> examples, workflow |-> id]
Rent   == Node("rent", "bank", <<"pay the rent">>)
Settle == Node("settle", "bank", <<"settle it", "pay the rent">>)
Buy    == Node("buy", "shop", <<"pay the bill">>)
MCRegistered == [bank |-> <<Rent, Settle>>, shop |-> <<Buy>>]
MCNodes == {Rent, Settle, Buy, Node("bill", "bank", <<"pay the bill">>)}

(* By meaning "settle it" is next to "pay the bill".                       *)
Closeness(a, b) ==
  CASE a = b -> 100
    [] a # b /\ {a, b} = {"pay the bill", "settle it"} -> 90
    [] OTHER -> 30
MCCosine ==
  [vw \in (Vectorizers \X MCTexts) \X (Vectorizers \X MCTexts) |->
     IF vw[1][1] # vw[2][1] THEN <<0, 1>> ELSE <<Closeness(vw[1][2], vw[2][2]), 100>>]
Exchange(status, body) == [fails |-> None, status |-> status, body |-> body]
MCExchanges ==
  {Exchange(200, [data |-> <<<<1, 2>>>>]), Exchange(200, [data |-> <<>>]),
   Exchange(200, [data |-> <<<<>>>>]), Exchange(503, None),
   [fails |-> "no answer", status |-> None, body |-> None]}
MCThreshold == <<1, 3>>
=============================================================================
