------------------------------ MODULE MCReplay ------------------------------
(* Versions of an expense policy for checking Replay and PolicyDiff.       *)
EXTENDS PolicyDiff, TLC

Leaf(action, with, probe, onSuccess, fallback) ==
  [action |-> action, with |-> with, probe |-> probe, onSuccess |-> onSuccess,
   fallback |-> fallback]
Set(fields, onSuccess) ==
  Leaf("std.set", [fields |-> Overlay(NoContext, fields)], None, onSuccess, None)
Decide(what) == Set([decision |-> <<"string", what>>], None)
Rule(op, value) == [field |-> "amount", op |-> op, value |-> <<"float", value>>]
Single(entry, steps) == [branches |-> <<>>, entry |-> entry, steps |-> steps]

(* The limit, a probe asked before it and before the approval.             *)
Limited(limit, probe) ==
  Single("limit",
    [limit   |-> Leaf("std.require", Rule("lte", limit), probe, "approve", "review"),
     approve |-> Leaf("std.set", [fields |-> Writes("decision", <<"string", "approved">>)],
                      probe, None, None),
     review  |-> Decide("review")])

(* Nothing is approved on a figure a model read.                           *)
Verified ==
  Single("known",
    [known |-> Leaf("std.require_verified", [fields |-> {"amount"}], None, "limit", "review"),
     limit |-> Leaf("std.require", Rule("lte", 2), "score", "approve", None),
     approve |-> Decide("approved"), review |-> Decide("review")])

(* Two checks side by side, then the ledger again.                         *)
Checked(second, writes) ==
  [Limited(2, "ledger") EXCEPT !.branches =
    <<Single("big", [big |-> Leaf("std.rule_check",
                                  Rule("gte", 3) @@ [result_field |-> "big"],
                                  "ledger", "note", "note"),
                     note |-> Set(writes, None)]),
      Single("known", [known |-> Leaf("std.rule_check",
                                      Rule("eq", 3) @@ [result_field |-> "same"],
                                      second, None, None)])>>]
(* Branches that write two fields differently.                             *)
Clashing ==
  [Single("end", [end |-> Decide("approved")]) EXCEPT !.branches =
    <<Single("one", [one |-> Set([big |-> <<"bool", TRUE>>, same |-> <<"bool", TRUE>>], None)]),
      Single("two", [two |-> Set([big |-> <<"bool", FALSE>>, same |-> <<"bool", FALSE>>], None)])>>]

(* A branch sets the amount that the input has.                            *)
Restating ==
  [Single("end", [end |-> Decide("approved")]) EXCEPT !.branches =
    <<Single("one", [one |-> Set([amount |-> <<"float", 3>>], None)]),
      Single("two", [two |-> Set([amount |-> <<"float", 4>>], None)])>>]

(* What is over the limit waits for somebody.                              *)
Asking(note) ==
  Single("note",
    [note  |-> Set([same |-> <<"bool", note>>], "limit"),
     limit |-> Leaf("std.require", Rule("lt", 3), None, "approve", "ask"),
     ask   |-> Leaf("std.suspend", [reason |-> "over the limit"], None, "approve", None),
     approve |-> Decide("approved")])
Listing == Single("limit",
    [limit |-> Leaf("std.require", [field |-> "amount", op |-> "in",
                                    value |-> <<"array", {<<"float", 2>>, <<"float", 3>>}>>],
                    None, "approve", None),
     approve |-> Decide("approved")])
Hooked == Single("hook", [hook |-> Leaf("std.set", [values |-> NoContext], None, None, None)])

MCPrograms ==
  {Limited(2, "ledger"), Limited(4, "ledger"), Limited(2, None), Limited(1, None),
   Limited(2, "bureau"), Verified,
   Checked("score", [decision |-> <<"string", "big">>]),
   Checked("ledger", [decision |-> <<"string", "big">>]), Clashing, Restating, Asking(TRUE), Listing, Hooked}

Amount(value) == [NoContext EXCEPT !["amount"] = value]
Rehearsed(c) == [c EXCEPT !["probe_command"] = <<"strings", {"audit"}>>]
MCContexts == {Rehearsed(Amount(<<"int", 3>>)), Amount(<<"int", 7>>),
               Rehearsed(Amount(<<"string", "three">>))}

(* Exchanges: all that goes wrong, an error page in JSON among it.         *)
Exchange(status, body) == [fails |-> None, status |-> status, body |-> body]
Broken == {[fails |-> how, status |-> None, body |-> None] :
             how \in {"request", "no answer", "reading", "too long"}}
ErrorPage == Exchange(503, [error |-> "busy"])
Says(fence, json) == Exchange(200, [choices |-> <<[fence |-> fence, json |-> json]>>])
Figures == [amount |-> <<"float", 2>>, who |-> <<"string", "ann">>]
MCReplies ==
  Broken \cup {ErrorPage, Exchange(200, None), Exchange(200, [choices |-> <<>>]),
               Says("none", None), Says("own lines", [amount |-> <<"string", "2">>])}
         \cup {Says(fence, Figures) : fence \in {"none", "own lines", "one line", "labelled line",
                                                 "prose"}}
MCSchemas == [claim |-> [amount |-> "float"], claimant |-> [who |-> "string"]]
MCProbes == [ledger |-> "http", score |-> "docker"]
MCRehearsals ==
  [http   |-> {Exchange(200, [exit_code |-> 0]), Exchange(200, [exit_code |-> 2]),
               Exchange(200, [output |-> "ran"]), ErrorPage}
                \cup {x \in Broken : x.fails = "request"},
   docker |-> {[err |-> FALSE, exit |-> 0], [err |-> FALSE, exit |-> 1],
               [err |-> TRUE, exit |-> 0]}]
MCEvents == <<Amount(<<"float", 2>>), Amount(<<"float", 3>>), Amount(None)>>

MCWanted == <<"claim", "claimant", "photo">>
=============================================================================
