------------------------------ MODULE MCServing -------------------------------
(***************************************************************************)
(* TLC instance of Serving: three blocks, a client's batches and ranges.    *)
(***************************************************************************)
EXTENDS Serving, TLC

Call(method, selector) == [method |-> method, selector |-> selector]

\* An account with a slot is destroyed and created again, or one with code is late.
MCHistories ==
    {<<{"account", "slot", "code"}, {"destroyed"}, {"account"}>>, <<{}, {"account", "code"}, {"slot"}>>}
ByBlock == {[b \in 0 .. MaxBlock |-> h[b + 1]] : h \in MCHistories}

MCBatches ==
    {<<Call("account", Latest), Call("account", Latest)>>, <<Call("storage", Latest)>>, <<Call("code", Latest)>>}
MCCalls == {Call("storage", Latest), Call("code", 1), Call("account", 2)}

Bounds(start, end) == [kind |-> "bounds", start |-> start, end |-> end]
NoRange == [kind |-> "none", start |-> Empty, end |-> Empty]
ObjectRequest(method, range, copy, condition) ==
    [method |-> method, range |-> range, if_none_match |-> copy, if_range |-> condition]
MCObjectRequests ==
    {ObjectRequest("GET", Bounds(s, e), Empty, Empty) : s, e \in (0 .. MAX_U64 + 1) \cup {Empty}}
    \cup {ObjectRequest(m, range, copy, Empty) : m \in {"GET", "HEAD"}, range \in {NoRange, Bounds(0, 1)},
             copy \in {Empty, Etag, "weak", "*", "another"}}
    \cup {ObjectRequest("GET", [NoRange EXCEPT !.kind = "other"], Empty, Empty)}
    \cup {ObjectRequest("GET", Bounds(0, 0), Empty, header) : header \in {Etag, "weak", "another"}}
===============================================================================
