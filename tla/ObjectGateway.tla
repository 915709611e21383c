---------------------------- MODULE ObjectGateway -----------------------------
(***************************************************************************)
(* The edge worker's object gateway (worker/src/lib.rs): what serve_object   *)
(* answers, given what the bucket told it.  An object is its size; its bytes *)
(* are its positions 0 .. size - 1 and, being content-addressed, never       *)
(* change.  A header is absent or one of the values the code tells apart.    *)
(***************************************************************************)
EXTENDS Integers

CONSTANTS
    MAX_U64,     \* largest number a range may hold
    Empty        \* a missing bound of a range, an absent header

ASSUME GatewayAssumption == MAX_U64 \in Nat /\ Empty \notin Nat

Etag == "etag"

\* A range is "none", "other" (not bytes=, a list, no dash, not digits) or a
\* pair of bounds, each of which may be missing.
Ignore == [kind |-> "ignore", offset |-> 0, length |-> 0]
Unsatisfiable == [kind |-> "unsatisfiable", offset |-> 0, length |-> 0]
Satisfiable(offset, length) == [kind |-> "satisfiable", offset |-> offset, length |-> length]

Overflows(bound) == bound # Empty /\ bound > MAX_U64
Smaller(a, b) == IF a < b THEN a ELSE b

\* Variant: a range that ends past the object is not cut.
LastByte_Uncut(range, size) == IF range.end = Empty THEN size - 1 ELSE range.end

LastByte(range, size) == IF range.end = Empty THEN size - 1 ELSE Smaller(range.end, size - 1)

\* A range without bounds, with a number too large or one that ends before it
\* starts asks for nothing.
Ignored(range) ==
    \/ range.start = Empty /\ range.end = Empty
    \/ Overflows(range.start) \/ Overflows(range.end)
    \/ range.start # Empty /\ range.end # Empty /\ range.end < range.start

parse_range(range, size) ==
    IF Ignored(range) THEN Ignore
    ELSE IF range.start = Empty
         THEN IF range.end = 0 \/ size = 0 THEN Unsatisfiable
              ELSE Satisfiable(size - Smaller(range.end, size), Smaller(range.end, size))
         ELSE IF range.start >= size THEN Unsatisfiable
              ELSE Satisfiable(range.start, LastByte(range, size) - range.start + 1)

if_none_match(header) == header \in {Etag, "weak", "*"}
if_range_matches(header) == header \in {Empty, Etag}

Response(status, offset, length, cacheable) ==
    [status |-> status, offset |-> offset, length |-> length, cacheable |-> cacheable]
NoResponse == Response(0, 0, 0, FALSE)
Failed(status) == Response(status, 0, 0, FALSE)

\* The range that serve_object asks the bucket for.
Wanted(request, size) ==
    IF request.range.kind = "bounds" /\ if_range_matches(request.if_range)
    THEN parse_range(request.range, size)
    ELSE Ignore

\* After bucket.head: the answers that need no body.  NoResponse goes on to the
\* second bucket request.
AfterHead(request, stored, size) ==
    CASE ~stored -> Failed(404)
      [] stored /\ if_none_match(request.if_none_match) -> Response(304, 0, 0, TRUE)
      [] stored /\ ~if_none_match(request.if_none_match) /\ request.method = "HEAD" ->
            Response(200, 0, 0, TRUE)
      [] OTHER -> IF Wanted(request, size).kind = "unsatisfiable" THEN Failed(416) ELSE NoResponse

\* After bucket.get: the object may have been deleted since bucket.head.
AfterGet(request, stored, size) ==
    LET range == Wanted(request, size) IN
    IF ~stored THEN Failed(500)
    ELSE IF range.kind = "satisfiable" THEN Response(206, range.offset, range.length, TRUE)
    ELSE Response(200, 0, size, TRUE)

-----------------------------------------------------------------------------
(* What a range means: the positions of the object it names *)

Named(range, size) ==
    {i \in 0 .. size - 1 :
        IF range.start = Empty THEN i >= size - range.end
        ELSE i >= range.start /\ (range.end = Empty \/ i <= range.end)}

\* A range header that has to be honoured.
Valid(range) ==
    /\ range.kind = "bounds" /\ ~(range.start = Empty /\ range.end = Empty)
    /\ ~Overflows(range.start) /\ ~Overflows(range.end)
    /\ range.start # Empty /\ range.end # Empty => range.start <= range.end

Delivered(response) == response.offset .. response.offset + response.length - 1

\* A response has the bytes that the request named; one that may be cached holds
\* of the object as long as it is stored.
Exact(asked, stored, size, response) ==
    LET named == Named(asked.range, size)
        honoured == Valid(asked.range) /\ asked.if_range \in {Empty, Etag}
    IN  CASE response.status = 304 -> asked.if_none_match \in {Etag, "weak", "*"}
          [] response.status = 206 -> honoured /\ Delivered(response) = named /\ named # {}
          [] response.status = 416 -> honoured /\ named = {} /\ ~response.cacheable
          [] response.status = 200 ->
                IF asked.method = "HEAD" THEN Delivered(response) = {}
                ELSE ~honoured /\ Delivered(response) = 0 .. size - 1
          [] OTHER -> ~stored /\ ~response.cacheable
===============================================================================
