------------------------------- MODULE Ranges -------------------------------
(***************************************************************************)
(* What a Range header of a download asks for and what is sent:            *)
(* parse_range and try_serve_original of crates/api/src/files.rs and       *)
(* get_range of crates/storage/src/lib.rs.  Bytes are their positions.     *)
(***************************************************************************)
EXTENDS Integers

CONSTANTS
    Numbers,  \* numbers that clients write into the header
    MaxU64    \* the largest u64

ASSUME NumbersOK == Numbers \subseteq Nat /\ MaxU64 \in Nat

\* "bytes=a-b", "bytes=a-", "bytes=-b"; everything else, several ranges too, is
\* "other".
Headers ==
    [form : {"closed"}, a : Numbers, b : Numbers]
        \cup [form : {"open"}, a : Numbers]
        \cup [form : {"suffix"}, b : Numbers]
        \cup [form : {"other"}]

Fits(h) ==  \* parse::<u64>() of what the header has
    /\ h.form \in {"closed", "open"} => h.a <= MaxU64
    /\ h.form \in {"closed", "suffix"} => h.b <= MaxU64

Least(a, b) == IF a <= b THEN a ELSE b
Less(a, b) == IF a <= b THEN 0 ELSE a - b  \* saturating_sub

----------------------------------------------------------------------------
(* Plausible bugs; none is used.                                            *)

Bounds_PastEnd(h, total) ==
    CASE h.form = "closed" -> [start |-> h.a, end |-> Least(h.b, total)]
      [] h.form = "open"   -> [start |-> h.a, end |-> Less(total, 1)]
      [] h.form = "suffix" -> [start |-> Less(total, Least(h.b, total)),
                               end |-> Less(total, 1)]

----------------------------------------------------------------------------

\* The range before it is checked; "bytes=-0" is refused earlier.
Bounds(h, total) ==
    CASE h.form = "closed" -> [start |-> h.a, end |-> Least(h.b, Less(total, 1))]
      [] h.form = "open"   -> [start |-> h.a, end |-> Less(total, 1)]
      [] h.form = "suffix" -> [start |-> Less(total, Least(h.b, total)),
                               end |-> Less(total, 1)]

\* parse_range answers Ok with Bounds.
Accepted(h, total) ==
    /\ h.form # "other" /\ Fits(h)
    /\ h.form = "suffix" => h.b > 0
    /\ total # 0
    /\ Bounds(h, total).start <= Bounds(h, total).end
    /\ Bounds(h, total).start < total

\* ByteRange::length, the Content-Length
Length(range) == range.end - range.start + 1

\* get_range of an object of that size: take of what is left at most.
GetRange(start, length, size) == start .. start + Least(length, size - start) - 1

\* The answer to a download, and the bytes of its body; the original may have
\* been deleted since the row was read.
Answer(h, total, stored) ==
    IF ~Accepted(h, total) THEN [status |-> 416, body |-> {}]
    ELSE IF ~stored THEN [status |-> 404, body |-> {}]
    ELSE [status |-> 206,
          body |-> GetRange(Bounds(h, total).start, Length(Bounds(h, total)), total)]

----------------------------------------------------------------------------

\* What the header asks for of a file of that size.
Asked(h, total) ==
    {p \in 0 .. total - 1 :
        CASE h.form = "closed" -> h.a <= p /\ p <= h.b
          [] h.form = "open"   -> h.a <= p
          [] h.form = "suffix" -> total - h.b <= p
          [] OTHER             -> FALSE}

\* A part of the file is sent exactly when the header asks for one in numbers
\* that fit; it is that part, and Content-Length and Content-Range tell it.
RightFor(h, total) ==
    LET answer == Answer(h, total, TRUE)
        range == Bounds(h, total)
    IN IF ~Fits(h) \/ Asked(h, total) = {} THEN answer.status = 416
       ELSE /\ answer.status = 206
            /\ answer.body = Asked(h, total)
            /\ answer.body = range.start .. range.end
            /\ range.start + Length(range) - 1 = range.end
=============================================================================
