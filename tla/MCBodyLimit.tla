----------------------------- MODULE MCBodyLimit -----------------------------
(* Instances of BodyLimit.                                                  *)
EXTENDS BodyLimit

Of(post, headers, declared, bodies) ==
    [post : {post}, headers : {headers}, declared : {declared}, body : bodies]

\* Every body of at most three bytes; brackets, quotes and escapes, or brackets and
\* separators, that fill the buffer; and one byte more than that.
Short  == BoundedSeq(Byte, 3)
Quoted == [1..MaxBytes -> {"quote", "backslash", "open"}]
Nested == [1..MaxBytes -> {"open", "close", "separator"}]
Long   == [1..(MaxBytes + 1) -> {"other"}]
Few    == BoundedSeq({"open", "lead", "nul"}, 2)

SomeRequests ==
    Of(TRUE, "fine", None, Short \cup Quoted \cup Nested \cup Long)
        \cup Of(FALSE, "fine", None, Short)
        \cup Of(TRUE, "wrong", None, {<<>>})
        \cup UNION {Of(TRUE, "fine", n, Few) : n \in {0, 1, 2, MaxBytes + 1}}
=============================================================================
