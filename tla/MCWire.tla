------------------------------- MODULE MCWire -------------------------------
(* Instances of Wire: a hello, then up to two frames, the last item possibly  *)
(* one the decoder must refuse.                                               *)
EXTENDS Wire

Good(type, len) == [type |-> type, len |-> len, valid |-> TRUE, fits |-> TRUE]

Bad == {[Good("frame", 2) EXCEPT !.valid = FALSE], Good("frame", 0),
        Good("frame", MaxFrame + 1), Good("hello", 1),
        [Good("frame", 1) EXCEPT !.fits = FALSE]}

BadHello == {Good("hello", 0), Good("hello", MaxHello + 1), Good("frame", 2),
             [Good("hello", 1) EXCEPT !.valid = FALSE], [Good("hello", 1) EXCEPT !.fits = FALSE]}

MCStreams ==
    {<<x>> : x \in BadHello}
    \cup {<<Good("hello", h)>> \o <<x>> \o <<y>> :
            h \in 1..MaxHello, x \in {Good("frame", n) : n \in 1..MaxFrame},
            y \in {Good("frame", n) : n \in {1, MaxFrame}} \cup Bad}
=============================================================================
