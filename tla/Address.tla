------------------------------ MODULE Address ------------------------------
(***************************************************************************)
(* Positional addresses (address.rs): an ordered, gap-tolerant subset of   *)
(* the levels space, tab, window, frame, pane, each with a one-based       *)
(* index.  An address is the function from levels to indices, 0 where the  *)
(* level is omitted; a parsed text is a sequence of <<level, index>>       *)
(* segments, which the text s2t2w3f1p2 spells one by one.                  *)
(***************************************************************************)
EXTENDS Naturals, Sequences, FiniteSets

CONSTANT MaxIndex     \* the largest index of the instance (u32 in the code)

ASSUME AddressAssumption == MaxIndex \in Nat

Level == 1..5
Space == 1
Tab == 2
Window == 3
Frame == 4
Pane == 5

Address == [Level -> 0..MaxIndex]

Nowhere == [l \in Level |-> 0]

Segment == Level \X (0..MaxIndex)

\* Address::new: one-based indices, in containment order with no repeats.
WellFormed(segments) ==
  /\ \A n \in DOMAIN segments : segments[n][2] > 0
  /\ \A m, n \in DOMAIN segments : m < n => segments[m][1] < segments[n][1]

AddressOf(segments) ==
  [l \in Level |-> IF \E n \in DOMAIN segments : segments[n][1] = l
                   THEN segments[CHOOSE n \in DOMAIN segments : segments[n][1] = l][2]
                   ELSE 0]

Named(a) == {l \in Level : a[l] # 0}

\* to_string: the segments in containment order.
Rendered(a) ==
  LET nth(n) == CHOOSE l \in Named(a) : Cardinality({m \in Named(a) : m <= l}) = n
  IN [n \in 1..Cardinality(Named(a)) |-> <<nth(n), a[nth(n)]>>]

\* satisfies: what the pattern omits is a wildcard.
Satisfies(a, pattern) == \A l \in Named(pattern) : a[l] = pattern[l]

\* shared_prefix: how many leading levels both name, with the same index.
SharedPrefix(a, b) ==
  CHOOSE n \in 0..5 :
    /\ \A l \in 1..n : a[l] # 0 /\ a[l] = b[l]
    /\ n = 5 \/ a[n + 1] = 0 \/ a[n + 1] # b[n + 1]

\* is_instance_unique, without the space: a number that survives a move.
Stable == {Window, Frame, Pane}

Only(a, l) == [Nowhere EXCEPT ![l] = a[l]]

\* stable_anchor: the innermost segment that survives a move; Nowhere if there is none.
StableAnchor(a) ==
  LET stable == Named(a) \cap Stable
  IN IF stable = {} THEN Nowhere
     ELSE Only(a, CHOOSE l \in stable : \A m \in stable : m <= l)

Overlap(prefix, suffix) == \E l \in Named(prefix), m \in Named(suffix) : m <= l

\* join: a host's levels, extended by what a nested runtime adds.
Join(prefix, suffix) == [l \in Level |-> IF prefix[l] # 0 THEN prefix[l] ELSE suffix[l]]

\* The levels of an address past its window.
PastWindow(a) == [l \in Level |-> IF l > Window THEN a[l] ELSE 0]
=============================================================================
