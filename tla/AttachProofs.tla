---------------------------- MODULE AttachProofs ----------------------------
(***************************************************************************)
(* Proofs about sends with attachments: references of accepted messages     *)
(* name copies that exist, and a failure loses one copy at most.            *)
(***************************************************************************)
EXTENDS Attach, FiniteSetTheorems, SequenceTheorems, TLAPS

\* ref names a copy of the bytes that ref stands for, and if its window still had
\* the session it was asked for, that copy was committed on p.
Holds(p, ref) ==
    /\ ref.path \in Paths
    /\ copies[ref.path].content = ref.content
    /\ copies[ref.path].same => copies[ref.path].peer = p

\* An anchor of a lease of p names a session that went to p, whether it is over
\* or not.
Anchored(p, a) ==
    a # NoAnchor => /\ a.nth =< session[a.window].nth
                    /\ a.nth = session[a.window].nth => session[a.window].peer = p

AnchorsHold == \A p \in Peers : Anchored(p, anchor[p])

\* What a record and a run that has just made a copy would refer to.
RecordRef(s) == [path |-> record[s].path, content |-> record[s].content]
DroppedRef(q) == [path |-> q.path, content |-> q.local[Len(q.refs) + 1]]

RecordsHold == \A s \in Slots : record[s] # NoRecord => Holds(record[s].peer, RecordRef(s))

RefsHold(p, refs) == p \in Peers => \A i \in 1..Len(refs) : Holds(p, refs[i])

\* A run is where it says, and what it holds of peers is there.
GoodRun(q) ==
    /\ Progress(q)
    /\ q.copied \subseteq Paths
    /\ RefsHold(q.peer, q.refs)
    /\ Anchored(q.peer, q.anchor)
    /\ q.at = "record" => Holds(q.peer, DroppedRef(q))

RunsHold == \A r \in Runs : GoodRun(run[r])

MessagesHold ==
    \A k \in Keys : Accepted(k) /\ sent[k].peer \in Peers =>
        \A i \in Positions : Holds(sent[k].peer, sent[k].refs[i])

Sound == TypeOK /\ RecordsHold /\ RunsHold /\ MessagesHold /\ AnchorsHold

-----------------------------------------------------------------------------
\* Copies are only added, one by one, and a window never gets a session back.
CopyMade ==
    \E copy \in Copy : Len(copies) < MaxCopies /\ copies' = Append(copies, copy)

SessionsMove ==
    \A w \in Windows : session'[w] = session[w] \/ session'[w].nth = session[w].nth + 1

CopiesGrow == (UNCHANGED copies \/ CopyMade) /\ SessionsMove

LEMMA Counted == Last \in Nat \ {0} /\ Positions = 1..Last
  BY AttachAssumption DEF Last

\* What a copy that exists holds is never taken back.
LEMMA CopiesStay ==
    ASSUME TypeOK, CopiesGrow
    PROVE  /\ copies' \in Seq(Copy) /\ Len(copies') <= MaxCopies
           /\ Len(copies) <= Len(copies') /\ Paths \subseteq Paths'
           /\ \A i \in Paths : copies'[i] = copies[i]
  <1>1. copies \in Seq(Copy) /\ Len(copies) \in Nat /\ Len(copies) <= MaxCopies
    BY DEF TypeOK
  <1>2. CASE UNCHANGED copies
    BY <1>1, <1>2 DEF Paths
  <1>3. CASE CopyMade
    <2>1. PICK copy \in Copy : Len(copies) < MaxCopies /\ copies' = Append(copies, copy)
      BY <1>3 DEF CopyMade
    <2>2. /\ copies' \in Seq(Copy) /\ Len(copies') = Len(copies) + 1
          /\ \A i \in 1..Len(copies) : copies'[i] = copies[i]
      BY <1>1, <2>1
    <2> QED
      BY <1>1, <2>1, <2>2, AttachAssumption DEF Paths
  <1> QED
    BY <1>2, <1>3 DEF CopiesGrow

LEMMA HoldsStays ==
    ASSUME TypeOK, CopiesGrow,
           NEW p, NEW ref, Holds(p, ref)
    PROVE  Holds(p, ref)'
  BY CopiesStay DEF Holds

LEMMA AnchoredStays ==
    ASSUME TypeOK, CopiesGrow, NEW p, NEW a \in Anchors \cup {NoAnchor}, Anchored(p, a)
    PROVE  Anchored(p, a)'
  <1> SUFFICES ASSUME a # NoAnchor
               PROVE  /\ a.nth =< session'[a.window].nth
                      /\ a.nth = session'[a.window].nth => session'[a.window].peer = p
    BY DEF Anchored
  <1>1. a.window \in Windows /\ a.nth \in Nat /\ session[a.window].nth \in Nat
    BY AttachAssumption DEF TypeOK, Anchors
  <1>2. /\ a.nth =< session[a.window].nth
        /\ a.nth = session[a.window].nth => session[a.window].peer = p
    BY DEF Anchored
  <1>3. \/ session'[a.window] = session[a.window]
        \/ session'[a.window].nth = session[a.window].nth + 1
    BY <1>1 DEF CopiesGrow, SessionsMove
  <1> QED
    BY <1>1, <1>2, <1>3

LEMMA GoodStays ==
    ASSUME TypeOK, CopiesGrow, NEW q \in RunState, GoodRun(q)
    PROVE  GoodRun(q)'
  <1>1. q.copied \subseteq Paths'
    BY CopiesStay DEF GoodRun
  <1>2. RefsHold(q.peer, q.refs)'
    BY HoldsStays DEF GoodRun, RefsHold
  <1>3. q.at = "record" => Holds(q.peer, DroppedRef(q))'
    BY HoldsStays DEF GoodRun
  <1>4. Anchored(q.peer, q.anchor)'
    BY AnchoredStays DEF GoodRun, RunState
  <1> QED
    BY <1>1, <1>2, <1>3, <1>4 DEF GoodRun

-----------------------------------------------------------------------------
\* A step of a process gives its run a good state.
Becomes(r, q) == q \in RunState /\ run' = [run EXCEPT ![r] = q]

Moves(r) == \E q : Becomes(r, q) /\ GoodRun(q)'

LEMMA RunTyped ==
    ASSUME TypeOK, NEW r \in Runs
    PROVE  run[r] \in RunState /\ Progress(run[r]) /\ run[r].copied \subseteq Paths
  BY DEF TypeOK

LEMMA EndsMoves ==
    ASSUME TypeOK, NEW r \in Runs, NEW result \in {"none", "refused", "unavailable", "mismatch",
               "drop_failed", "record_failed", "replayed", "conflict", "accepted"},
           Ends(r, result)
    PROVE  Moves(r)
  <1> PICK q : q = [Idle EXCEPT !.result = result]
    OBVIOUS
  <1>1. q \in RunState
    <2>1. << >> \in Seq(Contents) /\ << >> \in Seq(Refs) /\ 0 \in 0..MaxCopies
      BY AttachAssumption
    <2> QED
      BY <2>1 DEF Idle, RunState
  <1>2. GoodRun(q)'
    <2>1. q.at = "idle" /\ q.path = 0 /\ q.refs = << >> /\ q.copied = {} /\ q.anchor = NoAnchor
      BY DEF Idle
    <2> QED
      BY <2>1 DEF GoodRun, Progress, RefsHold, Anchored
  <1> QED
    BY <1>1, <1>2 DEF Ends, Moves, Becomes

LEMMA BeginMoves ==
    ASSUME TypeOK, NEW r \in Runs, NEW k \in Keys, NEW p \in Peers \cup {Here}, Begin(r, k, p)
    PROVE  Moves(r)
  <1> PICK q : q = [Idle EXCEPT !.at = "read", !.key = k, !.peer = p]
    OBVIOUS
  <1>1. q \in RunState
    <2>1. << >> \in Seq(Contents) /\ << >> \in Seq(Refs) /\ 0 \in 0..MaxCopies
      BY AttachAssumption
    <2> QED
      BY <2>1 DEF Idle, RunState
  <1>2. GoodRun(q)'
    <2>1. /\ q.at = "read" /\ q.path = 0 /\ q.refs = << >> /\ q.copied = {} /\ q.key \in Keys
          /\ q.local = << >> /\ q.anchor = NoAnchor
      BY DEF Idle
    <2> QED
      BY <2>1, Counted DEF GoodRun, Progress, RefsHold, Anchored
  <1> QED
    BY <1>1, <1>2 DEF Begin, Moves, Becomes

LEMMA ReadMoves ==
    ASSUME TypeOK, RunsHold, NEW r \in Runs, ReadFile(r)
    PROVE  Moves(r)
  <1> DEFINE i == Len(run[r].local) + 1
             after == IF i < Last THEN "read"
                      ELSE IF run[r].peer = Here THEN "send" ELSE "carrier"
             refs == IF run[r].peer = Here
                     THEN Append(run[r].refs, [path |-> 0, content |-> file[i]])
                     ELSE run[r].refs
  <1> PICK q : q = [run[r] EXCEPT !.local = Append(@, file[i]), !.refs = refs, !.at = after]
    OBVIOUS
  <1>1. /\ run[r] \in RunState /\ run[r].at = "read" /\ run[r].key \in Keys /\ run[r].path = 0
        /\ Len(run[r].local) < Last /\ run[r].local \in Seq(Contents) /\ run[r].refs \in Seq(Refs)
        /\ Len(run[r].refs) = IF run[r].peer = Here THEN Len(run[r].local) ELSE 0
        /\ run[r].copied \subseteq Paths
    BY RunTyped DEF ReadFile, Goes, Progress, RunState
  <1>2. i \in Positions /\ file[i] \in Contents
    BY <1>1, Counted DEF TypeOK
  <1>3. [path |-> 0, content |-> file[i]] \in Refs
    BY <1>2, AttachAssumption DEF Refs
  <1>4. /\ Append(run[r].local, file[i]) \in Seq(Contents)
        /\ Len(Append(run[r].local, file[i])) = i
    BY <1>1, <1>2
  <1>5. refs \in Seq(Refs) /\ Len(refs) = IF run[r].peer = Here THEN i ELSE 0
    BY <1>1, <1>3
  <1>6. q \in RunState
    <2>1. after \in {"read", "send", "carrier"}
      OBVIOUS
    <2> HIDE DEF i, refs, after
    <2> QED
      BY <1>1, <1>4, <1>5, <2>1 DEF RunState
  <1>7. run' = [run EXCEPT ![r] = q]
    BY <1>1 DEF ReadFile, Reading, TypeOK
  <1>8. /\ q.local = Append(run[r].local, file[i]) /\ q.refs = refs /\ q.at = after
        /\ q.peer = run[r].peer /\ q.key = run[r].key /\ q.path = 0 /\ q.copied = run[r].copied
        /\ q.anchor = run[r].anchor
    BY <1>1 DEF RunState
  <1>9. Progress(q)
    <2> HIDE DEF refs
    <2> QED
      BY <1>1, <1>4, <1>5, <1>8, Counted DEF Progress
  <1>10. RefsHold(q.peer, q.refs)'
    BY <1>5, <1>8, AttachAssumption DEF RefsHold
  <1>11. Anchored(q.peer, q.anchor)'
    BY <1>8 DEF RunsHold, GoodRun, ReadFile, Anchored
  <1>12. GoodRun(q)'
    BY <1>1, <1>8, <1>9, <1>10, <1>11 DEF GoodRun, ReadFile, Paths
  <1> QED
    BY <1>6, <1>7, <1>12 DEF Moves, Becomes

LEMMA CarrierMoves ==
    ASSUME TypeOK, RunsHold, AnchorsHold, NEW r \in Runs, Carrier(r)
    PROVE  Moves(r)
  <1>1. CASE anchor[run[r].peer] # NoAnchor
    <2> PICK q : q = [run[r] EXCEPT !.at = "lookup", !.anchor = anchor[run[r].peer]]
      OBVIOUS
    <2>1. run[r] \in RunState /\ GoodRun(run[r]) /\ run[r].at = "carrier"
      BY RunTyped DEF Carrier, Goes, RunsHold
    <2>2. run[r].peer \in Peers /\ anchor[run[r].peer] \in Anchors
      BY <1>1, <2>1 DEF GoodRun, Progress, RunState, TypeOK
    <2>3. q \in RunState /\ run' = [run EXCEPT ![r] = q]
      BY <1>1, <2>1, <2>2 DEF Carrier, RunState, TypeOK
    <2>4. /\ q.at = "lookup" /\ q.local = run[r].local /\ q.refs = run[r].refs
          /\ q.peer = run[r].peer /\ q.key = run[r].key /\ q.path = run[r].path
          /\ q.copied = run[r].copied /\ q.anchor = anchor[run[r].peer]
      BY <2>1 DEF RunState
    <2>5. Anchored(q.peer, q.anchor)
      BY <2>2, <2>4 DEF AnchorsHold
    <2>6. GoodRun(q)
      BY <1>1, <2>1, <2>4, <2>5 DEF GoodRun, Progress
    <2>7. CopiesGrow
      BY DEF Carrier, CopiesGrow, SessionsMove
    <2>8. GoodRun(q)'
      BY <2>3, <2>6, <2>7, GoodStays
    <2> QED
      BY <2>3, <2>8 DEF Moves, Becomes
  <1>2. CASE anchor[run[r].peer] = NoAnchor
    BY <1>2, EndsMoves DEF Carrier
  <1> QED
    BY <1>1, <1>2

\* A copy that holds what this run read may be referred to.
LEMMA ReferMoves ==
    ASSUME TypeOK, RunsHold, NEW r \in Runs, NEW path, Refer(r, path), UNCHANGED <<copies, session>>,
           run[r].at \in {"lookup", "record"},
           Holds(run[r].peer, [path |-> path, content |-> run[r].local[Position(r)]])
    PROVE  Moves(r)
  <1> DEFINE i == Position(r)
             ref == [path |-> path, content |-> run[r].local[i]]
  <1> PICK q : q = [run[r] EXCEPT !.refs = Append(@, ref), !.copied = @ \cup {path}, !.path = 0,
                                  !.at = IF i < Last THEN "lookup" ELSE "send"]
    OBVIOUS
  <1>1. /\ run[r] \in RunState /\ run[r].key \in Keys /\ run[r].peer \in Peers
        /\ run[r].local \in Seq(Contents) /\ Len(run[r].local) = Last
        /\ run[r].refs \in Seq(Refs) /\ Len(run[r].refs) < Last
        /\ run[r].copied \subseteq Paths /\ run[r].anchor # NoAnchor
    BY RunTyped DEF Progress, RunState
  <1>2. i \in 1..Last /\ i = Len(run[r].refs) + 1
    BY <1>1, Counted DEF Position
  <1>3. path \in Paths /\ path \in 1..MaxCopies
    BY AttachAssumption DEF Holds, Paths, TypeOK
  <1>4. run[r].local[i] \in Contents
    BY <1>1, <1>2
  <1>5. ref \in Refs
    BY <1>3, <1>4, AttachAssumption DEF Refs
  <1>6. /\ Append(run[r].refs, ref) \in Seq(Refs) /\ Len(Append(run[r].refs, ref)) = i
        /\ \A j \in 1..i : Append(run[r].refs, ref)[j] = IF j = i THEN ref ELSE run[r].refs[j]
    BY <1>1, <1>2, <1>5
  <1>7. run[r].copied \cup {path} \in SUBSET (1..MaxCopies) /\ 0 \in 0..MaxCopies
    BY <1>1, <1>3, AttachAssumption DEF RunState
  <1>8. q \in RunState
    BY <1>1, <1>6, <1>7 DEF RunState
  <1>9. run' = [run EXCEPT ![r] = q]
    BY <1>1 DEF Refer, TypeOK
  <1>10. /\ q.local = run[r].local /\ q.refs = Append(run[r].refs, ref)
         /\ q.at = IF i < Last THEN "lookup" ELSE "send"
         /\ q.peer = run[r].peer /\ q.key = run[r].key /\ q.path = 0
         /\ q.copied = run[r].copied \cup {path} /\ q.anchor = run[r].anchor
    BY <1>1 DEF RunState
  <1>11. Progress(q)
    <2>1. Here # run[r].peer /\ i \in Nat /\ (~(i < Last) => i = Last)
      BY <1>1, <1>2, Counted, AttachAssumption
    <2> QED
      BY <1>1, <1>6, <1>10, <2>1, Counted DEF Progress
  <1>12. RefsHold(q.peer, q.refs)
    <2>1. RefsHold(run[r].peer, run[r].refs)
      BY DEF RunsHold, GoodRun
    <2>2. ASSUME NEW j \in 1..i PROVE Holds(run[r].peer, Append(run[r].refs, ref)[j])
      BY <1>1, <1>2, <1>6, <2>1 DEF RefsHold
    <2> QED
      BY <1>6, <1>10, <2>2 DEF RefsHold
  <1>13. GoodRun(q)
    BY <1>1, <1>3, <1>10, <1>11, <1>12 DEF GoodRun, RunsHold
  <1>14. CopiesGrow
    BY DEF CopiesGrow, SessionsMove
  <1> QED
    BY <1>8, <1>9, <1>13, <1>14, GoodStays DEF Moves, Becomes

LEMMA LookupMoves ==
    ASSUME TypeOK, RunsHold, RecordsHold, NEW r \in Runs, Lookup(r)
    PROVE  Moves(r)
  <1>1. CASE Reusable(r)
    <2> DEFINE s == <<run[r].key, Position(r)>>
    <2>1. run[r].at = "lookup" /\ UNCHANGED <<copies, session>> /\ Refer(r, record[s].path)
      BY <1>1 DEF Lookup, Goes
    <2>2. run[r] \in RunState /\ run[r].key \in Keys /\ Len(run[r].refs) < Last
      BY <2>1, RunTyped DEF Progress
    <2>3. Position(r) \in Positions
      BY <2>2, Counted DEF Position, RunState
    <2>4. s \in Slots
      BY <2>2, <2>3 DEF Slots
    <2>5. Holds(run[r].peer, [path |-> record[s].path, content |-> run[r].local[Position(r)]])
      BY <1>1, <2>4 DEF Reusable, RecordsHold, RecordRef
    <2> QED
      BY <2>1, <2>5, ReferMoves
  <1>2. CASE ~Reusable(r)
    <2> PICK q : q = [run[r] EXCEPT !.at = "drop"]
      OBVIOUS
    <2>1. run[r] \in RunState /\ GoodRun(run[r]) /\ run[r].at = "lookup"
      BY RunTyped DEF Lookup, Goes, RunsHold
    <2>2. q \in RunState /\ run' = [run EXCEPT ![r] = q]
      BY <1>2, <2>1 DEF Lookup, RunState, TypeOK
    <2>3. /\ q.at = "drop" /\ q.local = run[r].local /\ q.refs = run[r].refs
          /\ q.peer = run[r].peer /\ q.key = run[r].key /\ q.path = run[r].path
          /\ q.copied = run[r].copied /\ q.anchor = run[r].anchor
      BY <2>1 DEF RunState
    <2>4. GoodRun(q)
      BY <2>1, <2>3 DEF GoodRun, Progress
    <2>5. CopiesGrow
      BY DEF Lookup, CopiesGrow, SessionsMove
    <2>6. GoodRun(q)'
      BY <2>2, <2>4, <2>5, GoodStays
    <2> QED
      BY <2>2, <2>6 DEF Moves, Becomes
  <1> QED
    BY <1>1, <1>2

\* What a drop commits holds what the file held, and is on the run's peer if the
\* window still had the session of the anchor.
LEMMA CommitsCopy ==
    ASSUME TypeOK, RunsHold, NEW r \in Runs, Goes(r, "drop"), Commits(r)
    PROVE  /\ CopyMade
           /\ Len(copies') = Len(copies) + 1 /\ Len(copies') \in 1..MaxCopies
           /\ copies'[Len(copies')].content = file[Position(r)]
           /\ copies'[Len(copies')].same => copies'[Len(copies')].peer = run[r].peer
  <1> DEFINE now == session[run[r].anchor.window]
             copy == [peer |-> now.peer, content |-> file[Position(r)],
                      same |-> now.nth = run[r].anchor.nth]
  <1>1. /\ run[r] \in RunState /\ Len(run[r].refs) < Last /\ run[r].peer \in Peers
        /\ run[r].anchor # NoAnchor /\ run[r].anchor \in Anchors
    BY RunTyped DEF Goes, Progress, RunState
  <1>2. Position(r) \in Positions /\ file[Position(r)] \in Contents
    BY <1>1, Counted DEF Position, RunState, TypeOK
  <1>3. copies \in Seq(Copy) /\ Len(copies) \in Nat
    BY DEF TypeOK
  <1>4. now \in [peer : Peers, nth : 1..changes + 1]
    BY <1>1 DEF TypeOK, Anchors
  <1>5. copy \in Copy
    BY <1>2, <1>4 DEF Copy
  <1>6. copy.same => copy.peer = run[r].peer
    BY <1>1 DEF RunsHold, GoodRun, Anchored
  <1>7. Len(copies) < MaxCopies /\ copies' = Append(copies, copy)
    BY DEF Commits
  <1>8. copy.content = file[Position(r)]
    OBVIOUS
  <1> HIDE DEF copy
  <1> QED
    BY <1>3, <1>5, <1>6, <1>7, <1>8, AttachAssumption DEF CopyMade

LEMMA DropMoves ==
    ASSUME TypeOK, RunsHold, NEW r \in Runs, DropFile(r)
    PROVE  Moves(r)
  <1>1. Goes(r, "drop") /\ Commits(r)
    BY DEF DropFile
  <1>2. CASE file[Position(r)] = run[r].local[Position(r)]
    <2> PICK q : q = [run[r] EXCEPT !.path = Len(copies'), !.at = "record"]
      OBVIOUS
    <2>1. run[r] \in RunState /\ GoodRun(run[r]) /\ run[r].at = "drop"
      BY <1>1, RunTyped DEF Goes, RunsHold
    <2>2. Len(copies') \in 1..MaxCopies /\ Len(copies') \in 0..MaxCopies
      <3>1. Len(copies') \in 1..MaxCopies
        BY <1>1, CommitsCopy
      <3> QED
        BY <3>1, AttachAssumption
    <2>3. q \in RunState
      BY <2>1, <2>2 DEF RunState
    <2>4. run' = [run EXCEPT ![r] = q]
      BY <1>2, <2>1 DEF DropFile, TypeOK
    <2>5. /\ q.at = "record" /\ q.local = run[r].local /\ q.refs = run[r].refs
          /\ q.peer = run[r].peer /\ q.key = run[r].key /\ q.path = Len(copies')
          /\ q.copied = run[r].copied /\ q.anchor = run[r].anchor
      BY <2>1 DEF RunState
    <2>6. Progress(q)
      BY <2>1, <2>5 DEF GoodRun, Progress
    <2> PICK old : old = run[r]
      OBVIOUS
    <2>7. GoodRun(old)'
      <3>1. CopyMade
        BY <1>1, CommitsCopy
      <3>2. CopiesGrow
        BY <3>1 DEF DropFile, CopiesGrow, SessionsMove
      <3> QED
        BY <2>1, <3>2, GoodStays
    <2>8. Holds(q.peer, DroppedRef(q))'
      <3>1. DroppedRef(q) = [path |-> Len(copies'), content |-> run[r].local[Position(r)]]
        BY <2>5 DEF DroppedRef, Position
      <3>2. /\ copies'[Len(copies')].content = file[Position(r)]
            /\ copies'[Len(copies')].same => copies'[Len(copies')].peer = run[r].peer
        BY <1>1, CommitsCopy
      <3>3. Len(copies') \in 1..Len(copies')
        BY <2>2
      <3> QED
        BY <1>2, <2>5, <3>1, <3>2, <3>3 DEF Holds, Paths
    <2>9. GoodRun(q)'
      BY <2>5, <2>6, <2>7, <2>8 DEF GoodRun
    <2> QED
      BY <2>3, <2>4, <2>9 DEF Moves, Becomes
  <1>3. CASE file[Position(r)] # run[r].local[Position(r)]
    BY <1>3, EndsMoves DEF DropFile
  <1> QED
    BY <1>2, <1>3

LEMMA RecordMoves ==
    ASSUME TypeOK, RunsHold, NEW r \in Runs, RecordAttachment(r)
    PROVE  Moves(r)
  <1>1. run[r].at = "record" /\ UNCHANGED <<copies, session>> /\ Refer(r, run[r].path)
    BY DEF RecordAttachment, Goes
  <1>2. Holds(run[r].peer, [path |-> run[r].path, content |-> run[r].local[Position(r)]])
    BY <1>1 DEF RunsHold, GoodRun, DroppedRef, Position
  <1> QED
    BY <1>1, <1>2, ReferMoves

LEMMA StepMoves ==
    ASSUME TypeOK, RecordsHold, RunsHold, AnchorsHold, NEW r \in Runs, Step(r)
    PROVE  Moves(r) /\ CopiesGrow
  <1>1. CASE \E k \in Keys, p \in Peers \cup {Here} : Begin(r, k, p)
    BY <1>1, BeginMoves DEF Begin, CopiesGrow, SessionsMove
  <1>2. CASE ReadFile(r)
    BY <1>2, ReadMoves DEF ReadFile, CopiesGrow, SessionsMove
  <1>3. CASE Refused(r)
    BY <1>3, EndsMoves DEF Refused, CopiesGrow, SessionsMove
  <1>4. CASE Carrier(r)
    BY <1>4, CarrierMoves DEF Carrier, CopiesGrow, SessionsMove
  <1>5. CASE Lookup(r)
    BY <1>5, LookupMoves DEF Lookup, CopiesGrow, SessionsMove
  <1>6. CASE DropFile(r)
    BY <1>6, DropMoves, CommitsCopy DEF DropFile, CopiesGrow, SessionsMove
  <1>7. CASE DropFails(r)
    BY <1>7, EndsMoves DEF DropFails, CopiesGrow, SessionsMove
  <1>8. CASE DropUnreported(r)
    BY <1>8, EndsMoves, CommitsCopy DEF DropUnreported, CopiesGrow, SessionsMove
  <1>9. CASE RecordAttachment(r)
    BY <1>9, RecordMoves DEF RecordAttachment, CopiesGrow, SessionsMove
  <1>10. CASE RecordFails(r)
    BY <1>10, EndsMoves DEF RecordFails, CopiesGrow, SessionsMove
  <1>11. CASE Send(r)
    <2>1. Ends(r, "replayed") \/ Ends(r, "conflict") \/ Ends(r, "accepted")
      BY <1>11 DEF Send
    <2> QED
      BY <1>11, <2>1, EndsMoves DEF Send, CopiesGrow, SessionsMove
  <1>12. CASE SendRefused(r)
    BY <1>12, EndsMoves DEF SendRefused, CopiesGrow, SessionsMove
  <1>13. CASE Dies(r)
    <2>1. Ends(r, "none")
      BY <1>13 DEF Dies, Ends, Idle
    <2> QED
      BY <1>13, <2>1, EndsMoves DEF Dies, CopiesGrow, SessionsMove
  <1> QED
    BY <1>1, <1>2, <1>3, <1>4, <1>5, <1>6, <1>7, <1>8, <1>9, <1>10, <1>11, <1>12, <1>13 DEF Step

\* What holds of a state a run comes to be in holds of the run.
LEMMA GoodRunIs ==
    ASSUME NEW b \in Runs, NEW q, run'[b] = q, GoodRun(q)'
    PROVE  GoodRun(run[b])'
  <1>1. /\ Progress(q) /\ q.copied \subseteq Paths' /\ RefsHold(q.peer, q.refs)'
        /\ Anchored(q.peer, q.anchor)' /\ (q.at = "record" => Holds(q.peer, DroppedRef(q))')
    BY DEF GoodRun, Progress, DroppedRef
  <1>2. Progress(run[b])'
    BY <1>1 DEF Progress
  <1>3. (run[b].copied \subseteq Paths)'
    BY <1>1 DEF Paths
  <1>4. RefsHold(run[b].peer, run[b].refs)'
    BY <1>1 DEF RefsHold, Holds, Paths
  <1>5. Anchored(run[b].peer, run[b].anchor)'
    BY <1>1 DEF Anchored
  <1>6. (run[b].at = "record" => Holds(run[b].peer, DroppedRef(run[b])))'
    BY <1>1 DEF Holds, Paths, DroppedRef
  <1> QED
    BY <1>2, <1>3, <1>4, <1>5, <1>6 DEF GoodRun

LEMMA RunsStep ==
    ASSUME Sound, [Next]_vars
    PROVE  /\ CopiesGrow
           /\ run' \in [Runs -> RunState]
           /\ RunsHold'
  <1>1. TypeOK /\ RecordsHold /\ RunsHold /\ AnchorsHold /\ run \in [Runs -> RunState]
    BY DEF Sound, TypeOK
  <1>2. CASE \E r \in Runs : Step(r)
    <2>1. PICK r \in Runs : Moves(r) /\ CopiesGrow
      BY <1>1, <1>2, StepMoves
    <2>2. PICK q : Becomes(r, q) /\ GoodRun(q)'
      BY <2>1 DEF Moves
    <2>3. ASSUME NEW b \in Runs PROVE GoodRun(run[b])'
      <3>1. CASE b = r
        <4>1. run'[b] = q
          BY <1>1, <2>2, <3>1 DEF Becomes
        <4> QED
          BY <2>2, <4>1, GoodRunIs
      <3>2. CASE b # r
        <4> PICK old : old = run[b]
          OBVIOUS
        <4>1. run'[b] = old
          BY <1>1, <2>2, <3>2 DEF Becomes
        <4>2. GoodRun(old)'
          BY <1>1, <2>1, GoodStays DEF RunsHold
        <4> QED
          BY <4>1, <4>2, GoodRunIs
      <3> QED
        BY <3>1, <3>2
    <2> QED
      BY <1>1, <2>1, <2>2, <2>3 DEF Becomes, RunsHold
  <1>3. ASSUME UNCHANGED <<copies, run>>, SessionsMove
        PROVE  CopiesGrow /\ run' \in [Runs -> RunState] /\ RunsHold'
    <2>1. CopiesGrow
      BY <1>3 DEF CopiesGrow
    <2>2. ASSUME NEW b \in Runs PROVE GoodRun(run[b])'
      <3> PICK old : old = run[b]
        OBVIOUS
      <3>1. run'[b] = old /\ old \in RunState /\ GoodRun(old)
        BY <1>1, <1>3 DEF RunsHold
      <3>2. GoodRun(old)'
        BY <1>1, <2>1, <3>1, GoodStays
      <3> QED
        BY <3>1, <3>2, GoodRunIs
    <2> QED
      BY <1>1, <1>3, <2>1, <2>2 DEF RunsHold
  <1>4. ASSUME NEW w \in Windows, NEW p \in Peers, NewSession(w, p)
        PROVE  SessionsMove
    BY <1>1, <1>4 DEF NewSession, SessionsMove, TypeOK
  <1>5. UNCHANGED session => SessionsMove
    BY DEF SessionsMove
  <1> QED
    BY <1>2, <1>3, <1>4, <1>5 DEF Next, vars, Edit, NewSession, Acquire, Release, Ages

-----------------------------------------------------------------------------
\* The tables: a record and a message are written from what a run holds.
Row == [peer : Peers, content : Contents, path : Paths, aged : BOOLEAN]

RowHolds(row) == Holds(row.peer, [path |-> row.path, content |-> row.content])

LEMMA RowStays ==
    ASSUME TypeOK, CopiesGrow, NEW row \in Row, RowHolds(row)
    PROVE  row \in Row' /\ RowHolds(row)'
  <1>1. row \in Row'
    BY CopiesStay DEF Row
  <1>2. RowHolds(row)'
    BY HoldsStays DEF RowHolds
  <1> QED
    BY <1>1, <1>2

\* A new table of records is good when each of its rows is, or was.
LEMMA RecordsFrom ==
    ASSUME Sound, CopiesGrow, NEW new,
           new \in [Slots -> {NoRecord} \cup Row],
           \A s \in Slots : new[s] = NoRecord \/ RowHolds(new[s]),
           record' = new
    PROVE  /\ record' \in [Slots -> {NoRecord} \cup Row']
           /\ RecordsHold'
  <1>1. ASSUME NEW s \in Slots, new[s] # NoRecord
        PROVE  new[s] \in Row' /\ RowHolds(new[s])'
    <2>1. new[s] \in Row /\ RowHolds(new[s])
      BY <1>1
    <2> PICK row : row = new[s]
      OBVIOUS
    <2> QED
      BY <2>1, RowStays DEF Sound
  <1>2. ASSUME NEW s \in Slots, record'[s] # NoRecord
        PROVE  Holds(record[s].peer, RecordRef(s))'
    BY <1>1, <1>2 DEF RowHolds, RecordRef
  <1> QED
    BY <1>1, <1>2 DEF RecordsHold

LEMMA RecordsStep ==
    ASSUME Sound, [Next]_vars
    PROVE  /\ record' \in [Slots -> {NoRecord} \cup Row']
           /\ RecordsHold'
  <1>1. CopiesGrow
    BY RunsStep
  <1>2. /\ record \in [Slots -> {NoRecord} \cup Row]
        /\ \A s \in Slots : record[s] = NoRecord \/ RowHolds(record[s])
    BY DEF Sound, TypeOK, Row, RecordsHold, RecordRef, RowHolds
  <1>3. CASE UNCHANGED record
    <2> PICK new : new = record
      OBVIOUS
    <2> QED
      BY <1>1, <1>2, <1>3, RecordsFrom
  <1>4. ASSUME NEW s \in Slots, Ages(s)
        PROVE  /\ record' \in [Slots -> {NoRecord} \cup Row']
               /\ RecordsHold'
    <2> PICK new : new = [record EXCEPT ![s].aged = TRUE]
      OBVIOUS
    <2>1. record[s] \in Row /\ RowHolds(record[s]) /\ record' = new
      BY <1>2, <1>4 DEF Ages
    <2>2. /\ new[s] = [record[s] EXCEPT !.aged = TRUE]
          /\ \A t \in Slots \ {s} : new[t] = record[t]
          /\ DOMAIN new = Slots /\ new = [t \in Slots |-> new[t]]
      BY <1>2
    <2>3. new[s] \in Row /\ RowHolds(new[s])
      BY <2>1, <2>2 DEF Row, RowHolds
    <2>4. \A t \in Slots : new[t] \in {NoRecord} \cup Row /\ (new[t] = NoRecord \/ RowHolds(new[t]))
      BY <1>2, <2>2, <2>3
    <2>5. new \in [Slots -> {NoRecord} \cup Row]
      BY <2>2, <2>4
    <2> QED
      BY <1>1, <2>1, <2>4, <2>5, RecordsFrom
  <1>5. ASSUME NEW r \in Runs, RecordAttachment(r)
        PROVE  /\ record' \in [Slots -> {NoRecord} \cup Row']
               /\ RecordsHold'
    <2> DEFINE slot == <<run[r].key, Position(r)>>
               row == [peer |-> run[r].peer, content |-> run[r].local[Position(r)],
                       path |-> run[r].path, aged |-> FALSE]
    <2> PICK new : new = [s \in Slots |-> IF s = slot THEN row
                                          ELSE IF record[s].aged THEN NoRecord ELSE record[s]]
      OBVIOUS
    <2>1. record' = new
      BY <1>5 DEF RecordAttachment
    <2>2. run[r] \in RunState /\ GoodRun(run[r]) /\ run[r].at = "record"
      BY <1>5, RunTyped DEF Sound, RunsHold, RecordAttachment, Goes
    <2>3. run[r].peer \in Peers /\ Position(r) \in 1..Len(run[r].local)
      BY <2>2, Counted DEF GoodRun, Progress, RunState, Position
    <2>4. Holds(run[r].peer, DroppedRef(run[r])) /\ run[r].path \in Paths
      BY <2>2 DEF GoodRun, Holds, DroppedRef
    <2>5. row \in Row
      BY <2>2, <2>3, <2>4 DEF Row, RunState
    <2>6. RowHolds(row)
      BY <2>4 DEF RowHolds, DroppedRef, Position
    <2>7. \A t \in Slots : new[t] \in {NoRecord} \cup Row /\ (new[t] = NoRecord \/ RowHolds(new[t]))
      <3> HIDE DEF row, slot
      <3> QED
        BY <1>2, <2>5, <2>6
    <2>8. new \in [Slots -> {NoRecord} \cup Row]
      BY <2>7
    <2> QED
      BY <1>1, <2>1, <2>7, <2>8, RecordsFrom
  <1> QED
    BY <1>3, <1>4, <1>5
    DEF Next, vars, Step, Begin, ReadFile, Refused, Carrier, Lookup, DropFile, DropFails,
        DropUnreported, RecordFails, Send, SendRefused, Dies, Edit, NewSession, Acquire,
        Release

LEMMA MessagesStep ==
    ASSUME Sound, [Next]_vars
    PROVE  /\ sent' \in [Keys -> {NoMessage} \cup [peer : Peers \cup {Here}, refs : [Positions -> Refs]]]
           /\ MessagesHold'
  <1>1. CopiesGrow /\ TypeOK
    BY RunsStep DEF Sound
  <1> DEFINE Good(message) == message.peer \in Peers =>
                \A i \in Positions : Holds(message.peer, message.refs[i])
  <1>2. CASE UNCHANGED sent
    <2>1. ASSUME NEW k \in Keys, Accepted(k), sent[k].peer \in Peers, NEW i \in Positions
          PROVE  Holds(sent[k].peer, sent[k].refs[i])'
      <3> PICK p, ref : p = sent[k].peer /\ ref = sent[k].refs[i]
        OBVIOUS
      <3>1. Holds(p, ref)
        BY <2>1 DEF Sound, MessagesHold
      <3>2. Holds(p, ref)'
        BY <1>1, <3>1, HoldsStays
      <3> QED
        BY <1>2, <3>2 DEF Holds, Paths
    <2> QED
      BY <1>1, <1>2, <2>1 DEF MessagesHold, Accepted, TypeOK
  <1>3. ASSUME NEW r \in Runs, Send(r), ~Accepted(run[r].key)
        PROVE  /\ sent' \in [Keys -> {NoMessage} \cup
                                [peer : Peers \cup {Here}, refs : [Positions -> Refs]]]
               /\ MessagesHold'
    <2> PICK draft : draft = [peer |-> run[r].peer, refs |-> run[r].refs]
      OBVIOUS
    <2>1. /\ run[r] \in RunState /\ GoodRun(run[r]) /\ run[r].at = "send"
          /\ sent' = [sent EXCEPT ![run[r].key] = draft] /\ UNCHANGED copies
      BY <1>1, <1>3, RunTyped DEF Sound, RunsHold, Send, Goes
    <2>2. /\ run[r].key \in Keys /\ run[r].refs \in Seq(Refs) /\ Len(run[r].refs) = Last
          /\ run[r].peer \in Peers \cup {Here}
      BY <2>1 DEF GoodRun, Progress, RunState
    <2>3. run[r].refs \in [Positions -> Refs]
      BY <2>2, Counted
    <2>4. draft.peer \in Peers => \A i \in Positions : Holds(draft.peer, draft.refs[i])
      BY <2>1, <2>2, Counted DEF GoodRun, RefsHold
    <2>5. sent' \in [Keys -> {NoMessage} \cup [peer : Peers \cup {Here}, refs : [Positions -> Refs]]]
      BY <1>1, <2>1, <2>2, <2>3 DEF TypeOK
    <2>6. ASSUME NEW k \in Keys, Accepted(k)', sent'[k].peer \in Peers, NEW i \in Positions
          PROVE  Holds(sent[k].peer, sent[k].refs[i])'
      <3>1. Holds(sent'[k].peer, sent'[k].refs[i])
        BY <1>1, <2>1, <2>2, <2>4, <2>6 DEF Sound, MessagesHold, Accepted, TypeOK
      <3> QED
        BY <2>1, <3>1 DEF Holds, Paths
    <2> QED
      BY <2>5, <2>6 DEF MessagesHold
  <1>4. ASSUME NEW r \in Runs, Send(r), Accepted(run[r].key)
        PROVE  UNCHANGED sent
    BY <1>4 DEF Send
  <1> QED
    BY <1>2, <1>3, <1>4
    DEF Next, vars, Step, Begin, ReadFile, Refused, Carrier, Lookup, DropFile, DropFails,
        DropUnreported, RecordAttachment, RecordFails, SendRefused, Dies, Edit, NewSession, Acquire,
        Release, Ages

-----------------------------------------------------------------------------
\* The other variables.
\* What is in a lease's anchor is the session its bridge runs in.
LEMMA AnchorsStep ==
    ASSUME Sound, [Next]_vars
    PROVE  /\ session' \in [Windows -> [peer : Peers, nth : 1..changes' + 1]]
           /\ anchor' \in [Peers -> Anchors \cup {NoAnchor}]
           /\ AnchorsHold'
  <1>1. /\ session \in [Windows -> [peer : Peers, nth : 1..changes + 1]]
        /\ anchor \in [Peers -> Anchors \cup {NoAnchor}]
        /\ changes \in 0..MaxChanges /\ AnchorsHold /\ TypeOK /\ MaxChanges \in Nat
    BY AttachAssumption DEF Sound, TypeOK
  <1>2. CopiesGrow
    BY RunsStep
  <1>3. ASSUME UNCHANGED anchor
        PROVE  anchor' \in [Peers -> Anchors \cup {NoAnchor}] /\ AnchorsHold'
    <2>1. ASSUME NEW p \in Peers PROVE Anchored(p, anchor[p])'
      <3> PICK a : a = anchor[p]
        OBVIOUS
      <3>1. a \in Anchors \cup {NoAnchor} /\ Anchored(p, a)
        BY <1>1 DEF AnchorsHold
      <3>2. Anchored(p, a)'
        BY <1>1, <1>2, <3>1, AnchoredStays
      <3> QED
        BY <1>3, <3>2 DEF Anchored
    <2> QED
      BY <1>1, <1>3, <2>1 DEF AnchorsHold
  <1>4. ASSUME NEW w \in Windows, NEW p \in Peers, NewSession(w, p)
        PROVE  session' \in [Windows -> [peer : Peers, nth : 1..changes' + 1]]
    <2> PICK s : s = [peer |-> p, nth |-> session[w].nth + 1]
      OBVIOUS
    <2>1. changes' = changes + 1 /\ session' = [session EXCEPT ![w] = s]
      BY <1>4 DEF NewSession
    <2>2. s \in [peer : Peers, nth : 1..changes' + 1]
      BY <1>1, <2>1
    <2>3. \A v \in Windows : session[v] \in [peer : Peers, nth : 1..changes' + 1]
      BY <1>1, <2>1
    <2> QED
      BY <1>1, <2>1, <2>2, <2>3
  <1>5. ASSUME UNCHANGED session, changes' \in {changes, changes + 1}
        PROVE  session' \in [Windows -> [peer : Peers, nth : 1..changes' + 1]]
    BY <1>1, <1>5
  <1>6. ASSUME NEW w \in Windows, NEW p \in Peers, Acquire(p, w)
        PROVE  anchor' \in [Peers -> Anchors \cup {NoAnchor}] /\ AnchorsHold'
    <2> PICK a : a = [window |-> w, nth |-> session[w].nth]
      OBVIOUS
    <2>1. a \in Anchors /\ session[w].peer = p
      BY <1>1, <1>6 DEF Acquire, Anchors
    <2>2. anchor' = [anchor EXCEPT ![p] = a] /\ UNCHANGED session
      BY <1>6 DEF Acquire
    <2>3. Anchored(p, a)
      BY <1>1, <2>1 DEF Anchored
    <2> QED
      BY <1>1, <2>1, <2>2, <2>3 DEF AnchorsHold, Anchored
  <1>7. ASSUME NEW p \in Peers, Release(p)
        PROVE  anchor' \in [Peers -> Anchors \cup {NoAnchor}] /\ AnchorsHold'
    BY <1>1, <1>7 DEF Release, AnchorsHold, Anchored
  <1>8. CASE \E w \in Windows, p \in Peers : NewSession(w, p)
    BY <1>3, <1>4, <1>8 DEF NewSession
  <1>9. CASE \E w \in Windows, p \in Peers : Acquire(p, w)
    BY <1>5, <1>6, <1>9 DEF Acquire
  <1>10. CASE \E p \in Peers : Release(p)
    BY <1>5, <1>7, <1>10 DEF Release
  <1>11. CASE \/ UNCHANGED vars
              \/ \E r \in Runs : Step(r)
              \/ \E i \in Positions, c \in Contents : Edit(i, c)
              \/ \E s \in Slots : Ages(s)
    <2>1. UNCHANGED <<session, anchor>> /\ changes' \in {changes, changes + 1}
      BY <1>11
      DEF vars, Step, Begin, ReadFile, Refused, Carrier, Lookup, DropFile, DropFails,
          DropUnreported, RecordAttachment, RecordFails, Send, SendRefused, Dies, Edit, Ages
    <2> QED
      BY <1>3, <1>5, <2>1
  <1>12. \/ \E w \in Windows, p \in Peers : NewSession(w, p)
         \/ \E w \in Windows, p \in Peers : Acquire(p, w)
         \/ \E p \in Peers : Release(p)
         \/ UNCHANGED vars
         \/ \E r \in Runs : Step(r)
         \/ \E i \in Positions, c \in Contents : Edit(i, c)
         \/ \E s \in Slots : Ages(s)
    BY DEF Next
  <1> QED
    BY <1>8, <1>9, <1>10, <1>11, <1>12, Zenon

\* Whatever a step names exists, and nothing once named is forgotten.
LEMMA KnownStep ==
    ASSUME Sound, [Next]_vars
    PROVE  known \subseteq known' /\ known' \subseteq Paths'
  <1>1. CopiesGrow /\ TypeOK /\ Paths \subseteq Paths' /\ known \subseteq Paths
    BY RunsStep, CopiesStay DEF Sound, TypeOK
  <1>2. \A r \in Runs : run[r].copied \subseteq Paths
    BY <1>1, RunTyped
  <1>3. ASSUME NEW r \in Runs, DropFile(r)
        PROVE  known \subseteq known' /\ known' \subseteq Paths'
    <2>1. Len(copies') \in Paths'
      <3>1. Len(copies') \in 1..MaxCopies
        BY <1>1, <1>3, CommitsCopy DEF DropFile, Sound
      <3> QED
        BY <3>1, AttachAssumption DEF Paths
    <2> QED
      BY <1>1, <1>2, <1>3, <2>1 DEF DropFile
  <1>4. ASSUME NEW r \in Runs, RecordAttachment(r)
        PROVE  known \subseteq known' /\ known' \subseteq Paths'
    <2>1. run[r].path \in Paths
      BY <1>4 DEF Sound, RunsHold, GoodRun, RecordAttachment, Goes, Holds, DroppedRef
    <2> QED
      BY <1>1, <1>4, <2>1 DEF RecordAttachment
  <1>5. ASSUME NEW r \in Runs, DropFails(r) \/ DropUnreported(r) \/ Send(r) \/ SendRefused(r)
        PROVE  known \subseteq known' /\ known' \subseteq Paths'
    <2>1. known' \in {known, known \cup run[r].copied}
      BY <1>5 DEF DropFails, DropUnreported, Send, SendRefused
    <2> QED
      BY <1>1, <1>2, <2>1
  <1>6. CASE UNCHANGED known
    BY <1>1, <1>6
  <1> QED
    BY <1>3, <1>4, <1>5, <1>6
    DEF Next, vars, Step, Begin, ReadFile, Refused, Carrier, Lookup, RecordFails, Dies, Edit,
        NewSession, Acquire, Release, Ages

LEMMA BoundsStep ==
    ASSUME Sound, [Next]_vars
    PROVE  /\ file' \in [Positions -> Contents]
           /\ losses' \in 0..MaxLosses /\ changes' \in 0..MaxChanges
  <1>1. /\ file \in [Positions -> Contents]
        /\ losses \in 0..MaxLosses /\ changes \in 0..MaxChanges
    BY DEF Sound, TypeOK
  <1>2. ASSUME NEW r \in Runs, Step(r)
        PROVE  /\ losses' \in {losses, losses + 1} /\ (losses' # losses => losses < MaxLosses)
               /\ UNCHANGED <<file, changes>>
    BY <1>2
    DEF Step, Begin, ReadFile, Refused, Carrier, Lookup, DropFile, DropFails, DropUnreported,
        RecordAttachment, RecordFails, Send, SendRefused, Dies
  <1>3. CASE \E r \in Runs : Step(r)
    <2>1. MaxLosses \in Nat
      BY AttachAssumption
    <2>2. losses' \in 0..MaxLosses
      BY <1>1, <1>2, <1>3, <2>1
    <2> QED
      BY <1>1, <1>2, <1>3, <2>2
  <1>4. CASE ~ \E r \in Runs : Step(r)
    <2>1. MaxChanges \in Nat
      BY AttachAssumption
    <2>2. UNCHANGED losses /\ (changes' = changes \/ (changes < MaxChanges /\ changes' = changes + 1))
      BY <1>4
      DEF Next, vars, Edit, NewSession, Acquire, Release, Ages
    <2>3. changes' \in 0..MaxChanges
      BY <1>1, <2>1, <2>2
    <2>4. file' \in [Positions -> Contents]
      BY <1>1, <1>4
      DEF Next, vars, Edit, NewSession, Acquire, Release, Ages
    <2> QED
      BY <1>1, <2>2, <2>3, <2>4
  <1> QED
    BY <1>3, <1>4

LEMMA SoundStep ==
    ASSUME Sound, [Next]_vars
    PROVE  Sound'
  <1>1. CopiesGrow /\ run' \in [Runs -> RunState] /\ RunsHold'
    BY RunsStep
  <1>2. copies' \in Seq(Copy) /\ Len(copies') <= MaxCopies
    BY <1>1, CopiesStay DEF Sound
  <1>3. /\ record' \in [Slots -> {NoRecord} \cup
                [peer : Peers, content : Contents, path : Paths', aged : BOOLEAN]]
        /\ RecordsHold'
    BY RecordsStep DEF Row
  <1>4. \A r \in Runs : Progress(run'[r]) /\ run'[r].copied \subseteq Paths'
    BY <1>1 DEF RunsHold, GoodRun
  <1>5. TypeOK'
    BY <1>1, <1>2, <1>3, <1>4, MessagesStep, AnchorsStep, KnownStep, BoundsStep
    DEF TypeOK, Slots
  <1> QED
    BY <1>1, <1>3, <1>5, MessagesStep, AnchorsStep DEF Sound

LEMMA SoundInit == Init => Sound
  <1> SUFFICES ASSUME Init
               PROVE  Sound
    OBVIOUS
  <1>1. /\ << >> \in Seq(Contents) /\ << >> \in Seq(Refs) /\ << >> \in Seq(Copy)
        /\ Len(<< >>) = 0 /\ 0 \in 0..MaxCopies /\ 0 \in 0..MaxLosses /\ 0 \in 0..MaxChanges
    BY AttachAssumption
  <1>2. Idle \in RunState /\ GoodRun(Idle)
    BY <1>1 DEF Idle, RunState, GoodRun, Progress, RefsHold, Anchored
  <1>3. /\ session \in [Windows -> [peer : Peers, nth : 1..changes + 1]]
        /\ anchor \in [Peers -> Anchors \cup {NoAnchor}] /\ AnchorsHold
    BY DEF Init, AnchorsHold, Anchored
  <1>4. /\ record \in [Slots -> {NoRecord} \cup
                [peer : Peers, content : Contents, path : Paths, aged : BOOLEAN]]
        /\ sent \in [Keys -> {NoMessage} \cup [peer : Peers \cup {Here}, refs : [Positions -> Refs]]]
        /\ run \in [Runs -> RunState]
    BY <1>2 DEF Init
  <1>5. \A r \in Runs : GoodRun(run[r]) /\ Progress(run[r]) /\ run[r].copied \subseteq Paths
    BY <1>2 DEF Init, GoodRun
  <1>6. /\ file \in [Positions -> Contents] /\ copies \in Seq(Copy)
        /\ Len(copies) <= MaxCopies
        /\ known \subseteq Paths /\ losses \in 0..MaxLosses /\ changes \in 0..MaxChanges
    BY <1>1, AttachAssumption DEF Init
  <1>7. TypeOK
    BY <1>3, <1>4, <1>5, <1>6 DEF TypeOK
  <1> QED
    BY <1>3, <1>5, <1>7 DEF Init, Sound, RecordsHold, RunsHold, MessagesHold, Accepted

LEMMA SoundAlways == Spec => []Sound
  BY SoundInit, SoundStep, PTL DEF Spec

\* Every variable has its type, for any number of processes, files, peers and bounds.
THEOREM AttachTyped == Spec => []TypeOK
  <1>1. Sound => TypeOK
    BY DEF Sound
  <1> QED
    BY <1>1, SoundAlways, PTL

\* A reference is made from a copy that was either just made for the run's peer and
\* compared with what the run had read, or recorded for the same peer and content;
\* copies are never taken back.  So an accepted reference names a copy with those
\* bytes, on that peer if the window still had the session of the peer's bridge.
THEOREM AcceptedRefsAreThere == Spec => []AcceptedRefsExist
  <1>1. Sound => AcceptedRefsExist
    BY DEF Sound, MessagesHold, AcceptedRefsExist, Holds
  <1> QED
    BY <1>1, SoundAlways, PTL

-----------------------------------------------------------------------------
\* A copy is unnamed once a step ended its run without naming it: one that lost
\* the reply of the receiver, whose record was refused, or that died.
Loses == \E path : Unnamed' \subseteq Unnamed \cup {path} /\ losses' = losses + 1

LEMMA StepLoses ==
    ASSUME Sound, NEW r \in Runs, Step(r)
    PROVE  (Unnamed' \subseteq Unnamed /\ losses' = losses) \/ Loses
  <1>1. TypeOK /\ known \subseteq known' /\ run \in [Runs -> RunState] /\ copies \in Seq(Copy)
    BY KnownStep DEF Sound, TypeOK, Next
  <1>2. PICK q : Becomes(r, q)
    BY StepMoves DEF Sound, Moves
  <1>3. q.path = run'[r].path /\ \A b \in Runs \ {r} : run'[b] = run[b]
    BY <1>1, <1>2 DEF Becomes
  <1>4. Unnamed' \subseteq Unnamed \cup (Paths' \ Paths) \cup {run[r].path}
    BY <1>1, <1>3 DEF Unnamed
  <1>5. run[r].at # "record" => run[r].path \notin Unnamed'
    <2>1. run[r].at # "record" => run[r].path = 0
      BY <1>1, RunTyped DEF Progress
    <2> QED
      BY <2>1 DEF Unnamed, Paths
  <1>6. CASE DropFile(r)
    <2>1. Paths' = Paths \cup {Len(copies')} /\ run[r].at = "drop" /\ losses' = losses
      <3>1. Len(copies') = Len(copies) + 1 /\ Len(copies) \in Nat
        <4>1. Goes(r, "drop") /\ Commits(r)
          BY <1>6 DEF DropFile
        <4>2. Len(copies') = Len(copies) + 1
          BY <1>1, <4>1, CommitsCopy DEF Sound
        <4> QED
          BY <1>1, <4>2
      <3>2. Paths' = Paths \cup {Len(copies')}
        BY <3>1 DEF Paths
      <3> QED
        BY <1>6, <3>2 DEF DropFile, Goes
    <2>2. Len(copies') \notin Unnamed'
      <3>1. CASE file[Position(r)] = run[r].local[Position(r)]
        <4>1. run'[r].path = Len(copies')
          BY <1>1, <1>6, <3>1 DEF DropFile, RunState
        <4> QED
          BY <4>1 DEF Unnamed
      <3>2. CASE file[Position(r)] # run[r].local[Position(r)]
        BY <1>6, <3>2 DEF DropFile, Unnamed
      <3> QED
        BY <3>1, <3>2
    <2> QED
      BY <1>4, <1>5, <2>1, <2>2
  <1>7. CASE DropUnreported(r)
    <2>1. /\ Paths' = Paths \cup {Len(copies')} /\ run[r].at = "drop"
          /\ losses' = losses + 1
      <3>1. Len(copies') = Len(copies) + 1 /\ Len(copies) \in Nat
        <4>1. Goes(r, "drop") /\ Commits(r)
          BY <1>7 DEF DropUnreported
        <4>2. Len(copies') = Len(copies) + 1
          BY <1>1, <4>1, CommitsCopy DEF Sound
        <4> QED
          BY <1>1, <4>2
      <3>2. Paths' = Paths \cup {Len(copies')}
        BY <3>1 DEF Paths
      <3> QED
        BY <1>7, <3>2 DEF DropUnreported, Goes
    <2> PICK path : path = Len(copies')
      OBVIOUS
    <2>2. Unnamed' \subseteq Unnamed \cup {path}
      BY <1>4, <1>5, <2>1
    <2> QED
      BY <2>1, <2>2 DEF Loses
  <1>8. CASE RecordAttachment(r)
    <2>1. Paths' = Paths /\ run[r].path \notin Unnamed' /\ losses' = losses
      BY <1>8 DEF RecordAttachment, Paths, Unnamed
    <2> QED
      BY <1>4, <2>1
  <1>9. CASE RecordFails(r) \/ Dies(r)
    <2>1. Paths' = Paths /\ losses' = losses + 1
      BY <1>9 DEF RecordFails, Dies, Paths
    <2> QED
      BY <1>4, <2>1 DEF Loses
  <1>10. CASE \/ \E k \in Keys, p \in Peers \cup {Here} : Begin(r, k, p)
              \/ ReadFile(r) \/ Refused(r) \/ Carrier(r) \/ Lookup(r) \/ DropFails(r)
              \/ Send(r) \/ SendRefused(r)
    <2>1. Paths' = Paths /\ run[r].at # "record" /\ losses' = losses
      BY <1>10 DEF Begin, ReadFile, Refused, Carrier, Lookup, DropFails, Send, SendRefused, Goes, Paths
    <2> QED
      BY <1>4, <1>5, <2>1
  <1> QED
    BY <1>6, <1>7, <1>8, <1>9, <1>10 DEF Step

LEMMA NothingLost ==
    ASSUME Sound, [Next]_vars, ~ \E r \in Runs : Step(r)
    PROVE  Unnamed' \subseteq Unnamed /\ losses' = losses
  <1>1. UNCHANGED <<run, copies, losses, known>>
    BY DEF Next, vars, Edit, NewSession, Acquire, Release, Ages
  <1> QED
    BY <1>1 DEF Unnamed, Paths

LEMMA LostStep ==
    ASSUME Sound, AtMostOneLostPerFailure, [Next]_vars
    PROVE  AtMostOneLostPerFailure'
  <1>1. IsFiniteSet(Unnamed) /\ losses \in Nat
    <2>1. IsFiniteSet(Paths) /\ Unnamed \subseteq Paths
      BY FS_Interval DEF Sound, TypeOK, Paths, Unnamed
    <2> QED
      BY <2>1, FS_Subset, AttachAssumption DEF Sound, TypeOK
  <1>2. Cardinality(Unnamed) \in Nat /\ Cardinality(Unnamed) <= losses
    BY <1>1, FS_CardinalityType DEF AtMostOneLostPerFailure
  <1>3. CASE Unnamed' \subseteq Unnamed /\ losses' = losses
    <2>1. Cardinality(Unnamed') \in Nat /\ Cardinality(Unnamed') <= Cardinality(Unnamed)
      BY <1>1, <1>3, FS_Subset, FS_CardinalityType
    <2> QED
      BY <1>2, <1>3, <2>1, <1>1 DEF AtMostOneLostPerFailure
  <1>4. CASE Loses
    <2>1. PICK path : Unnamed' \subseteq Unnamed \cup {path} /\ losses' = losses + 1
      BY <1>4 DEF Loses
    <2>2. /\ IsFiniteSet(Unnamed \cup {path})
          /\ Cardinality(Unnamed \cup {path}) \in Nat
          /\ Cardinality(Unnamed \cup {path}) <= Cardinality(Unnamed) + 1
      <3>1. /\ IsFiniteSet(Unnamed \cup {path})
            /\ Cardinality(Unnamed \cup {path}) = IF path \in Unnamed THEN Cardinality(Unnamed)
                                                  ELSE Cardinality(Unnamed) + 1
        BY <1>1, FS_AddElement
      <3> QED
        BY <1>2, <3>1
    <2>3. /\ Cardinality(Unnamed') \in Nat
          /\ Cardinality(Unnamed') <= Cardinality(Unnamed \cup {path})
      BY <2>1, <2>2, FS_Subset, FS_CardinalityType
    <2> QED
      BY <1>1, <1>2, <2>1, <2>2, <2>3 DEF AtMostOneLostPerFailure
  <1> QED
    BY <1>3, <1>4, StepLoses, NothingLost

\* Only three kinds of step leave a copy unnamed, each of them a failure that is
\* counted, and each the one copy its run had just made; names are never
\* forgotten.  So there are never more unnamed copies than there were failures.
THEOREM FailuresLoseOneCopy == Spec => []AtMostOneLostPerFailure
  <1>1. Init => AtMostOneLostPerFailure
    <2>1. Init => Unnamed = {} /\ losses = 0
      BY DEF Init, Unnamed, Paths
    <2>2. Cardinality({}) = 0
      BY FS_EmptySet
    <2> QED
      BY <2>1, <2>2 DEF AtMostOneLostPerFailure
  <1>2. Sound /\ AtMostOneLostPerFailure /\ [Next]_vars => AtMostOneLostPerFailure'
    BY LostStep
  <1> QED
    BY <1>1, <1>2, SoundAlways, PTL DEF Spec
=============================================================================
