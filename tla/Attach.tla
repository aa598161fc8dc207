------------------------------- MODULE Attach -------------------------------
(***************************************************************************)
(* Handing files to agents: `vvagent send --attach` (attach.rs) and the     *)
(* records of the copies it made (recorded_attachment, record_attachment).  *)
(*                                                                         *)
(* A send reads and hashes every file, reads from the peer's lease which    *)
(* window carries its bridge, copies the files one by one through that      *)
(* window, records each copy under the send's idempotency key in a          *)
(* transaction of its own, and only then enqueues the message.  Files may   *)
(* be edited meanwhile, the window may get a session to another host, the   *)
(* process may die between any two steps, every call may fail, and the      *)
(* same send may be tried again, also while an earlier try still runs.      *)
(*                                                                         *)
(* A content stands for its bytes and SHA-256 together (no collisions).  A  *)
(* copy's path on the peer is its index in `copies': file-drop-v1 is        *)
(* external, picks a fresh name and never deletes a committed file.         *)
(***************************************************************************)
EXTENDS Naturals, Sequences, FiniteSets

CONSTANTS Runs,        \* processes running `vvagent send --attach'
          Keys,        \* idempotency keys
          Peers,       \* hosts a message may be addressed to
          Here,        \* the target that is an agent of this host
          Windows,     \* windows of the caller's runtime instance with a vvssh session
          Contents,    \* what a file may hold
          Positions,   \* 1..n: a send attaches n files, in order
          MaxCopies,   \* bound on the copies ever made
          MaxChanges,  \* bound on edits of files and new sessions in windows
          MaxLosses    \* bound on deaths and failed calls

ASSUME AttachAssumption ==
  /\ Cardinality(Positions) \in Nat \ {0} /\ Positions = 1..Cardinality(Positions)
  /\ Here \notin Peers /\ "none" \notin Windows
  /\ MaxCopies \in Nat /\ MaxChanges \in Nat /\ MaxLosses \in Nat

VARIABLES file,    \* the files as they are now
          session, \* window -> the peer its vvssh session goes to, and its number in that window
          anchor,  \* peer -> the anchor in its live lease, if it is of the caller's instance
          copies,  \* what was committed on peers
          record,  \* table attachment: by key and position
          sent,    \* accepted messages, by key
          run,     \* the sending processes
          known,   \* history: paths that a record, an error or a message named
          losses,  \* how many runs died or saw a call fail
          changes

vars == <<file, session, anchor, copies, record, sent, run, known, losses, changes>>

NoAnchor == [window |-> "none", nth |-> 0]

NoRecord == [peer |-> Here, content |-> "none", path |-> 0, aged |-> FALSE]

NoMessage == [peer |-> Here, refs |-> <<>>]

Idle == [at |-> "idle", key |-> "none", peer |-> Here, anchor |-> NoAnchor, local |-> <<>>,
         refs |-> <<>>, copied |-> {}, path |-> 0, result |-> "none"]

Slots == Keys \X Positions

Last == Cardinality(Positions)

Paths == 1..Len(copies)

\* The window where a lease says its bridge runs; which of that window's sessions
\* it was is history, and nothing the code can see.
Anchors == [window : Windows, nth : 1..MaxChanges + 1]

\* `same' is history too: whether the window still had the session of the anchor.
Copy == [peer : Peers, content : Contents, same : BOOLEAN]

Refs == [path : 0..MaxCopies, content : Contents]

RunState ==
  [at : {"idle", "read", "carrier", "lookup", "drop", "record", "send"},
   key : Keys \cup {"none"}, peer : Peers \cup {Here}, anchor : Anchors \cup {NoAnchor},
   local : Seq(Contents), refs : Seq(Refs), copied : SUBSET (1..MaxCopies), path : 0..MaxCopies,
   result : {"none", "refused", "unavailable", "mismatch", "drop_failed", "record_failed",
             "replayed", "conflict", "accepted"}]

\* How far a run is: files are read first, then each gets its reference; only a
\* run that has just made a copy holds its path.
Progress(q) ==
  /\ q.at # "idle" => q.key \in Keys
  /\ q.at # "record" => q.path = 0
  /\ q.at = "idle" => q.refs = <<>>
  /\ q.at = "read" => Len(q.local) < Last
                    /\ Len(q.refs) = IF q.peer = Here THEN Len(q.local) ELSE 0
  /\ q.at \in {"carrier", "lookup", "drop", "record"} => q.peer # Here /\ Len(q.refs) < Last
  /\ q.at = "carrier" => Len(q.refs) = 0
  /\ q.at \in {"lookup", "drop", "record"} => q.anchor # NoAnchor
  /\ q.at \notin {"idle", "read"} => Len(q.local) = Last
  /\ q.at = "send" => Len(q.refs) = Last

Accepted(k) == sent[k] # NoMessage

Init ==
  /\ file \in [Positions -> Contents]
  /\ session \in [Windows -> [peer : Peers, nth : {1}]]
  /\ anchor = [p \in Peers |-> NoAnchor]
  /\ copies = <<>>
  /\ record = [s \in Slots |-> NoRecord]
  /\ sent = [k \in Keys |-> NoMessage]
  /\ run = [r \in Runs |-> Idle]
  /\ known = {}
  /\ losses = 0
  /\ changes = 0

-----------------------------------------------------------------------------
\* What goes on outside: files are edited, windows and leases come and go.

Edit(i, c) ==
  /\ changes < MaxChanges
  /\ file[i] # c
  /\ file' = [file EXCEPT ![i] = c]
  /\ changes' = changes + 1
  /\ UNCHANGED <<session, anchor, copies, record, sent, run, known, losses>>

\* The vvssh session of a window ends and another begins in it.
NewSession(w, p) ==
  /\ changes < MaxChanges
  /\ session[w].peer # p
  /\ session' = [session EXCEPT ![w] = [peer |-> p, nth |-> @.nth + 1]]
  /\ changes' = changes + 1
  /\ UNCHANGED <<file, anchor, copies, record, sent, run, known, losses>>

\* A bridge in this window takes the peer's lease ...
Acquire(p, w) ==
  /\ session[w].peer = p
  /\ anchor' = [anchor EXCEPT ![p] = [window |-> w, nth |-> session[w].nth]]
  /\ UNCHANGED <<file, session, copies, record, sent, run, known, losses, changes>>

\* ... and releases it, lets it lapse, or loses it to one of another instance.
Release(p) ==
  /\ anchor' = [anchor EXCEPT ![p] = NoAnchor]
  /\ UNCHANGED <<file, session, copies, record, sent, run, known, losses, changes>>

\* MAX_REQUEST_LIFETIME passes for a record.
Ages(s) ==
  /\ record[s] # NoRecord
  /\ ~record[s].aged
  /\ record' = [record EXCEPT ![s].aged = TRUE]
  /\ UNCHANGED <<file, session, anchor, copies, sent, run, known, losses, changes>>

-----------------------------------------------------------------------------
\* One run of `vvagent send --attach'.

Goes(r, at) == run[r].at = at

\* The position the run is at: the files read, then the references made.
Reading(r) == Len(run[r].local) + 1
Position(r) == Len(run[r].refs) + 1

\* The run ends with this result.  What `explain' appends to its error is what
\* it copied or reused so far.
Ends(r, result) == run' = [run EXCEPT ![r] = [Idle EXCEPT !.result = result]]

Begin(r, k, p) ==
  /\ Goes(r, "idle")
  /\ run' = [run EXCEPT ![r] = [Idle EXCEPT !.at = "read", !.key = k, !.peer = p]]
  /\ UNCHANGED <<file, session, anchor, copies, record, sent, known, losses, changes>>

\* Each file is opened and hashed once, in order.  A local target needs no more.
ReadFile(r) ==
  /\ Goes(r, "read")
  /\ LET i == Reading(r)
         after == IF i < Last THEN "read"
                  ELSE IF run[r].peer = Here THEN "send" ELSE "carrier"
     IN run' = [run EXCEPT ![r].local = Append(@, file[i]),
                           ![r].refs = IF run[r].peer = Here
                                       THEN Append(@, [path |-> 0, content |-> file[i]])
                                       ELSE @,
                           ![r].at = after]
  /\ UNCHANGED <<file, session, anchor, copies, record, sent, known, losses, changes>>

\* attach: refused by policy, count, size or kind before anything is copied.
Refused(r) ==
  /\ Goes(r, "read")
  /\ Ends(r, "refused")
  /\ UNCHANGED <<file, session, anchor, copies, record, sent, known, losses, changes>>

\* carrier: the window is taken from the lease once, for all the files, even when
\* every copy is already there.
Carrier(r) ==
  /\ Goes(r, "carrier")
  /\ LET window == anchor[run[r].peer]
     IN IF window # NoAnchor
        THEN run' = [run EXCEPT ![r].at = "lookup", ![r].anchor = window]
        ELSE Ends(r, "unavailable")
  /\ UNCHANGED <<file, session, anchor, copies, record, sent, known, losses, changes>>

\* A bug this definition could have: any record of this slot will do.
Reusable_any_content(r) ==
  LET known_copy == record[<<run[r].key, Position(r)>>]
  IN known_copy # NoRecord /\ known_copy.peer = run[r].peer

\* The record is of this peer and of what was just read; its age is not asked.
Reusable(r) ==
  LET known_copy == record[<<run[r].key, Position(r)>>]
  IN /\ known_copy # NoRecord
     /\ known_copy.peer = run[r].peer
     /\ known_copy.content = run[r].local[Position(r)]

\* The copy at `path' becomes the reference at this position, with the digest
\* of what this process read.
Refer(r, path) ==
  run' = [run EXCEPT
    ![r].refs = Append(@, [path |-> path, content |-> run[r].local[Position(r)]]),
    ![r].copied = @ \cup {path},
    ![r].path = 0,
    ![r].at = IF Position(r) < Last THEN "lookup" ELSE "send"]

Lookup(r) ==
  /\ Goes(r, "lookup")
  /\ IF Reusable(r)
     THEN Refer(r, record[<<run[r].key, Position(r)>>].path)
     ELSE run' = [run EXCEPT ![r].at = "drop"]
  /\ UNCHANGED <<file, session, anchor, copies, record, sent, known, losses, changes>>

\* The host that the window's session goes to by now commits whatever the file
\* holds by now.
Commits(r) ==
  /\ Len(copies) < MaxCopies
  /\ LET now == session[run[r].anchor.window]
     IN copies' = Append(copies, [peer |-> now.peer, content |-> file[Position(r)],
                                  same |-> now.nth = run[r].anchor.nth])

\* drop_file: the reply is compared with what was read, but does not say which host
\* it is from; an error names the copy that does not match and the ones made before.
DropFile(r) ==
  /\ Goes(r, "drop")
  /\ Commits(r)
  /\ IF file[Position(r)] = run[r].local[Position(r)]
     THEN /\ run' = [run EXCEPT ![r].path = Len(copies'), ![r].at = "record"]
          /\ UNCHANGED known
     ELSE /\ Ends(r, "mismatch")
          /\ known' = known \cup run[r].copied \cup {Len(copies')}
  /\ UNCHANGED <<file, session, anchor, record, sent, losses, changes>>

\* drop-file fails and nothing was committed; the error names the earlier copies.
DropFails(r) ==
  /\ Goes(r, "drop")
  /\ Ends(r, "drop_failed")
  /\ known' = known \cup run[r].copied
  /\ UNCHANGED <<file, session, anchor, copies, record, sent, losses, changes>>

\* The file was committed, but the client timed out or the reply did not say where.
DropUnreported(r) ==
  /\ Goes(r, "drop")
  /\ losses < MaxLosses
  /\ Commits(r)
  /\ Ends(r, "drop_failed")
  /\ known' = known \cup run[r].copied
  /\ losses' = losses + 1
  /\ UNCHANGED <<file, session, anchor, record, sent, changes>>

\* A bug this definition could have: nothing is recorded until the last copy is made.
RecordAttachment_last(r) ==
  /\ Goes(r, "record")
  /\ LET slot == <<run[r].key, Position(r)>>
     IN IF Position(r) = Last
        THEN /\ record' = [record EXCEPT ![slot] = [peer |-> run[r].peer,
                             content |-> run[r].local[Position(r)], path |-> run[r].path,
                             aged |-> FALSE]]
             /\ known' = known \cup {run[r].path}
        ELSE UNCHANGED <<record, known>>
  /\ Refer(r, run[r].path)
  /\ UNCHANGED <<file, session, anchor, copies, sent, losses, changes>>

\* record_attachment: purge the old records, then insert or replace this one.
RecordAttachment(r) ==
  /\ Goes(r, "record")
  /\ LET slot == <<run[r].key, Position(r)>>
     IN record' = [s \in Slots |->
          IF s = slot THEN [peer |-> run[r].peer, content |-> run[r].local[Position(r)],
                            path |-> run[r].path, aged |-> FALSE]
          ELSE IF record[s].aged THEN NoRecord ELSE record[s]]
  /\ known' = known \cup {run[r].path}
  /\ Refer(r, run[r].path)
  /\ UNCHANGED <<file, session, anchor, copies, sent, losses, changes>>

\* The store refuses (busy, full disk).  This error is not passed through `explain'.
RecordFails(r) ==
  /\ Goes(r, "record")
  /\ losses < MaxLosses
  /\ Ends(r, "record_failed")
  /\ losses' = losses + 1
  /\ UNCHANGED <<file, session, anchor, copies, record, sent, known, changes>>

\* store.send: the references are part of the digest that the key stands for.
Send(r) ==
  /\ Goes(r, "send")
  /\ LET k == run[r].key
         draft == [peer |-> run[r].peer, refs |-> run[r].refs]
     IN IF Accepted(k)
        THEN /\ Ends(r, IF sent[k] = draft THEN "replayed" ELSE "conflict")
             /\ known' = IF sent[k] = draft THEN known ELSE known \cup run[r].copied
             /\ UNCHANGED sent
        ELSE /\ sent' = [sent EXCEPT ![k] = draft]
             /\ Ends(r, "accepted")
             /\ known' = known \cup run[r].copied
  /\ UNCHANGED <<file, session, anchor, copies, record, losses, changes>>

\* A gate, quota or rate refuses the message; `explain' names the copies.
SendRefused(r) ==
  /\ Goes(r, "send")
  /\ ~Accepted(run[r].key)
  /\ Ends(r, "refused")
  /\ known' = known \cup run[r].copied
  /\ UNCHANGED <<file, session, anchor, copies, record, sent, losses, changes>>

Dies(r) ==
  /\ run[r].at # "idle"
  /\ losses < MaxLosses
  /\ run' = [run EXCEPT ![r] = Idle]
  /\ losses' = losses + 1
  /\ UNCHANGED <<file, session, anchor, copies, record, sent, known, changes>>

-----------------------------------------------------------------------------
Step(r) ==
  \/ \E k \in Keys, p \in Peers \cup {Here} : Begin(r, k, p)
  \/ ReadFile(r) \/ Refused(r) \/ Carrier(r) \/ Lookup(r)
  \/ DropFile(r) \/ DropFails(r) \/ DropUnreported(r)
  \/ RecordAttachment(r) \/ RecordFails(r)
  \/ Send(r) \/ SendRefused(r) \/ Dies(r)

Next ==
  \/ \E r \in Runs : Step(r)
  \/ \E i \in Positions, c \in Contents : Edit(i, c)
  \/ \E w \in Windows, p \in Peers : NewSession(w, p) \/ Acquire(p, w)
  \/ \E p \in Peers : Release(p)
  \/ \E s \in Slots : Ages(s)

Spec == Init /\ [][Next]_vars

-----------------------------------------------------------------------------
\* Every variable has its type; a record and a run name paths that exist, and a
\* run has read and referred to as many files as the point it is at calls for.
TypeOK ==
  /\ file \in [Positions -> Contents]
  /\ session \in [Windows -> [peer : Peers, nth : 1..changes + 1]]
  /\ anchor \in [Peers -> Anchors \cup {NoAnchor}]
  /\ copies \in Seq(Copy) /\ Len(copies) <= MaxCopies
  /\ record \in [Slots -> {NoRecord} \cup [peer : Peers, content : Contents, path : Paths, aged : BOOLEAN]]
  /\ sent \in [Keys -> {NoMessage} \cup [peer : Peers \cup {Here}, refs : [Positions -> Refs]]]
  /\ run \in [Runs -> RunState]
  /\ \A r \in Runs : Progress(run[r]) /\ run[r].copied \subseteq Paths
  /\ known \subseteq Paths
  /\ losses \in 0..MaxLosses /\ changes \in 0..MaxChanges

\* Every reference of an accepted message to a peer names a copy with the very
\* bytes whose digest the message carries, and that copy was committed on that
\* very peer unless the window it went through had got another session since the
\* bridge there took the lease: whatever was edited, retried, reused, run twice
\* or sent to another peer on the way.
AcceptedRefsExist ==
  \A k \in Keys : Accepted(k) /\ sent[k].peer \in Peers =>
    \A i \in Positions :
      LET ref == sent[k].refs[i]
          copy == copies[ref.path]
      IN copy.content = ref.content /\ (copy.same => copy.peer = sent[k].peer)

Unnamed == Paths \ (known \cup {run[r].path : r \in Runs})

\* Copies are recorded one by one as they are made, so a run that dies, or whose
\* store or receiver fails it, leaves at most one copy that neither a record, an
\* error nor a message ever named.
AtMostOneLostPerFailure == Cardinality(Unnamed) <= losses

\* "If the enqueue fails after files were copied, the error says where they went:
\* nothing is left behind silently": the step that ends a run with an error leaves
\* the copy it had just made named by that error, or recorded.
NothingLeftSilently ==
  [][\A r \in Runs : run'[r].at = "idle" /\ run'[r].result # "none" =>
       run[r].path \in known' \cup {0}]_vars

\* "Retrying with the same idempotency key and the same content replays": a run
\* is never told that the key stands for another message when it addresses the
\* same peer and read the same bytes as the accepted one.
SameContentReplays ==
  [][\A r \in Runs : Goes(r, "send") /\ run'[r].result = "conflict" =>
       LET message == sent[run[r].key]
       IN \/ message.peer # run[r].peer
          \/ \E i \in Positions : message.refs[i].content # run[r].local[i]]_vars

(***************************************************************************)
(* A statement that the code does not keep                                  *)
(***************************************************************************)

\* "the message then refers to the verified copy on the recipient's host".
AcceptedRefsOnTheirPeer ==
  \A k \in Keys : Accepted(k) /\ sent[k].peer \in Peers =>
    \A i \in Positions : copies[sent[k].refs[i].path].peer = sent[k].peer
=============================================================================
