------------------------------- MODULE Groups -------------------------------
(***************************************************************************)
(* One group: editing its membership, fanning a request out to it and       *)
(* waiting for a quorum of answers.  A fan-out reads the membership, opens  *)
(* a group send, and for each member sends a message and then ties it to    *)
(* the send; an edit reads the membership and writes it back; a waiter      *)
(* reads once whom the send reached and then polls.  Each of these steps is *)
(* a transaction of its own, and a sender may be killed between any two and *)
(* be run again with the same idempotency key.                              *)
(***************************************************************************)
EXTENDS Naturals, FiniteSets, FiniteSetsExt

CONSTANTS
    Members,     \* endpoints are 1..Members, in id order
    Key,         \* idempotency keys of fan-outs
    Sender,      \* processes that run send --group
    Editor,      \* processes that run group add, remove, create or delete
    Waiter,      \* processes that run wait --group-send
    Quorum,      \* what --quorum may say; 0 stands for leaving it out
    MaxSends,    \* group sends opened altogether (a bound)
    MaxEdits,    \* edits of the group altogether (a bound)
    None

ASSUME GroupsAssumption ==
    /\ Members \in Nat /\ MaxSends \in Nat /\ MaxEdits \in Nat /\ Quorum \subseteq Nat
    /\ None \notin Key

Member == 1..Members
Send == 1..MaxSends

VARIABLES
    group,    \* the group's members, or None when there is no such group
    edits,    \* edits that were begun
    editor,   \* edits in progress
    wished,   \* the membership the edits, each on its own, ask for
    sends,    \* group_send table, and what its sender reported
    req,      \* key, member -> the message that send places under that key
    sender,   \* fan-outs in progress
    waiter    \* waits in progress

vars == <<group, edits, editor, wished, sends, req, sender, waiter>>

NoEdit == [pc |-> "idle", ids |-> {}]
NoSend == [key |-> None, members |-> {}, accepted |-> {}, reported |-> FALSE]
NoFanOut == [pc |-> "idle", key |-> None, send |-> 0, members |-> {}, todo |-> {}]
NoWait == [pc |-> "idle", send |-> 0, asked |-> {}, needed |-> 0]

SendRow == [key : Key \cup {None}, members : SUBSET Member, accepted : SUBSET Member,
            reported : BOOLEAN]
Request == [state : {"absent", "open", "answered", "over"}, send : Send \cup {0}]
FanOutState == [pc : {"idle", "open", "send", "attach"}, key : Key \cup {None},
                send : Send \cup {0}, members : SUBSET Member, todo : SUBSET Member]
WaitState == [pc : {"idle", "poll", "quorum", "timeout"}, send : Send \cup {0},
              asked : SUBSET (Key \X Member), needed : Nat]

TypeOK ==
    /\ group = None \/ group \subseteq Member
    /\ wished = None \/ wished \subseteq Member
    /\ edits \in 0..MaxEdits
    /\ editor \in [Editor -> [pc : {"idle", "write"}, ids : SUBSET Member]]
    /\ sends \in [Send -> SendRow]
    /\ req \in [Key \X Member -> Request]
    /\ sender \in [Sender -> FanOutState]
    /\ waiter \in [Waiter -> WaitState]

Init ==
    /\ group = None /\ wished = None
    /\ edits = 0
    /\ editor = [d \in Editor |-> NoEdit]
    /\ sends = [s \in Send |-> NoSend]
    /\ req = [r \in Key \X Member |-> [state |-> "absent", send |-> 0]]
    /\ sender = [sd \in Sender |-> NoFanOut]
    /\ waiter = [w \in Waiter |-> NoWait]

-----------------------------------------------------------------------------
(***************************************************************************)
(* Editing                                                                  *)
(***************************************************************************)
Counts == edits < MaxEdits /\ edits' = edits + 1

\* group create and group delete: set_group and delete_group, one transaction.
Create(ids) ==
    /\ Counts /\ ids # {}
    /\ group' = ids /\ wished' = ids
    /\ UNCHANGED <<editor, sends, req, sender, waiter>>

Delete ==
    /\ Counts /\ group # None
    /\ group' = None /\ wished' = None
    /\ UNCHANGED <<editor, sends, req, sender, waiter>>

\* group add and group remove: group_members, then set_group of what was read
\* with one more or one less.
AddRead(d, e) ==
    /\ editor[d].pc = "idle" /\ group # None /\ Counts
    /\ editor' = [editor EXCEPT ![d] = [pc |-> "write", ids |-> group \cup {e}]]
    /\ wished' = IF wished = None THEN None ELSE wished \cup {e}
    /\ UNCHANGED <<group, sends, req, sender, waiter>>

RemoveRead(d, e) ==
    /\ editor[d].pc = "idle" /\ group # None /\ Counts
    /\ editor' = [editor EXCEPT ![d] = [pc |-> "write", ids |-> group \ {e}]]
    /\ wished' = IF wished = None THEN None ELSE wished \ {e}
    /\ UNCHANGED <<group, sends, req, sender, waiter>>

SetGroup(d) ==
    /\ editor[d].pc = "write"
    /\ group' = editor[d].ids
    /\ editor' = [editor EXCEPT ![d] = NoEdit]
    /\ UNCHANGED <<edits, wished, sends, req, sender, waiter>>

-----------------------------------------------------------------------------
(***************************************************************************)
(* Fanning out                                                              *)
(***************************************************************************)

\* send --group: the membership as it is now; an empty group is refused.
FanOut(sd, k) ==
    /\ sender[sd].pc = "idle" /\ group \notin {None, {}}
    /\ sender' = [sender EXCEPT ![sd] = [NoFanOut EXCEPT !.pc = "open", !.key = k,
                                            !.members = group, !.todo = group]]
    /\ UNCHANGED <<group, edits, editor, wished, sends, req, waiter>>

\* A bug this definition could have: the snapshot is read again.
OpenGroupSend_reread(sd) ==
    /\ sender[sd].pc = "open"
    /\ \E s \in Send :
        /\ sends[s].key = None /\ \A t \in Send : t < s => sends[t].key # None
        /\ sends' = [sends EXCEPT ![s].key = sender[sd].key,
                                  ![s].members = IF group = None THEN {} ELSE group]
        /\ sender' = [sender EXCEPT ![sd].pc = "send", ![sd].send = s]
    /\ UNCHANGED <<group, edits, editor, wished, req, waiter>>

OpenGroupSend(sd) ==
    /\ sender[sd].pc = "open"
    /\ \E s \in Send :
        /\ sends[s].key = None /\ \A t \in Send : t < s => sends[t].key # None
        /\ sends' = [sends EXCEPT ![s].key = sender[sd].key,
                                  ![s].members = sender[sd].members]
        /\ sender' = [sender EXCEPT ![sd].pc = "send", ![sd].send = s]
    /\ UNCHANGED <<group, edits, editor, wished, req, waiter>>

\* The member whose turn it is, and its message.
Turn(sd) == Min(sender[sd].todo)
RequestOf(sd) == <<sender[sd].key, Turn(sd)>>

\* On to the next member, or to the report, which is what tells the send id.
Onward(sd) ==
    IF sender[sd].todo = {Turn(sd)} THEN NoFanOut
    ELSE [sender[sd] EXCEPT !.pc = "send", !.todo = @ \ {Turn(sd)}]

Reports(sd, accepted) ==
    sends' = [sends EXCEPT ![sender[sd].send].accepted = @ \cup accepted,
                           ![sender[sd].send].reported = sender[sd].todo = {Turn(sd)}]

\* store.send under the member's key: a new message, or the one that landed.
SendAccepted(sd) ==
    /\ sender[sd].pc = "send"
    /\ \/ /\ req[RequestOf(sd)].state = "absent"
          /\ req' = [req EXCEPT ![RequestOf(sd)].state = "open"]
       \/ /\ req[RequestOf(sd)].state # "absent"
          /\ UNCHANGED req
    /\ sender' = [sender EXCEPT ![sd].pc = "attach"]
    /\ UNCHANGED <<group, edits, editor, wished, sends, waiter>>

\* A full mailbox, a policy or the rate limit refuses this member.
SendRejected(sd) ==
    /\ sender[sd].pc = "send" /\ req[RequestOf(sd)].state = "absent"
    /\ sender' = [sender EXCEPT ![sd] = Onward(sd)]
    /\ Reports(sd, {})
    /\ UNCHANGED <<group, edits, editor, wished, req, waiter>>

AttachToGroupSend(sd) ==
    /\ sender[sd].pc = "attach"
    /\ req' = [req EXCEPT ![RequestOf(sd)].send = sender[sd].send]
    /\ sender' = [sender EXCEPT ![sd] = Onward(sd)]
    /\ Reports(sd, {Turn(sd)})
    /\ UNCHANGED <<group, edits, editor, wished, waiter>>

\* The sender is killed and reports nothing; somebody may run it again.
Crash(sd) ==
    /\ sender[sd].pc # "idle"
    /\ sender' = [sender EXCEPT ![sd] = NoFanOut]
    /\ UNCHANGED <<group, edits, editor, wished, sends, req, waiter>>

\* The member answers, or its request is cancelled, expires or bounces.
Ends(r, state) ==
    /\ req[r].state = "open"
    /\ req' = [req EXCEPT ![r].state = state]
    /\ UNCHANGED <<group, edits, editor, wished, sends, sender, waiter>>

-----------------------------------------------------------------------------
(***************************************************************************)
(* Waiting                                                                  *)
(***************************************************************************)

\* group_send_requests.
GroupSendRequests(s) == {r \in DOMAIN req : req[r].send = s}

\* wait --group-send s, of a send some sender reported.
Wait(w, s, q) ==
    /\ waiter[w].pc = "idle" /\ sends[s].reported
    /\ LET asked == GroupSendRequests(s)
           len == Cardinality(asked)
       IN  waiter' = [waiter EXCEPT ![w] = [pc |-> "poll", send |-> s, asked |-> asked,
                        needed |-> IF q = 0 THEN len ELSE Min({q, len})]]
    /\ UNCHANGED <<group, edits, editor, wished, sends, req, sender>>

\* A bug this definition could have: whatever is over counts as answered.
Answered_or_over(w) == {r \in waiter[w].asked : req[r].state \in {"answered", "over"}}

Answered(w) == {r \in waiter[w].asked : req[r].state = "answered"}

Poll(w) ==
    /\ waiter[w].pc = "poll"
    /\ Cardinality(Answered(w)) >= waiter[w].needed
    /\ waiter' = [waiter EXCEPT ![w].pc = "quorum"]
    /\ UNCHANGED <<group, edits, editor, wished, sends, req, sender>>

Timeout(w) ==
    /\ waiter[w].pc = "poll"
    /\ Cardinality(Answered(w)) < waiter[w].needed
    /\ waiter' = [waiter EXCEPT ![w].pc = "timeout"]
    /\ UNCHANGED <<group, edits, editor, wished, sends, req, sender>>

Next ==
    \/ \E ids \in SUBSET Member : Create(ids)
    \/ Delete
    \/ \E d \in Editor, e \in Member : AddRead(d, e) \/ RemoveRead(d, e)
    \/ \E d \in Editor : SetGroup(d)
    \/ \E sd \in Sender, k \in Key : FanOut(sd, k)
    \/ \E sd \in Sender : OpenGroupSend(sd) \/ SendAccepted(sd) \/ SendRejected(sd)
    \/ \E sd \in Sender : AttachToGroupSend(sd) \/ Crash(sd)
    \/ \E r \in Key \X Member, state \in {"answered", "over"} : Ends(r, state)
    \/ \E w \in Waiter, s \in Send, q \in Quorum : Wait(w, s, q)
    \/ \E w \in Waiter : Poll(w) \/ Timeout(w)

Spec == Init /\ [][Next]_vars

-----------------------------------------------------------------------------
(***************************************************************************)
(* Properties                                                               *)
(***************************************************************************)

\* "Membership is snapshotted when you send, so adding someone afterwards
\* cannot satisfy a quorum with an agent that was never asked": whatever edits
\* and retries happen, the requests of a send are to members of its snapshot.
AskedWereMembers ==
    \A r \in DOMAIN req : req[r].send # 0 => r[2] \in sends[req[r].send].members

Retried(s) == \E t \in Send \ {s} : sends[t].key = sends[s].key

Honest(w) ==
    LET s == waiter[w].send
        answers == {e \in sends[s].accepted : req[<<sends[s].key, e>>].state = "answered"}
    IN  /\ Cardinality(answers) >= waiter[w].needed
        /\ waiter[w].needed = 0 => sends[s].accepted = {}

\* A quorum "counts answers against who was actually asked": a wait that says
\* quorum has that many answers of members the send reported as accepted, and
\* needs none only when none was accepted, as long as nobody retried the send.
QuorumIsHonest ==
    \A w \in Waiter : waiter[w].pc = "quorum" /\ ~Retried(waiter[w].send) => Honest(w)

(***************************************************************************)
(* Statements that the code does not keep                                   *)
(***************************************************************************)

\* open_group_send: "The snapshot is what makes a later quorum meaningful: it
\* counts answers against who was actually asked", retried or not.
QuorumAlwaysHonest == \A w \in Waiter : waiter[w].pc = "quorum" => Honest(w)

\* group add: "Add one member, leaving the rest alone".  When no edit is in
\* progress the group is what the edits asked for.
EditsLeaveTheRestAlone == (\A d \in Editor : editor[d].pc = "idle") => group = wished
=============================================================================
