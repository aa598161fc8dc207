----------------------------- MODULE Rendezvous -----------------------------
(***************************************************************************)
(* Asking a peer what a name means on its host now.  A client leaves a      *)
(* question in the resolution table and polls for its answer; the bridge    *)
(* that holds the peer's lease sends the question, and records the answer   *)
(* that comes back; the peer answers from its own directory, which changes  *)
(* all the time.  Clients give up, rows grow old and are deleted, bridges   *)
(* overlap and die with questions in flight.                                *)
(*                                                                          *)
(* Frames of one connection are handled in order, so a connection carries a *)
(* sequence of questions one way and of answers the other.                  *)
(***************************************************************************)
EXTENDS Naturals, Sequences, FiniteSets

CONSTANTS
    Peer,        \* peers of this store
    Client,      \* processes that resolve a remote name (each once)
    Bridge,      \* bridge processes and the owner ids they mint
    Name,        \* selectors in the peers' own trees
    Agent,       \* endpoints on the peers
    Window,      \* windows a bridge may be launched from
    MaxPending,  \* MAX_PENDING_RESOLUTIONS
    MaxId,       \* questions asked altogether (a bound)
    MaxRenames,  \* changes of the peers' directories (a bound)
    None

ASSUME RendezvousAssumption ==
    /\ MaxPending \in Nat \ {0} /\ MaxId \in Nat /\ MaxRenames \in Nat
    /\ None \notin Peer \cup Client \cup Bridge \cup Agent

Id == 1..MaxId

VARIABLES
    row,      \* resolution table: id -> question, or absent
    lastId,   \* the AUTOINCREMENT counter
    client,   \* resolve, in progress
    sess,     \* bridge sessions, with what is on their wires
    lease,    \* peer -> the bridge recorded for it, if its lease is live
    names,    \* the peers' directories
    renames,  \* how often they changed
    meant     \* client -> what its selector named at some time since it asked

vars == <<row, lastId, client, sess, lease, names, renames, meant>>

NoRow == [peer |-> None, name |-> None, age |-> "absent", answered |-> FALSE,
          value |-> None]

NotAsking == [pc |-> "idle", peer |-> None, name |-> None, id |-> 0, value |-> None]

NoSession == [peer |-> None, asked |-> {}, questions |-> <<>>, answers |-> <<>>]

Exists(id) == row[id].age # "absent"

\* A question still worth asking: unanswered, and not older than
\* RESOLUTION_TIMEOUT_MS.
Waiting(id) == row[id].age = "fresh" /\ ~row[id].answered

Age == {"absent", "fresh", "late", "old"}
Row == [peer : Peer \cup {None}, name : Name \cup {None}, age : Age,
        answered : BOOLEAN, value : Agent \cup {None}]
Pc == {"idle", "live", "insert", "poll", "took", "done", "failed"}
ClientState == [pc : Pc, peer : Peer \cup {None}, name : Name \cup {None},
                id : 0..MaxId, value : Agent \cup {None}]

\* The Resolve and Resolved frames, and the sessions that carry them.
Resolve == [id : Id, name : Name]
Resolved == [id : Id, value : Agent \cup {None}]
SessionState == [peer : Peer \cup {None}, asked : SUBSET Id,
                 questions : Seq(Resolve), answers : Seq(Resolved)]

TypeOK ==
    /\ row \in [Id -> Row]
    /\ lastId \in 0..MaxId
    /\ \A id \in Id : IF Exists(id) THEN id =< lastId ELSE row[id] = NoRow
    /\ client \in [Client -> ClientState]
    /\ sess \in [Bridge -> SessionState]
    /\ lease \in [Peer -> [owner : Bridge \cup {None}, window : Window \cup {None}]]
    /\ names \in [Peer -> [Name -> Agent \cup {None}]]
    /\ renames \in 0..MaxRenames
    /\ meant \in [Client -> SUBSET (Agent \cup {None})]

Init ==
    /\ row = [id \in Id |-> NoRow]
    /\ lastId = 0
    /\ client = [c \in Client |-> NotAsking]
    /\ sess = [b \in Bridge |-> NoSession]
    /\ lease = [p \in Peer |-> [owner |-> None, window |-> None]]
    /\ names \in [Peer -> [Name -> {None}]]
    /\ renames = 0
    /\ meant = [c \in Client |-> {}]

-----------------------------------------------------------------------------
(***************************************************************************)
(* The asking client                                                        *)
(***************************************************************************)
Live(p) == lease[p].owner # None

\* @peer:name
Named(c, p, n) ==
    /\ client[c].pc = "idle"
    /\ client' = [client EXCEPT ![c].pc = "live", ![c].peer = p, ![c].name = n]
    /\ UNCHANGED <<row, lastId, sess, lease, names, renames, meant>>

\* Connected peers whose bridge was launched from window w.
ThroughWindow(w) == {p \in Peer : Live(p) /\ lease[p].window = w}

\* The positional form: whoever window w's bridge is connected to.  No such
\* bridge leaves the name to local resolution, several are ambiguous.
Through(c, w, n) ==
    /\ client[c].pc = "idle"
    /\ \/ \E p \in Peer : /\ ThroughWindow(w) = {p}
                          /\ client' = [client EXCEPT ![c].pc = "live", ![c].peer = p,
                                                      ![c].name = n]
       \/ /\ Cardinality(ThroughWindow(w)) # 1
          /\ client' = [client EXCEPT ![c].pc = "failed"]
    /\ UNCHANGED <<row, lastId, sess, lease, names, renames, meant>>

\* request_resolution reads the lease before its transaction.
CheckLive(c) ==
    /\ client[c].pc = "live"
    /\ client' = [client EXCEPT ![c].pc = IF Live(client[c].peer) THEN "insert" ELSE "failed"]
    /\ UNCHANGED <<row, lastId, sess, lease, names, renames, meant>>

Kept == [id \in Id |-> IF row[id].age = "old" THEN NoRow ELSE row[id]]

\* A bug this definition could have: a rowid without AUTOINCREMENT, which may
\* be that of a deleted question.
NextId_rowid == IF \E id \in Id : Kept[id].age # "absent"
                THEN 1 + CHOOSE id \in Id : Kept[id].age # "absent"
                        /\ \A other \in Id : Kept[other].age # "absent" => other =< id
                ELSE 1

NextId == lastId + 1

Pending(p) == {id \in Id : Waiting(id) /\ row[id].peer = p}

\* A bug this definition could have: off by one.
Insert_one_more(c) ==
    /\ client[c].pc = "insert"
    /\ Cardinality(Pending(client[c].peer)) =< MaxPending
    /\ NextId =< MaxId
    /\ row' = [Kept EXCEPT ![NextId] = [NoRow EXCEPT !.peer = client[c].peer,
                            !.name = client[c].name, !.age = "fresh"]]
    /\ lastId' = NextId
    /\ client' = [client EXCEPT ![c].pc = "poll", ![c].id = NextId]
    /\ meant' = [meant EXCEPT ![c] = {names[client[c].peer][client[c].name]}]
    /\ UNCHANGED <<sess, lease, names, renames>>

Insert(c) ==
    /\ client[c].pc = "insert"
    /\ Cardinality(Pending(client[c].peer)) < MaxPending
    /\ NextId =< MaxId
    /\ row' = [Kept EXCEPT ![NextId] = [NoRow EXCEPT !.peer = client[c].peer,
                            !.name = client[c].name, !.age = "fresh"]]
    /\ lastId' = NextId
    /\ client' = [client EXCEPT ![c].pc = "poll", ![c].id = NextId]
    /\ meant' = [meant EXCEPT ![c] = {names[client[c].peer][client[c].name]}]
    /\ UNCHANGED <<sess, lease, names, renames>>

\* rate_limited: the deletion rolls back with the transaction.
InsertRefused(c) ==
    /\ client[c].pc = "insert"
    /\ Cardinality(Pending(client[c].peer)) >= MaxPending
    /\ client' = [client EXCEPT ![c].pc = "failed"]
    /\ UNCHANGED <<row, lastId, sess, lease, names, renames, meant>>

\* take_resolution reads an answer, and deletes it in a second statement.
TakeRead(c) ==
    /\ client[c].pc = "poll"
    /\ row[client[c].id].answered
    /\ client' = [client EXCEPT ![c].pc = "took", ![c].value = row[client[c].id].value]
    /\ UNCHANGED <<row, lastId, sess, lease, names, renames, meant>>

TakeDelete(c) ==
    /\ client[c].pc = "took"
    /\ row' = [row EXCEPT ![client[c].id] = NoRow]
    /\ client' = [client EXCEPT ![c].pc = "done"]
    /\ UNCHANGED <<lastId, sess, lease, names, renames, meant>>

\* A bug this definition could have: the deadline is read from the question,
\* and the question may be gone.
GiveUp_row_says(c) ==
    /\ client[c].pc = "poll"
    /\ row[client[c].id].age \in {"late", "old"}
    /\ client' = [client EXCEPT ![c].pc = "failed"]
    /\ UNCHANGED <<row, lastId, sess, lease, names, renames, meant>>

\* ask looks once more and then gives up, RESOLUTION_TIMEOUT_MS after the row
\* was made.
GiveUp(c) ==
    /\ client[c].pc = "poll"
    /\ row[client[c].id].age # "fresh"
    /\ ~row[client[c].id].answered
    /\ client' = [client EXCEPT ![c].pc = "failed"]
    /\ UNCHANGED <<row, lastId, sess, lease, names, renames, meant>>

\* RESOLUTION_TIMEOUT_MS, then RESOLUTION_RETENTION_MS pass.
Ages(id) ==
    /\ row[id].age \in {"fresh", "late"}
    /\ row' = [row EXCEPT ![id].age = IF @ = "fresh" THEN "late" ELSE "old"]
    /\ UNCHANGED <<lastId, client, sess, lease, names, renames, meant>>

-----------------------------------------------------------------------------
(***************************************************************************)
(* The bridge, and the peer behind it                                       *)
(***************************************************************************)

\* A connection starts by taking the lease, which nobody else holds live.
Connect(b, p, w) ==
    /\ sess[b].peer = None /\ ~Live(p)
    /\ sess' = [sess EXCEPT ![b].peer = p]
    /\ lease' = [lease EXCEPT ![p] = [owner |-> b, window |-> w]]
    /\ UNCHANGED <<row, lastId, client, names, renames, meant>>

\* The lease of a bridge that stopped renewing runs out; the bridge may not
\* have noticed, and still handle what it hears.
LeaseLapses(p) ==
    /\ Live(p)
    /\ lease' = [lease EXCEPT ![p] = [owner |-> None, window |-> None]]
    /\ UNCHANGED <<row, lastId, client, sess, names, renames, meant>>

\* The connection ends, with everything on its wires; the lease is released.
Hangup(b) ==
    /\ sess[b].peer # None
    /\ sess' = [sess EXCEPT ![b].asked = {}, ![b].questions = <<>>, ![b].answers = <<>>,
                            ![b].peer = None]
    /\ lease' = [p \in Peer |-> IF lease[p].owner = b THEN [owner |-> None, window |-> None]
                                ELSE lease[p]]
    /\ UNCHANGED <<row, lastId, client, names, renames, meant>>

\* forward_resolutions: a pending question this connection has not asked yet.
ForwardResolution(b, id) ==
    /\ sess[b].peer # None
    /\ Waiting(id) /\ row[id].peer = sess[b].peer /\ id \notin sess[b].asked
    /\ sess' = [sess EXCEPT ![b].asked = @ \cup {id},
                            ![b].questions = Append(@, [id |-> id, name |-> row[id].name])]
    /\ UNCHANGED <<row, lastId, client, lease, names, renames, meant>>

\* The peer handles Resolve: what the name means in its directory now, or that
\* it means nothing.
HandleResolve(b) ==
    /\ sess[b].questions # <<>>
    /\ LET q == Head(sess[b].questions)
       IN  sess' = [sess EXCEPT ![b].questions = Tail(@),
                ![b].answers = Append(@, [id |-> q.id,
                                          value |-> names[sess[b].peer][q.name]])]
    /\ UNCHANGED <<row, lastId, client, lease, names, renames, meant>>

\* answer_resolution: only the peer that was asked can answer, and only once.
AnswerResolution(p, id, v) ==
    IF Exists(id) /\ row[id].peer = p /\ ~row[id].answered
    THEN [row EXCEPT ![id].answered = TRUE, ![id].value = v] ELSE row

\* answer: only to a question this connection asked and has no answer to.
Answer(b) ==
    /\ sess[b].answers # <<>>
    /\ LET a == Head(sess[b].answers)
       IN  /\ sess' = [sess EXCEPT ![b].answers = Tail(@), ![b].asked = @ \ {a.id}]
           /\ row' = IF a.id \in sess[b].asked
                     THEN AnswerResolution(sess[b].peer, a.id, a.value) ELSE row
    /\ UNCHANGED <<lastId, client, lease, names, renames, meant>>

\* Another agent is at a name of peer p from now on.
Rename(p, n, e) ==
    /\ renames < MaxRenames /\ names[p][n] # e
    /\ names' = [names EXCEPT ![p][n] = e]
    /\ renames' = renames + 1
    /\ meant' = [c \in Client |->
            IF client[c].pc = "poll" /\ client[c].peer = p /\ client[c].name = n
            THEN meant[c] \cup {e} ELSE meant[c]]
    /\ UNCHANGED <<row, lastId, client, sess, lease>>

ClientStep(c) ==
    \/ CheckLive(c) \/ Insert(c) \/ InsertRefused(c)
    \/ TakeRead(c) \/ TakeDelete(c) \/ GiveUp(c)

Next ==
    \/ \E c \in Client, p \in Peer, n \in Name : Named(c, p, n)
    \/ \E c \in Client, w \in Window, n \in Name : Through(c, w, n)
    \/ \E c \in Client : ClientStep(c)
    \/ \E id \in Id : Ages(id)
    \/ \E b \in Bridge, p \in Peer, w \in Window : Connect(b, p, w)
    \/ \E p \in Peer : LeaseLapses(p)
    \/ \E b \in Bridge : Hangup(b)
    \/ \E b \in Bridge, id \in Id : ForwardResolution(b, id)
    \/ \E b \in Bridge : HandleResolve(b)
    \/ \E b \in Bridge : Answer(b)
    \/ \E p \in Peer, n \in Name, e \in Agent \cup {None} : Rename(p, n, e)

Spec == Init /\ [][Next]_vars

\* A client that polls goes on, and time passes; nothing is asked of bridges.
FairSpec ==
    /\ Spec
    /\ \A c \in Client : WF_vars(ClientStep(c))
    /\ \A id \in Id : WF_vars(Ages(id))

-----------------------------------------------------------------------------
(***************************************************************************)
(* Properties                                                               *)
(***************************************************************************)

\* request_resolution: "an alias or address means whatever is in that place on
\* that host now": the agent a client gets is one its name named, on the peer
\* it asked, at some moment since it asked.  A late answer to a question that
\* somebody gave up on never becomes the answer to another.
AnswersAreCurrent ==
    \A c \in Client : client[c].pc \in {"took", "done"} => client[c].value \in meant[c]

\* However many clients pass the lease check together, a peer never has more
\* than MAX_PENDING_RESOLUTIONS questions waiting.
QuestionsBounded == \A p \in Peer : Cardinality(Pending(p)) =< MaxPending

\* ask returns whatever happens to the bridge, to the answer and to the row:
\* a client that asked is eventually done, also when its question was deleted
\* as too old before it looked again.
AskReturns == \A c \in Client : client[c].pc = "poll" ~> client[c].pc \in {"done", "failed"}
=============================================================================
