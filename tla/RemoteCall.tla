----------------------------- MODULE RemoteCall -----------------------------
(***************************************************************************)
(* What asking an agent of another host promises, without connections,      *)
(* leases, claims or receipts: each request has an asker's side, a worker's *)
(* side and one answer, and each of them only ever moves forward.           *)
(***************************************************************************)
CONSTANT Request

VARIABLES
    asker,    \* none, waiting, and how the asker's wait ended
    worker,   \* none, has it, and what became of it there
    answer    \* none, written by the worker, arrived at the asker

callVars == <<asker, worker, answer>>

CallInit ==
    /\ asker = [q \in Request |-> "none"]
    /\ worker = [q \in Request |-> "none"]
    /\ answer = [q \in Request |-> "none"]

AskerMoves(q, from, to) ==
    /\ asker[q] = from /\ asker' = [asker EXCEPT ![q] = to]
    /\ UNCHANGED <<worker, answer>>

WorkerMoves(q, from, to) ==
    /\ worker[q] = from /\ worker' = [worker EXCEPT ![q] = to]
    /\ UNCHANGED <<asker, answer>>

Ask(q) == AskerMoves(q, "none", "waiting")

\* The request arrives, once.  It may arrive after its asker stopped waiting.
Arrive(q) == asker[q] # "none" /\ WorkerMoves(q, "none", "has")

\* The worker writes the one answer and is done with the request.
Work(q) ==
    /\ worker[q] = "has" /\ worker' = [worker EXCEPT ![q] = "answered"]
    /\ answer[q] = "none" /\ answer' = [answer EXCEPT ![q] = "written"]
    /\ UNCHANGED asker

\* The answer reaches an asker that still waits, and ends the wait.
AnswerArrives(q) ==
    /\ asker[q] = "waiting"
    /\ answer[q] = "written" /\ answer' = [answer EXCEPT ![q] = "arrived"]
    /\ UNCHANGED <<asker, worker>>

TakeAnswer(q) == answer[q] = "arrived" /\ AskerMoves(q, "waiting", "answered")

\* The asker is told that the peer refused the request.
Refuse(q) == AskerMoves(q, "waiting", "undeliverable")

\* The asker is told that it is cancelled.
Withdraw(q) == AskerMoves(q, "waiting", "cancelled")
Overdue(q) == AskerMoves(q, "waiting", "expired")

\* The work is stopped, or expires before anybody finishes it.
StopWork(q) == WorkerMoves(q, "has", "cancelled")
WorkOverdue(q) == WorkerMoves(q, "has", "expired")

CallNext ==
    \E q \in Request :
        \/ Ask(q) \/ Arrive(q) \/ Work(q) \/ AnswerArrives(q) \/ TakeAnswer(q)
        \/ Refuse(q) \/ Withdraw(q) \/ Overdue(q) \/ StopWork(q) \/ WorkOverdue(q)

CallSpec == CallInit /\ [][CallNext]_callVars
=============================================================================
