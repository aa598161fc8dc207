----------------------------- MODULE MCMailbox ------------------------------
(***************************************************************************)
(* Instances of Mailbox for TLC.                                            *)
(***************************************************************************)
EXTENDS Mailbox, TLC

CONSTANTS asker,       \* the process of the local user
          small,       \* a body of one byte; every other has two
          NumMsgs, NumSendKeys

ByteSizes == [d \in Body |-> IF d = small THEN 1 ELSE 2]

\* Everybody in one runtime instance, without addresses.
OneInstance == [e \in Endpoint |-> "i1"]
NoAddresses == [e \in Endpoint |-> "no_address"]

\* One message a minute, from a mailbox that may be hidden meanwhile; and a
\* rate that TLC cannot reach with interruption permitted.
Tight == [DefaultPolicy EXCEPT !.max_inbound_per_minute = 1]
TightAndBlind == {Tight, [Tight EXCEPT !.make_visible = "nobody"]}
Stoppable == [DefaultPolicy EXCEPT !.max_inbound_per_minute = 100, !.interrupt = TRUE]
OnlyStoppable == {Stoppable}

MsgIds == 1 .. NumMsgs

\* One asking process and one or more answering ones.
AskAndAnswer == [p \in Proc |-> IF p = asker THEN CHOOSE e \in User : TRUE
                                ELSE CHOOSE e \in Agent : TRUE]

\* The keys of sends, and the ones the command line (reply-<id>) and the MCP
\* server (mcp-reply-<id>) derive from the request they answer.
SendKeys == {"send"} \X (1 .. NumSendKeys)
UserSends == [e \in Endpoint |-> IF e \in User THEN SendKeys ELSE {}]
Keys == SendKeys \cup ({"reply", "mcp-reply"} \X MsgIds)
CliKey == [m \in MsgIds |-> {<<"reply", m>>}]
CliOrMcpKey == [m \in MsgIds |-> {<<"reply", m>>, <<"mcp-reply", m>>}]

Interchangeable == Permutations(Proc \ {asker})
=============================================================================
