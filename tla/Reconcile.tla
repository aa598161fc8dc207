----------------------------- MODULE Reconcile -----------------------------
(***************************************************************************)
(* Keeping endpoint addresses in step with a runtime's layout: binding     *)
(* with an inherited address, `vvagent readdress', and the reconcile pass  *)
(* of the watcher (reconcile.rs), which runs a layout command, reads what  *)
(* it printed, lists the endpoints and corrects them one by one, each in a *)
(* transaction of its own, while windows go on moving and agents are bound *)
(* again in other windows.                                                 *)
(*                                                                         *)
(* The runtime instance has items (windows, or vvmux panes), known by      *)
(* their numbers, each at a position <<outer, inner>>: the space and tab   *)
(* of a window, or <<0, frame>> of a pane.  A runtime that restarts keeps  *)
(* its instance id and may give a number to a new item.  The runtime, and  *)
(* the layout command it answers, are external.                            *)
(***************************************************************************)
EXTENDS Address

CONSTANTS Agents,   \* agents
          Items,       \* the numbers of the items of this instance
          Ours,        \* the endpoints bound in this instance; the rest are in another
          Shape,       \* "window" or "pane": what the layout command lists
          Positions,   \* the positions an item may have
          Host,        \* the address of the host window a nested runtime inherited
          PipeSize,    \* how many items of output fit the pipe of the layout command
          Elsewhere,   \* the address of every endpoint of the other instance
          MaxMoves     \* bound on moves, restarts, later binds and failed layout commands

VARIABLES place,    \* where each item is
          been,     \* history: every place it has been
          env,      \* the address each item's environment was given at creation
          address,  \* endpoint.address; Nowhere before the endpoint is bound
          home,     \* history: the item each agent was last bound in, 0 before
          owed,     \* history: items whose place was on its way to the agent at that bind
          notices,  \* readdress commands the runtime has started
          hands,    \* readdress commands that have found their endpoint: [agent, moved]
          pass,     \* the reconcile pass under way
          child,    \* the layout command
          moves

layoutVars ==
  <<place, been, env, address, home, owed, notices, hands, pass, child, moves>>

binds == <<home, owed>>
commands == <<notices, hands>>

\* Indices are one-based, and a position is made of indices, 0 for a level it
\* lacks.
ASSUME LayoutAssumption ==
  /\ Ours \subseteq Agents
  /\ Items \subseteq 1..MaxIndex
  /\ Shape \in {"window", "pane"}
  /\ Positions \subseteq (0..MaxIndex) \X (0..MaxIndex)
  /\ Host \in Address /\ Elsewhere \in Address

\* The level that numbers items, and the one segment that is instance-unique.
ItemLevel == IF Shape = "window" THEN Window ELSE Pane

AnchorOf(i) == [Nowhere EXCEPT ![ItemLevel] = i]

\* window_placement: sNtNwN; frame_placement: fNpN.  A level the runtime does
\* not have (index 0) is left out.
Placement(i, p) ==
  IF Shape = "window"
  THEN [AnchorOf(i) EXCEPT ![Space] = p[1], ![Tab] = p[2]]
  ELSE [AnchorOf(i) EXCEPT ![Frame] = p[2]]

\* resolve_address: the host's levels joined with the pane's own; an own address
\* that already covers them is taken as the whole.
ResolveAddress(prefix, own) == IF Overlap(prefix, own) THEN own ELSE Join(prefix, own)

\* Where an item really is.
TrueAddress(i, p) == ResolveAddress(Host, Placement(i, p))

NoPass == [at |-> "idle", layout |-> <<>>, listed |-> <<>>, todo |-> {}]

NoChild == [at |-> "none", layout |-> <<>>, printed |-> 0]

LayoutInit ==
  /\ place \in [Items -> Positions]
  /\ been = [i \in Items |-> {place[i]}]
  /\ env = [i \in Items |-> TrueAddress(i, place[i])]
  /\ address = [e \in Agents |-> Nowhere]
  /\ home = [e \in Ours |-> 0]
  /\ owed = [e \in Ours |-> {}]
  /\ notices = {}
  /\ hands = {}
  /\ pass = NoPass
  /\ child = NoChild
  /\ moves = 0

-----------------------------------------------------------------------------
\* An item is dragged elsewhere; the runtime reports it with `vvagent readdress'.
Move(i, p) ==
  /\ moves < MaxMoves
  /\ place[i] # p
  /\ place' = [place EXCEPT ![i] = p]
  /\ been' = [been EXCEPT ![i] = @ \cup {p}]
  /\ notices' = notices \cup {TrueAddress(i, p)}
  /\ moves' = moves + 1
  /\ UNCHANGED <<env, address, binds, hands, pass, child>>

\* The runtime has restarted and gives the number to a new item, at p: nothing is
\* reported, and the rows of who was bound under it stay.
Reopen(i, p) ==
  /\ moves < MaxMoves
  /\ place' = [place EXCEPT ![i] = p]
  /\ been' = [been EXCEPT ![i] = @ \cup {p}]
  /\ env' = [env EXCEPT ![i] = TrueAddress(i, p)]
  /\ moves' = moves + 1
  /\ UNCHANGED <<address, binds, commands, pass, child>>

\* A bug this definition could have: the instance is not asked.
MatchesIn_any_instance(addresses, anchor) ==
  {e \in Agents : addresses[e] # Nowhere /\ Satisfies(addresses[e], anchor)}

\* Who sits at this anchor in this instance, by the addresses as listed.
MatchesIn(addresses, anchor) ==
  {e \in Ours : addresses[e] # Nowhere /\ Satisfies(addresses[e], anchor)}

\* Whom the pass will give the place of i: exactly one endpoint at its anchor, with
\* another address; two at one anchor are left alone.
Corrected(i) ==
  {e \in Agents : /\ MatchesIn(pass.listed, AnchorOf(i)) = {e}
                  /\ pass.listed[e] # Placement(i, pass.layout[i])}

\* The items whose place a pass or a command has already decided to give to e.
InHand(e) ==
  {i \in pass.todo : pass.at = "set" /\ e \in Corrected(i)}
    \cup {h.moved[ItemLevel] : h \in {g \in hands : g.agent = e}}

\* bind, in item i: the first, or again after a restart there or elsewhere.  The
\* address is the one the environment was given when the item was made, and
\* replaces what the row had.
Bind(e, i) ==
  /\ IF home[e] = 0 THEN moves' = moves ELSE moves < MaxMoves /\ moves' = moves + 1
  /\ address' = [address EXCEPT ![e] = env[i]]
  /\ home' = [home EXCEPT ![e] = i]
  /\ owed' = [owed EXCEPT ![e] = InHand(e)]
  /\ UNCHANGED <<place, been, env, commands, pass, child>>

\* An endpoint of the other instance is bound there.
BindElsewhere(e) ==
  /\ address[e] = Nowhere
  /\ address' = [address EXCEPT ![e] = Elsewhere]
  /\ UNCHANGED <<place, been, env, binds, commands, pass, child, moves>>

\* `vvagent readdress' lists the endpoints: who is to move is found by what survives
\* a move, and must be one.
ReaddressList(moved) ==
  /\ notices' = notices \ {moved}
  /\ hands' = hands \cup
       {[agent |-> e, moved |-> moved] :
          e \in {f \in Agents : MatchesIn(address, StableAnchor(moved)) = {f}}}
  /\ UNCHANGED <<place, been, env, address, binds, pass, child, moves>>

\* Then it sets that endpoint's address, by its id, whatever has happened since.
ReaddressSet(h) ==
  /\ hands' = hands \ {h}
  /\ address' = [address EXCEPT ![h.agent] = h.moved]
  /\ UNCHANGED <<place, been, env, binds, notices, pass, child, moves>>

-----------------------------------------------------------------------------
\* capture: spawn the layout command with its output piped, then wait for its
\* exit before reading the pipe.

Spawn ==
  /\ pass.at = "idle"
  /\ pass' = [pass EXCEPT !.at = "capture"]
  /\ child' = [at |-> "running", layout |-> place, printed |-> 0]
  /\ UNCHANGED <<place, been, env, address, binds, commands, moves>>

\* A write into a full pipe blocks.
ChildPrints ==
  /\ child.at = "running"
  /\ child.printed < Cardinality(Items)
  /\ child.printed < PipeSize
  /\ child' = [child EXCEPT !.printed = @ + 1]
  /\ UNCHANGED <<place, been, env, address, binds, commands, pass, moves>>

ChildExits ==
  /\ child.at = "running"
  /\ child.printed = Cardinality(Items)
  /\ child' = [child EXCEPT !.at = "exited"]
  /\ UNCHANGED <<place, been, env, address, binds, commands, pass, moves>>

\* The command fails, or prints no JSON: an error, and the pass is over.
ChildFails ==
  /\ child.at = "running"
  /\ moves < MaxMoves
  /\ moves' = moves + 1
  /\ child' = NoChild
  /\ pass' = NoPass
  /\ UNCHANGED <<place, been, env, address, binds, commands>>

\* The runtime does not answer the command.
ChildHangs ==
  /\ child.at = "running"
  /\ moves < MaxMoves
  /\ moves' = moves + 1
  /\ child' = [child EXCEPT !.at = "hung"]
  /\ UNCHANGED <<place, been, env, address, binds, commands, pass>>

\* It hangs, or has more to print than the pipe holds.
Blocked ==
  \/ child.at = "hung"
  \/ child.at = "running" /\ child.printed = PipeSize /\ PipeSize < Cardinality(Items)

\* TIMEOUT_SECS: killed.  A command that can go on is taken to end in time.
Deadline ==
  /\ pass.at = "capture"
  /\ Blocked
  /\ child' = NoChild
  /\ pass' = NoPass
  /\ UNCHANGED <<place, been, env, address, binds, commands, moves>>

\* wait_with_output, and placements of what was printed.
Capture ==
  /\ pass.at = "capture"
  /\ child.at = "exited"
  /\ pass' = [pass EXCEPT !.at = "list", !.layout = child.layout]
  /\ child' = NoChild
  /\ UNCHANGED <<place, been, env, address, binds, commands, moves>>

\* list_endpoints, after the layout was read: the pass works on this list.
ListEndpoints ==
  /\ pass.at = "list"
  /\ pass' = [pass EXCEPT !.at = "set", !.listed = address, !.todo = Items]
  /\ UNCHANGED <<place, been, env, address, binds, commands, child, moves>>

\* A bug this definition could have: only an endpoint without an address is corrected.
SetAddress_unset(i) ==
  /\ address' = [e \in Agents |-> IF e \in Corrected(i) /\ address[e] = Nowhere
                                  THEN Placement(i, pass.layout[i]) ELSE address[e]]
  /\ pass' = [pass EXCEPT !.todo = @ \ {i}]
  /\ UNCHANGED <<place, been, env, binds, commands, child, moves>>

\* One placement of the layout read: set_address by id, whatever has happened to
\* the endpoint since it was listed.
SetAddress(i) ==
  /\ address' = [e \in Agents |-> IF e \in Corrected(i)
                                  THEN Placement(i, pass.layout[i]) ELSE address[e]]
  /\ pass' = [pass EXCEPT !.todo = @ \ {i}]
  /\ UNCHANGED <<place, been, env, binds, commands, child, moves>>

FinishPass ==
  /\ pass.at = "set"
  /\ pass.todo = {}
  /\ pass' = NoPass
  /\ UNCHANGED <<place, been, env, address, binds, commands, child, moves>>

PassStep ==
  Spawn \/ Deadline \/ Capture \/ ListEndpoints \/ FinishPass
    \/ \E i \in pass.todo : pass.at = "set" /\ SetAddress(i)

ChildStep == ChildPrints \/ ChildExits

Command == (\E moved \in notices : ReaddressList(moved)) \/ (\E h \in hands : ReaddressSet(h))

LayoutNext ==
  \/ \E i \in Items, p \in Positions : Move(i, p) \/ Reopen(i, p)
  \/ \E e \in Ours, i \in Items : Bind(e, i)
  \/ \E e \in Agents \ Ours : BindElsewhere(e)
  \/ Command \/ ChildStep \/ ChildFails \/ ChildHangs \/ PassStep

LayoutSpec == LayoutInit /\ [][LayoutNext]_layoutVars

\* The watcher's loop goes on, the layout command is scheduled, and a started
\* readdress ends.
LayoutFairSpec ==
  /\ LayoutSpec
  /\ WF_layoutVars(PassStep)
  /\ WF_layoutVars(ChildStep)
  /\ WF_layoutVars(Command)

-----------------------------------------------------------------------------
\* Every variable has its type; no command is left running once its pass is over.
LayoutTypeOK ==
  /\ place \in [Items -> Positions]
  /\ env \in [Items -> Address]
  /\ address \in [Agents -> Address]
  /\ home \in [Ours -> Items \cup {0}] /\ owed \in [Ours -> SUBSET Items]
  /\ notices \subseteq Address
  /\ hands \subseteq [agent : Ours, moved : Address]
  /\ pass.at \in {"idle", "capture", "list", "set"}
  /\ pass.todo \subseteq Items
  /\ child.at \in {"none", "running", "hung", "exited"}
  /\ child.at # "none" <=> pass.at = "capture"
  /\ child.printed \in 0..PipeSize
  /\ moves \in 0..MaxMoves

\* The items whose place an agent may have: the one it was last bound in, and those
\* whose place was on its way to it at that moment.
MayBeIn(e) == Items \cap ({home[e]} \cup owed[e])

\* Whatever the order of moves, restarts, binds, late readdress commands and passes
\* working on old layouts and old lists, an endpoint only ever has an address that
\* the item it was last bound in has had; the one exception is an item whose place
\* a pass or a readdress had already found the endpoint for when it was bound.  It
\* is never given the place of any other window, of this instance or another.
NeverAnothersPlace ==
  \A e \in Agents : address[e] # Nowhere =>
    IF e \in Ours THEN \E i \in MayBeIn(e) : \E p \in been[i] : address[e] = TrueAddress(i, p)
    ELSE address[e] = Elsewhere

\* No other endpoint claims the same item.
Alone(e) == MatchesIn(address, AnchorOf(address[e][ItemLevel])) = {e}

InStep ==
  \A e \in Ours : address[e] # Nowhere /\ Alone(e) =>
    \E i \in MayBeIn(e) : address[e] = TrueAddress(i, place[i])

\* "Keep endpoint addresses in step with a runtime's layout": once windows stop
\* moving and agents stop being bound, every address that no other endpoint claims
\* becomes, and stays, where one of its windows (see MayBeIn) now is.
Converges == <>[]InStep

(***************************************************************************)
(* Statements that the code does not keep                                  *)
(***************************************************************************)

\* A pass "asks the runtime where everything is now and corrects any address that
\* has drifted", and so in the end every address that no other endpoint claims is
\* where the window is that its agent was last bound in.
ConvergesHome ==
  <>[](\A e \in Ours : address[e] # Nowhere /\ Alone(e) =>
         address[e] = TrueAddress(home[e], place[home[e]]))

\* The same of "any address that has drifted", also where two endpoints claim one
\* window, which the pass takes for "a runtime bug" and leaves alone.
ConvergesAll ==
  <>[](\A e \in Ours : address[e] # Nowhere =>
         \E i \in MayBeIn(e) : address[e] = TrueAddress(i, place[i]))

\* "The address followed it" (m25.rs, of an agent bound again in another pane): an
\* endpoint only ever has an address that the item it was last bound in has had.
NeverAFormerPlace ==
  \A e \in Ours : address[e] # Nowhere =>
    \E p \in been[home[e]] : address[e] = TrueAddress(home[e], p)

\* "Corrects any address that has drifted": a pass never changes an address that
\* was right.
OnlyDriftedAddressesChange ==
  [][\A e \in Ours :
       pass # pass' /\ address[e] # Nowhere
         /\ address[e] = TrueAddress(home[e], place[home[e]])
       => address'[e] = address[e]]_layoutVars
=============================================================================
