------------------------------- MODULE Naming -------------------------------
(***************************************************************************)
(* Naming an agent: what a typed selector stands for (Selector::parse,     *)
(* RemoteSelector::parse), how it is resolved against the directory from   *)
(* where the caller sits (resolve, resolve_selector), and the names that   *)
(* an ambiguous selector's error offers to retype (qualified_name).        *)
(*                                                                         *)
(* A typed word is a sequence of segments; a plain name is one segment of  *)
(* no level, <<0, n>>.  Every word spells a legal alias, and one whose     *)
(* segments are well formed an address too: the code keeps both readings   *)
(* and so does the model.                                                  *)
(***************************************************************************)
EXTENDS Address

CONSTANTS Endpoints,   \* endpoint ids
          Instances,   \* runtime instance ids
          NameOf,      \* [Instances -> the instance's kind and human name]
          Aliases,     \* words used as aliases
          Addresses,   \* the addresses endpoints have; Nowhere for none
          Words,       \* what callers type
          Windows      \* windows a bridge to a peer may be anchored on

VARIABLES directory,   \* the endpoint table
          bridged,     \* windows that carry a live bridge
          asked,       \* who asked, and for what
          found,       \* what resolution said
          meant        \* the candidate a retyped name was offered for

namingVars == <<directory, bridged, asked, found, meant>>

NoAlias == <<>>
Nobody == "nobody"

\* An instance is named by its kind and its name, never by the word that stands
\* for any of them; nobody types an empty word.
ASSUME NamingAssumption ==
  /\ IsFiniteSet(Endpoints) /\ Nobody \notin Endpoints
  /\ Addresses \subseteq Address
  /\ NoAlias \notin Words
  /\ \A i \in Instances : NameOf[i] # "any"

EndpointRow == [instance : Instances, alias : Aliases \cup {NoAlias}, address : Addresses]

\* One alias per runtime instance (index endpoint_alias_scope).
Directory ==
  {d \in [Endpoints -> EndpointRow] :
     \A e, f \in Endpoints : e # f /\ d[e].alias = d[f].alias /\ d[e].alias # NoAlias =>
       d[e].instance # d[f].instance}

-----------------------------------------------------------------------------
\* Selectors.

Selector(scope, word) == [id |-> Nobody, scope |-> scope, word |-> word]

ExactId(e) == [id |-> e, scope |-> "any", word |-> <<>>]

\* Whether a word can be read as an address, and the address it is.
ReadsAsAddress(word) == word \in Seq(Segment) /\ word # <<>> /\ WellFormed(word)

\* RemoteSelector::parse, the positional form: a bare address with a window and
\* something past it may mean what is there on the host behind that window.
ReadsAsRemote(selector) ==
  /\ selector.scope = "any"
  /\ ReadsAsAddress(selector.word)
  /\ AddressOf(selector.word)[Window] # 0
  /\ PastWindow(AddressOf(selector.word)) # Nowhere

\* remote::resolve: only if a bridge is anchored there; otherwise it is local.
GoesRemote(selector) ==
  /\ selector.id = Nobody
  /\ ReadsAsRemote(selector)
  /\ AddressOf(selector.word)[Window] \in bridged

\* 2 and 3: in the selector's instance, by either reading of the word.
Matches(selector) ==
  {e \in Endpoints :
     /\ selector.scope \in {"any", NameOf[directory[e].instance]}
     /\ \/ directory[e].alias = selector.word
        \/ /\ ReadsAsAddress(selector.word)
           /\ directory[e].address # Nowhere
           /\ Satisfies(directory[e].address, AddressOf(selector.word))}

\* Keep the preferred ones of several, if there are any.
Prefer(matches, preferred) ==
  IF Cardinality(matches) > 1 /\ preferred # {} THEN preferred ELSE matches

\* 4: somebody else in the region the caller sits in.
Others(matches, caller) == Prefer(matches, matches \ {caller})

\* 5: the caller's own runtime instance.
Mine(matches, caller) ==
  IF caller = Nobody THEN matches
  ELSE Prefer(matches, {e \in matches : directory[e].instance = directory[caller].instance})

Closeness(e, here) ==
  IF directory[e].address = Nowhere THEN 0 ELSE SharedPrefix(directory[e].address, here)

\* A bug this definition could have: the closest are kept even when none is close.
Nearest_any_distance(matches, caller) ==
  IF caller = Nobody \/ Cardinality(matches) <= 1 THEN matches
  ELSE LET here == directory[caller].address
       IN {CHOOSE e \in matches : \A f \in matches : Closeness(f, here) <= Closeness(e, here)}

\* 6: the caller's own neighbourhood.
Nearest(matches, caller) ==
  IF caller = Nobody THEN matches
  ELSE LET here == directory[caller].address
           best == {e \in matches : /\ Closeness(e, here) > 0
                                    /\ \A f \in matches : Closeness(f, here) <= Closeness(e, here)}
       IN IF here = Nowhere THEN matches ELSE Prefer(matches, best)

\* resolve: the endpoints left, one if the selector is settled.
Resolve(selector, caller) ==
  IF selector.id # Nobody THEN {selector.id} \cap Endpoints
  ELSE Nearest(Mine(Others(Matches(selector), caller), caller), caller)

\* A bug this definition could have: the alias is offered without its instance.
QualifiedName_bare(e) ==
  LET row == directory[e]
  IN IF row.alias # NoAlias THEN Selector("any", row.alias)
     ELSE IF row.address # Nowhere THEN Selector(NameOf[row.instance], Rendered(row.address))
     ELSE ExactId(e)

\* qualified_name: the alias if there is one, else the address, in the
\* endpoint's instance; the id when it has neither.
QualifiedName(e) ==
  LET row == directory[e]
  IN IF row.alias # NoAlias THEN Selector(NameOf[row.instance], row.alias)
     ELSE IF row.address # Nowhere THEN Selector(NameOf[row.instance], Rendered(row.address))
     ELSE ExactId(e)

-----------------------------------------------------------------------------
NotAsked == [caller |-> Nobody, selector |-> ExactId(Nobody)]

NamingInit ==
  /\ directory \in Directory
  /\ bridged \in SUBSET Windows
  /\ asked = NotAsked
  /\ found = {}
  /\ meant = Nobody

\* resolve_selector: a remote reading first, then the local directory.
Answer(caller, selector) ==
  /\ asked' = [caller |-> caller, selector |-> selector]
  /\ found' = IF GoesRemote(selector) THEN {"remote"} ELSE Resolve(selector, caller)

Ask(caller, word) ==
  /\ asked = NotAsked
  /\ Answer(caller, Selector("any", word))
  /\ UNCHANGED <<directory, bridged, meant>>

\* agent_ambiguous: the caller types one of the names it was offered.
Retype(e) ==
  /\ Cardinality(found) > 1
  /\ e \in found
  /\ meant = Nobody
  /\ meant' = e
  /\ Answer(asked.caller, QualifiedName(e))
  /\ UNCHANGED <<directory, bridged>>

\* An agent is bound again elsewhere, or its address moves, before the next question.
Again(e, row) ==
  /\ meant # Nobody
  /\ Cardinality(found) > 1
  /\ [directory EXCEPT ![e] = row] \in Directory
  /\ directory' = [directory EXCEPT ![e] = row]
  /\ asked' = NotAsked
  /\ found' = {}
  /\ meant' = Nobody
  /\ UNCHANGED bridged

NamingNext ==
  \/ \E caller \in Endpoints \cup {Nobody}, word \in Words : Ask(caller, word)
  \/ \E e \in Endpoints : Retype(e)
  \/ \E e \in Endpoints, row \in EndpointRow : Again(e, row)

NamingSpec == NamingInit /\ [][NamingNext]_namingVars

-----------------------------------------------------------------------------
\* Every variable has its type: aliases stay unique in their instance, and an
\* answer is made of endpoints, or remote alone.
NamingTypeOK ==
  /\ directory \in Directory
  /\ bridged \subseteq Windows
  /\ asked.caller \in Endpoints \cup {Nobody}
  /\ found \subseteq Endpoints \/ found = {"remote"}
  /\ meant \in Endpoints \cup {Nobody}

\* The reference: rank every match by being somebody else, then by sharing the
\* caller's instance, then by closeness.
Rank(e, caller) ==
  << IF e = caller THEN 0 ELSE 1,
     IF caller # Nobody /\ directory[e].instance = directory[caller].instance THEN 1 ELSE 0,
     IF caller = Nobody \/ directory[caller].address = Nowhere THEN 0
     ELSE Closeness(e, directory[caller].address) >>

Below(r, s) ==
  \/ r[1] < s[1]
  \/ r[1] = s[1] /\ r[2] < s[2]
  \/ r[1] = s[1] /\ r[2] = s[2] /\ r[3] < s[3]

Best(matches, caller) ==
  {e \in matches : \A f \in matches : ~Below(Rank(e, caller), Rank(f, caller))}

\* "More than one match is never silently narrowed to one": the steps of resolve
\* leave exactly the best ranked matches, so one endpoint is answered only when it
\* beats every other match, and a tie is always reported.
NeverSilentlyNarrowed ==
  asked # NotAsked /\ asked.selector.id = Nobody /\ found # {"remote"} =>
    found = Best(Matches(asked.selector), asked.caller)

\* An instance id given by hand can share its name with another; a derived one
\* cannot.
NamesDistinct == \A i, j \in Instances : NameOf[i] = NameOf[j] => i = j

\* As long as no alias reads as an address and no two instances share a name, a
\* name offered to settle an ambiguity never leads to another agent than the one
\* it was offered for: retyped, it finds that agent, perhaps among others still.
RetypingNeverMisdirects ==
  /\ meant # Nobody
  /\ NamesDistinct /\ \A e \in Endpoints : ~ReadsAsAddress(directory[e].alias)
  => meant \in found

\* The same whatever agents are called, which the code does not keep.
NoNameMisdirects == meant # Nobody => meant \in found

\* "The mesh reports the ambiguity with the selectors you could retype instead of
\* guessing": an offered name, retyped by the same caller, settles the question,
\* unless another agent sits at the very same address.
RetypingSettles ==
  meant # Nobody =>
    \/ found = {meant}
    \/ \E f \in Endpoints \ {meant} : directory[f].address = directory[meant].address
=============================================================================
