----------------------------- MODULE MCMeshGate -----------------------------
(***************************************************************************)
(* Every question about one sender, two instances and two spaces.  A gate   *)
(* reads only its own rule, so the three rules of a policy are the same.    *)
(***************************************************************************)
EXTENDS MeshGate

AllSpaceFields == NoSpace \cup {"s1", "s2"}

AllRequests == {r \in RequestRecord : /\ r.target_scope = "i1"
                                      /\ r.target_space # "s2"}

AllPolicies == {p \in PolicyRecord : /\ p.make_visible = p.enqueue
                                     /\ p.activate = p.enqueue
                                     /\ p.pty_nudge = p.interrupt}
=============================================================================
