------------------------------ MODULE MCNaming ------------------------------
(* Naming on small instances. *)
EXTENDS Naming, TLC

\* Two instances with names of their own.
TwoNames == "i1" :> "vivida:main" @@ "i2" :> "vvmux:dev"

\* The same name for both, which ids given by hand allow.
OneName == "i1" :> "vivida:main" @@ "i2" :> "vivida:main"

\* A plain name.
Reviewer == << <<0, 1>> >>

At(s, t, w, f, p) == <<s, t, w, f, p>>

\* Nowhere, tab 2 of one space, pane 2 of a frame in its tab 1, and tab 2 of
\* another space.
Places == {Nowhere, At(1, 2, 2, 0, 0), At(1, 1, 1, 1, 2), At(2, 2, 3, 0, 0)}

\* A pane, which is also an agent's alias.
Pane2 == << <<5, 2>> >>

\* `reviewer', `t2', `s1', `p2', `w1p2', and two that are no addresses: `t2s1'
\* and `p0'.
Typed == {Reviewer, << <<2, 2>> >>, << <<1, 1>> >>, Pane2, << <<3, 1>>, <<5, 2>> >>,
          << <<2, 2>>, <<1, 1>> >>, << <<5, 0>> >>}

PlainAliases == {Reviewer}
PaneAliases == {Reviewer, Pane2}
=============================================================================
