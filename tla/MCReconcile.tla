---------------------------- MODULE MCReconcile ----------------------------
(* Reconcile on small instances. *)
EXTENDS Reconcile, TLC

\* Spaces and tabs (index 0 is a level the runtime lacks).
SpacesAndTabs == {<<1, 1>>, <<2, 1>>}
Frames == {<<0, 1>>, <<0, 2>>}

\* Window 1 of the other instance, in space 2, tab 2.
AnotherWindow == [Nowhere EXCEPT ![Space] = 2, ![Tab] = 2, ![Window] = 1]
AnotherPane == [Nowhere EXCEPT ![Frame] = 3, ![Pane] = 1]

NoHost == Nowhere

\* A vvmux session inside window 3 of tab 1, space 1.
InWindow == [Nowhere EXCEPT ![Space] = 1, ![Tab] = 1, ![Window] = 3]
=============================================================================
