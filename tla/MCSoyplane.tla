----------------------------- MODULE MCSoyplane -----------------------------
(* Instances of Soyplane: one module and one stack that refers to it. *)
EXTENDS Soyplane

CONSTANTS m1, s1

OneModule == {m1}
OneStack == {s1}
Ref == [s \in OneStack |-> m1]
=============================================================================
