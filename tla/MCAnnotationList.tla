-------------------------- MODULE MCAnnotationList --------------------------
(* An instance of AnnotationList for TLC: two policies share a resource    *)
(* with two containers, which are recorded in either order.                *)
EXTENDS AnnotationList

CONSTANTS c1, c2

MCOrders == {<<c1, c2>>, <<c2, c1>>}
=============================================================================
