----------------------------- MODULE MCGcCycle -----------------------------
(* GcCycle with one heap: 3 has the inner object 4, which has the inner    *)
(* object 2, and 1 is another inner object of 3 that refers weakly to 2.   *)
EXTENDS GcCycle

Parents == {<<1, 3>>, <<2, 4>>, <<4, 3>>}
Children == {<<3, 4>>, <<4, 2>>}

InnerObjects ==
  [p \in Parents \cup Children \cup {<<1, 2>>} |->
     IF p \in Parents THEN "strong" ELSE IF p \in Children THEN "normal" ELSE "weak"]

InnerSpec == refs = InnerObjects /\ GcInit /\ [][GcNext]_gc_vars

=============================================================================
