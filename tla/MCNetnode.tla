----------------------------- MODULE MCNetnode -----------------------------
(* Bytes of base 6, a u64 of two of them, objects of at most three.  The     *)
(* objects are empty, a text, and one over the cap that is no text, whose    *)
(* blob takes two slots; the serde form of the text fills a slot.            *)
(* The second hash key is the first with a NUL and more after it.            *)
EXTENDS Netnode

MCNodes == {0, 5}
MCObjects == {<<>>, <<2, 1>>, <<1, 5, 2, 1>>}
MCCStr == [k \in Keys |-> IF k = 2 THEN 1 ELSE k]

\* One node.
OneNode == {5}

\* What the last call was asked is history, read only by the properties of a
\* step, which TLC evaluates on every step.
Store == <<names, objs, cursor>>

=============================================================================
