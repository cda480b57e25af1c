----------------------------- MODULE Addresses -----------------------------
(***************************************************************************)
(* Addresses and the sentinels that stand for an absent value where one    *)
(* crosses the facade.                                                     *)
(***************************************************************************)
EXTENDS Integers, Sequences, FiniteSets, SequencesExt

CONSTANT BADADDR      \* the sentinel, and the largest u64

ASSUME AddressAssumption == BADADDR \in Nat /\ BADADDR > 1

None == <<>>
Some(x) == <<x>>
Unless(value, sentinel) == IF value = sentinel THEN None ELSE Some(value)

(* Address: every u64 but the sentinel.                                    *)
MAX_EA == BADADDR - 1
Address == 0..MAX_EA
try_new(raw) == IF raw = BADADDR THEN None ELSE Some(raw)
Add(a, n) == IF a + n > MAX_EA THEN MAX_EA ELSE a + n
distance_to(a, end) == IF end < a THEN 0 ELSE end - a

(* A raw integer of the kernel's as the code of a closed enum: negative    *)
(* ones read as 0, and only the low byte is kept.                          *)
AsU8(raw) == IF raw < 0 THEN 0 ELSE raw % 256
TryFrom(codes, raw) == IF AsU8(raw) \in codes THEN Some(AsU8(raw)) ELSE None
=============================================================================
