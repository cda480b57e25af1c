----------------------------- MODULE NetnodeMap -----------------------------
(***************************************************************************)
(* What netnode/mod.rs promises of IDA's persistent store: every node is a *)
(* name and a set of collections (the value, the altvals, the supvals, the *)
(* hash, the blobs, the slots and the hash of each user tag), each a map   *)
(* of its own.  A write changes the one entry it names, a refused write    *)
(* changes nothing, a delete answers whether something was there, and a    *)
(* name belongs to one node.                                               *)
(*                                                                         *)
(* The last call is a variable, so that a step is held to what was asked:  *)
(* an entry is <<node, collection, key>>, a collection <<node, name>>.     *)
(***************************************************************************)
EXTENDS Naturals, Sequences

CONSTANT Cap     \* NetnodeBytes::MAX_SIZE

VARIABLES
  names,   \* node -> name, for the named nodes
  data,    \* what is stored: a set of <<entry, value>>
  call     \* the last call: [op, at, value, answer]

Live == DOMAIN names \cup {e[1][1] : e \in data}

Unnamed(n) == [m \in DOMAIN names \ {n} |-> names[m]]
Named(n, name) == [m \in DOMAIN names \cup {n} |-> IF m = n THEN name ELSE names[m]]

Set ==
  /\ call'.op = "set" /\ call'.answer = "ok"
  /\ data' = {e \in data : e[1] # call'.at} \cup {<<call'.at, call'.value>>}
  /\ UNCHANGED names

\* Only a byte object has a domain, and the answer names the end it left by.
Refuse ==
  /\ call'.op \in {"set", "rename"}
  /\ \/ call'.answer = "Empty" /\ call'.value = <<>>
     \/ call'.answer = "TooLarge" /\ Len(call'.value) > Cap
     \/ call'.answer \in {"WriteRejected", "SerializeFailed"}
  /\ UNCHANGED <<names, data>>

Remove ==
  /\ call'.op = "remove"
  /\ data' = {e \in data : e[1] # call'.at}
  /\ call'.answer = (data' # data)
  /\ UNCHANGED names

Clear ==
  /\ call'.op = "clear"
  /\ data' = {e \in data : <<e[1][1], e[1][2]>> # call'.at}
  /\ call'.answer = (data' # data)
  /\ UNCHANGED names

Kill ==
  /\ call'.op = "kill"
  /\ names' = Unnamed(call'.at[1])
  /\ data' = {e \in data : e[1][1] # call'.at[1]}

\* A known name finds its node, a new one gets a node nobody has.
Open ==
  /\ call'.op = "open"
  /\ \/ call'.at[1] \in DOMAIN names /\ names[call'.at[1]] = call'.value /\ UNCHANGED names
     \/ /\ call'.at[1] \notin Live
        /\ \A n \in DOMAIN names : names[n] # call'.value
        /\ names' = Named(call'.at[1], call'.value)
  /\ UNCHANGED data

Rename ==
  /\ call'.op = "rename" /\ call'.answer = "ok"
  /\ \A n \in DOMAIN names \ {call'.at[1]} : names[n] # call'.value
  /\ names' = IF call'.value = "" THEN Unnamed(call'.at[1])
              ELSE Named(call'.at[1], call'.value)
  /\ UNCHANGED data

Init == names = <<>> /\ data = {} /\ call = [op |-> "none"]

Next == Set \/ Refuse \/ Remove \/ Clear \/ Kill \/ Open \/ Rename

Spec == Init /\ [][Next]_<<names, data, call>>

=============================================================================
