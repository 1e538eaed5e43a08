------------------------------- MODULE Fields -------------------------------
(****************************************************************************)
(* A record as the rest of the program takes it: fields with names, stored  *)
(* on a disk and held in memory.  Loading gets every field; storing puts    *)
(* every field, in no order that matters, and leaves at most one of them    *)
(* neither old nor new when it is cut off.                                  *)
(****************************************************************************)
CONSTANT Literals   \* the fields that are stored as these, whatever is held

VARIABLES stored, memory,   \* functions from the names to what the fields are
          phase,            \* "idle", "load", "held", "store" or "stored"
          left              \* the fields not yet loaded or stored

fieldVars == <<stored, memory, phase, left>>

SumNames == {"checksum", "partition_entries_checksum"}

Init == phase = "idle" /\ left = {}

\* The names are the same all the time.
Load == /\ phase = "idle" /\ phase' = "load"
        /\ left' = DOMAIN stored
        /\ UNCHANGED <<stored, memory>>

LoadField ==
  /\ phase = "load"
  /\ \E name \in left :
       /\ left' = left \ {name}
       /\ memory' = [n \in DOMAIN memory \cup {name} |->
                       IF n = name THEN stored[n] ELSE memory[n]]
  /\ phase' = IF left' = {} THEN "held" ELSE "load"
  /\ UNCHANGED stored

\* Anything may be held now, and every field of it is to be stored.
Store == /\ phase \in {"idle", "held"} /\ phase' = "store"
         /\ left' = DOMAIN stored
         /\ UNCHANGED stored

\* The fields whose value a step changes.
Changed == {name \in DOMAIN stored : stored'[name] # stored[name]}

StoreField ==
  /\ phase = "store"
  /\ \E name \in left :
       /\ left' = left \ {name}
       /\ stored'[name] = IF name \in DOMAIN Literals THEN Literals[name] ELSE memory[name]
       /\ Changed \subseteq {name}
  /\ phase' \in {"store", "stored"}
  /\ phase' = "stored" => left' = {}
  /\ UNCHANGED memory

EndStore == /\ phase = "store" /\ left = {} /\ phase' = "stored"
            /\ UNCHANGED <<stored, memory, left>>

Sum == /\ phase = "stored" /\ phase' = "stored"
       /\ \E name \in SumNames : Changed \subseteq {name}
       /\ UNCHANGED <<memory, left>>

Cut == /\ phase # "idle" /\ phase' = "idle" /\ left' = {}
       /\ \/ UNCHANGED stored
          \/ phase = "store" /\ \E name \in left : Changed \subseteq {name}
          \/ phase = "stored" /\ \E name \in SumNames : Changed \subseteq {name}

Next == Load \/ LoadField \/ Store \/ StoreField \/ EndStore \/ Sum \/ Cut

Spec == Init /\ [][Next]_fieldVars
=============================================================================
