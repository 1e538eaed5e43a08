------------------------------ MODULE Allocator ------------------------------
(****************************************************************************)
(* What a partition table promises its callers, with nothing of how the     *)
(* table in gpt.c keeps it: every entry holds a run of sectors of the       *)
(* usable area, no sector is held twice, a request is granted the smallest  *)
(* run that fits it, and it is refused only when no free run is left that   *)
(* would fit.                                                               *)
(****************************************************************************)
EXTENDS Integers

CONSTANTS Entries,     \* the entries of the table
          SectorSize   \* bytes in a sector

VARIABLES usable,      \* the sectors partitions may occupy
          held,        \* the sectors each entry holds
          asked        \* the request being served: an entry and a size in bytes

vars == <<usable, held, asked>>

NoRequest == [entry |-> -1, bytes |-> 0]

Init == /\ usable = {}
        /\ held = [e \in Entries |-> {}]
        /\ asked = NoRequest

Free == usable \ UNION {held[e] : e \in Entries}

\* The run first..last is as long as the request needs, and no longer.
Fits(first, last, bytes) ==
  /\ first <= last
  /\ bytes <= (last - first + 1) * SectorSize
  /\ first < last => (last - first) * SectorSize < bytes

FreeRun(first, last, bytes) == first..last \subseteq Free /\ Fits(first, last, bytes)

(* The disk is laid out once: a table with no partition gets its usable     *)
(* area.                                                                    *)
LayOut == /\ usable = {} /\ asked = NoRequest
          /\ \A e \in Entries : held[e] = {}
          /\ usable' \in SUBSET Nat
          /\ UNCHANGED <<held, asked>>

Ask == /\ asked = NoRequest
       /\ asked' \in [entry : Entries, bytes : Nat]
       /\ held[asked'.entry] = {}
       /\ UNCHANGED <<usable, held>>

Grant == /\ asked # NoRequest
         /\ \E first, last \in usable :
              /\ FreeRun(first, last, asked.bytes)
              /\ held' = [held EXCEPT ![asked.entry] = first..last]
         /\ asked' = NoRequest
         /\ UNCHANGED usable

Refuse == /\ asked # NoRequest
          /\ ~ \E first, last \in usable : FreeRun(first, last, asked.bytes)
          /\ asked' = NoRequest
          /\ UNCHANGED <<usable, held>>

Discard == /\ asked = NoRequest
           /\ usable' = {}
           /\ held' = [e \in Entries |-> {}]
           /\ asked' = NoRequest

Next == LayOut \/ Ask \/ Grant \/ Refuse \/ Discard

Spec == Init /\ [][Next]_vars
=============================================================================
