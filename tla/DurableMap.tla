----------------------------- MODULE DurableMap -----------------------------
(***************************************************************************)
(* What persistent_properties.cpp promises its callers: a map in memory    *)
(* and a map on storage.  A set changes one entry of memory; storage then  *)
(* takes that entry, or all of memory, as a whole or not at all; a power   *)
(* loss leaves one of the whole maps stored since the last flush.          *)
(*                                                                         *)
(* The promise holds while storage keeps its own: it ends with a read or a *)
(* flush that fails at a place where the code has nothing to fall back on. *)
(***************************************************************************)
CONSTANTS Names, Values, Unset, Defaults

VARIABLES
  memory,   \* the persist.* properties in the property area
  current,  \* the map a load returns now
  after,    \* the maps a load may return after a power loss
  sound     \* storage has kept its promises

Maps == [Names -> Values \cup {Unset}]

Init ==
  /\ memory = Defaults
  /\ current \in Maps
  /\ after = {current}
  /\ sound = TRUE

\* A property is set, or loaded.
Set(n, v) ==
  /\ memory' = [memory EXCEPT ![n] = v]
  /\ UNCHANGED <<current, after>>

\* The map on storage is replaced by one with n brought up to date, or by all of memory.
Store(n) ==
  /\ current' \in {[current EXCEPT ![n] = memory[n]], memory}
  /\ after' = after \cup {current'}
  /\ UNCHANGED memory

Flush ==
  /\ after' = {current}
  /\ UNCHANGED <<memory, current>>

PowerLoss ==
  /\ \E m \in after : current' = m
  /\ after' = {current'}
  /\ memory' = Defaults

Next ==
  \/ sound' = FALSE
  \/ /\ sound = TRUE /\ UNCHANGED sound
     /\ \/ \E n \in Names, v \in Values : Set(n, v)
        \/ \E n \in Names : Store(n)
        \/ Flush
        \/ PowerLoss

Spec == Init /\ [][Next]_<<memory, current, after, sound>>
=============================================================================
