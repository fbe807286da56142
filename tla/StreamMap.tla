----------------------------- MODULE StreamMap -----------------------------
(***************************************************************************)
(* What a store promises, as a map: per key, at most one value under each  *)
(* sequence number, and reads return the map in ascending order.  This is  *)
(* also the image of a store that a replica callback can keep in a sorted  *)
(* key-value storage: driftdb-worker/src/state.rs deletes and puts exactly *)
(* these map entries, and load_store rebuilds the streams from them.       *)
(***************************************************************************)
EXTENDS Integers

CONSTANTS Key, Value

VARIABLES
    image,  \* per key, the retained values by sequence number
    last    \* the last sequence number handed out

mapVars == <<image, last>>

NoEntries == [n \in {} |-> {}]

\* The storage key a value is put under is its stream's key and its number.
Put(entries, n, value) ==
    [m \in DOMAIN entries \cup {n} |-> IF m = n THEN value ELSE entries[m]]

DeleteUpTo(entries, n) == [m \in {m \in DOMAIN entries : m > n} |-> entries[m]]

Relay ==
    /\ last' = last + 1
    /\ UNCHANGED image

AppendTo(key, value) ==
    /\ last' = last + 1
    /\ image' = [image EXCEPT ![key] = Put(@, last + 1, value)]

ReplaceAll(key, value) ==
    /\ last' = last + 1
    /\ image' = [image EXCEPT ![key] = Put(NoEntries, last + 1, value)]

Compact(key, n, value) ==
    /\ image' = [image EXCEPT ![key] = Put(DeleteUpTo(@, n), n, value)]
    /\ UNCHANGED last

MapInit ==
    /\ image = [key \in Key |-> NoEntries]
    /\ last = 0

MapNext ==
    \/ Relay
    \/ \E key \in Key, value \in Value :
          \/ AppendTo(key, value)
          \/ ReplaceAll(key, value)
          \/ \E n \in 1 .. last : Compact(key, n, value)

MapSpec == MapInit /\ [][MapNext]_mapVars
=============================================================================
