---------------------------- MODULE MCRoomTrace ----------------------------
(***************************************************************************)
(* Rooms small enough to check: the connections and the keys are           *)
(* interchangeable.                                                        *)
(***************************************************************************)
EXTENDS RoomTrace

SmallStreams == BoundedSeq([value : Value, seq : 0 .. 3], 3)

\* The recursive definition of RetainAfter, which the proofs use, is Rust's
\* filter over the entries in order, sorted or not.
ASSUME RetainAfterIsFilter ==
    \A log \in SmallStreams, s \in 0 .. 3 :
        RetainAfter(log, s) = SelectSeq(log, LAMBDA entry : entry.seq > s)

Symmetry == Permutations(Conn) \cup Permutations(Key)
=============================================================================
