------------------------------ MODULE MCWorker ------------------------------
(***************************************************************************)
(* A small durable object: sockets and keys are interchangeable; and the   *)
(* names of its entries, with keys that are made of digits, separators and *)
(* a letter.                                                               *)
(***************************************************************************)
EXTENDS WorkerTrace, KeyCodec

Symmetry == Permutations(Socket) \cup Permutations(Key) \cup Permutations(Value)

Keys == BoundedSeq(0 .. Bar + 1, 2)
SmallNumbers == 0 .. Base ^ Width - 1
Names == {NameOf(key, n) : key \in Keys, n \in SmallNumbers}

\* A name gives back its key and number, so that no two entries share one.
ASSUME RoundTrip ==
    \A key \in Keys, n \in SmallNumbers : FromStr(NameOf(key, n)) = [key |-> key, seq |-> n]

\* What replace deletes is the stream and nothing of another key's.
ASSUME ListsStream ==
    \A key \in Keys : List(Names, PrefixStr(key)) = {NameOf(key, n) : n \in SmallNumbers}

\* What a compaction deletes is Listed: the end, which is left out, is the next number.
ASSUME ListsUpToCompaction ==
    \A key \in Keys, seq \in 0 .. Base ^ Width - 2 :
        ListUntil(Names, PrefixStr(key), NameOf(key, seq + 1))
            = {NameOf(key, n) : n \in 0 .. seq}

\* load_store meets the entries of a stream in the order of their numbers.
ASSUME LoadsInOrder ==
    \A key \in Keys, m, n \in SmallNumbers :
        Before(NameOf(key, m), NameOf(key, n)) <=> m < n
=============================================================================
