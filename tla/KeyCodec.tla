------------------------------ MODULE KeyCodec ------------------------------
(***************************************************************************)
(* The names under which a durable object stores the entries of a stream   *)
(* (driftdb/src/types/key_seq_pair.rs).  A name is a sequence of           *)
(* characters, and a character is its code: keys are made of any.  Storage *)
(* is external: it lists names in the order of their codes.                *)
(***************************************************************************)
EXTENDS Naturals, SequencesExt

CONSTANTS
    Base,       \* the digits of a numeral, which come before the other characters
    Width,      \* those of a padded one, enough for every sequence number
    Bar         \* the separator

ASSUME CodecAssumption == Base \in Nat \ {0, 1} /\ Width \in Nat \ {0} /\ Bar \in Nat

PaddedNumeral(n, width) == [i \in 1 .. width |-> (n \div Base ^ (width - i)) % Base]

\* Without leading zeros.
Numeral(n) ==
    PaddedNumeral(n, CHOOSE width \in 1 .. n + 1 :
        n < Base ^ width /\ \A shorter \in 1 .. width - 1 : Base ^ shorter <= n)

Parse(numeral) == FoldLeft(LAMBDA n, digit : n * Base + digit, 0, numeral)

\* KeyAndSeq::prefix_str
PrefixStr(key) == Numeral(Len(key)) \o <<Bar>> \o key \o <<Bar>>

\* KeyAndSeq::to_string
NameOf(key, seq) == PrefixStr(key) \o PaddedNumeral(seq, Width)

\* KeyAndSeq::from_str: the length says where the key ends, whatever is in it.
FromStr(name) ==
    LET bar     == SelectInSeq(name, LAMBDA char : char = Bar)
        key_len == Parse(SubSeq(name, 1, bar - 1))
    IN  [key |-> SubSeq(name, bar + 1, bar + key_len),
         seq |-> Parse(SubSeq(name, bar + key_len + 2, Len(name)))]

\* The order in which storage lists names.
Before(s, t) ==
    \E i \in 1 .. Len(t) :
        /\ i - 1 <= Len(s) /\ SubSeq(s, 1, i - 1) = SubSeq(t, 1, i - 1)
        /\ i <= Len(s) => s[i] < t[i]

\* What storage lists under a prefix, and before an end.
List(names, prefix) == {name \in names : IsPrefix(prefix, name)}
ListUntil(names, prefix, end) == {name \in List(names, prefix) : Before(name, end)}
=============================================================================
