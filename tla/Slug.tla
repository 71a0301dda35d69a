-------------------------------- MODULE Slug --------------------------------
(***************************************************************************)
(* slugify: the public handle of a client, made from its name and its id.  *)
(* A name is a sequence of characters; what counts of a character is       *)
(* whether it is a letter or digit, and its lower case.                    *)
(***************************************************************************)
EXTENDS Selection

Seqs == INSTANCE SequencesExt   \* IsPrefix

CONSTANTS
    Alphanumeric,   \* a to z and 0 to 9
    Lower,          \* strings.ToLower, character by character: a function
    Fallback,       \* "client"
    MaxBase,        \* 40: the length a name is cut to
    SuffixSpan      \* 10^7: how many ids differ in their last 7 digits

\* Capitals, and whatever else is lowered to a letter, are no letters.
ASSUME AlphabetAssumption ==
    /\ "-" \notin Alphanumeric
    /\ \A ch \in Alphanumeric \cup {"-"} : Lower[ch] = ch
    /\ Fallback \in Seq(Alphanumeric) \ {<<>>}

ASSUME SlugAssumption == MaxBase \in Nat \ {0} /\ SuffixSpan \in Nat \ {0}

Character == DOMAIN Lower

\* Letters and digits, and a "-" for every other character.
Marks(name) ==
    [i \in DOMAIN name |-> IF Lower[name[i]] \in Alphanumeric THEN Lower[name[i]] ELSE "-"]

\* Of every run of other characters the first "-" is left.
Dashed(name) ==
    LET marks == Marks(name)
    IN  Picked(marks, {i \in DOMAIN name : marks[i] = "-" /\ i # 1 => marks[i - 1] # "-"})

\* There is never more than one "-" in a row to trim.
TrimLeft(s)  == IF s # <<>> /\ s[1] = "-" THEN Tail(s) ELSE s
TrimRight(s) == IF s # <<>> /\ s[Len(s)] = "-" THEN SubSeq(s, 1, Len(s) - 1) ELSE s

Cut_NotTrimmed(s) == SubSeq(s, 1, IF Len(s) > MaxBase THEN MaxBase ELSE Len(s))

\* The cut may end on a "-".
Cut(s) == TrimRight(SubSeq(s, 1, IF Len(s) > MaxBase THEN MaxBase ELSE Len(s)))

Base(name) ==
    LET s == TrimRight(TrimLeft(Dashed(name)))
    IN  Cut(IF s = <<>> THEN Fallback ELSE s)

Suffix_None(id) == 0

\* The last 7 characters of the id: its last 7 digits.
Suffix(id) == id % SuffixSpan

\* The suffix has a fixed length, so the pair is as good as the string.
Slugify(name, id) == <<Base(name), Suffix(id)>>

-----------------------------------------------------------------------------
(***************************************************************************)
(* What a slug is, said without its construction: letters and digits with  *)
(* single dashes between them, at least one of them, no longer than the    *)
(* cut, and the beginning of the name as far as that has any.              *)
(***************************************************************************)
WellFormedBase(base) ==
    /\ base # <<>> /\ Len(base) <= MaxBase
    /\ \A i \in DOMAIN base :
          \/ base[i] \in Alphanumeric
          \/ /\ base[i] = "-" /\ i \notin {1, Len(base)}
             /\ base[i - 1] # "-"

\* Where its letters and digits are, and what they are.
Places(s)  == {i \in DOMAIN s : Lower[s[i]] \in Alphanumeric}
Letters(s) == Picked([i \in DOMAIN s |-> Lower[s[i]]], Places(s))

FollowsName(base, name) ==
    Letters(name) = <<>> \/ Seqs!IsPrefix(Letters(base), Letters(name))
=============================================================================
