----------------------------- MODULE MCEnvReplace -----------------------------
(***************************************************************************)
(* Instances of EnvReplace for TLC: the names PORT and PORT1, of which one  *)
(* begins the other, written with P for PORT, the empty name, and X, which  *)
(* no environment defines. An entry gives a letter or a variable that is    *)
(* defined before it and a letter; one lacks its "=".                       *)
(***************************************************************************)
EXTENDS EnvReplaceProofs

CONSTANTS
    Values,         \* letters that values end with
    TextLetters,    \* letters of val
    MaxEntries,     \* bound: the entries of env
    MaxTokens       \* bound: the tokens of val

Ports == {<<"P">>, <<"P", "1">>}
MCNames == Ports \cup {<<>>, <<"X">>}

Equation(n, v) == [name |-> n, equals |-> TRUE, value |-> v]
MCEntries ==
    {Equation(n, <<Letter(c)>>) : n \in Ports \cup {<<>>}, c \in Values}
    \cup {Equation(n, <<Use(m), Letter(c)>>) : m, n \in Ports, c \in Values}
    \cup {[name |-> <<"X">>, equals |-> FALSE, value |-> <<>>]}

MCEnvironments == {e \in BoundedSeq(MCEntries, MaxEntries) :
    \A k \in DOMAIN e : Len(e[k].value) = 2 =>
        \E j \in 1..k - 1 : e[j].equals /\ e[j].name = e[k].value[1].text}
MCTexts == BoundedSeq({Letter(c) : c \in TextLetters} \cup {Use(n) : n \in MCNames}, MaxTokens)
=============================================================================
