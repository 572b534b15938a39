------------------------------ MODULE EnvReplace ------------------------------
(***************************************************************************)
(* env.Replace (sysd/util/env/env.go): puts the values of variables into a  *)
(* text, a command or an argument of an instance. The environment is a list *)
(* of NAME=value; the text of a value may use the variables before it. A    *)
(* text is a sequence of characters, and is built here from tokens, which   *)
(* say what its author means: the parser reads the characters, and the      *)
(* history variables follow the tokens.                                     *)
(***************************************************************************)
EXTENDS Integers, SequencesExt

CONSTANTS
    Dollar, Backslash,
    Letters,        \* the characters of texts and names that are no Dollar
    Names,          \* names of variables, defined or not; the empty one is a lone Dollar
    Environments,   \* env, each entry as [name, equals, value]
    Texts           \* val

Letter(c) == [name |-> FALSE, text |-> <<c>>]
Use(n) == [name |-> TRUE, text |-> n]
Tokens == {Letter(c) : c \in Letters} \cup {Use(n) : n \in Names}
Written(t) == IF t.name THEN <<Dollar>> \o t.text ELSE t.text

\* An entry may lack its "=".
Entries == [name : Names, equals : BOOLEAN, value : Seq(Tokens)]

ASSUME CharacterAssumption == Dollar \notin Letters /\ Dollar # Backslash
ASSUME NameAssumption == \A n \in Names : n \in Seq(Letters \ {Backslash})
ASSUME ArgumentAssumption ==
    /\ \A e \in Environments : e \in Seq(Entries)
    /\ \A t \in Texts : t \in Seq(Tokens)

VARIABLES
    env, val,       \* the arguments
    entry,          \* the entry of env that is read, or the one after the last for val
    token, char,    \* where the parser is: a token of the text, how many of its characters
    parser,         \* the local variables of replace
    values,         \* vars: the entries read so far
    output,
    meaning,        \* history: what the tokens read so far mean
    meant           \* history: what each variable ought to be

variables == <<env, val, entry, token, char, parser, values, output, meaning, meant>>

Fresh == [ret |-> <<>>, isVarName |-> FALSE, varName |-> <<>>]

Init ==
    /\ env \in Environments /\ val \in Texts
    /\ entry = 1 /\ token = 1 /\ char = 0 /\ parser = Fresh
    /\ values = <<>> /\ output = <<>>
    /\ meaning = <<>> /\ meant = <<>>

-----------------------------------------------------------------------------
(* The parser of replace.                                                   *)

\* Mutant: a variable name is not forgotten once it is replaced.
MatchAndGoOn(p) ==
    IF p.varName \in DOMAIN values THEN [p EXCEPT !.ret = @ \o values[p.varName], !.varName = <<>>] ELSE p

\* The value is added as soon as what is read is a name that is defined.
Match(p) ==
    IF p.varName \in DOMAIN values THEN [Fresh EXCEPT !.ret = p.ret \o values[p.varName]] ELSE p

\* A variable that ends where another one begins has matched nothing so far, unless it
\* is a lone Dollar and the empty name is defined.
Flushed(p) ==
    p.ret \o <<Dollar>> \o p.varName \o (IF p.varName \in DOMAIN values THEN values[p.varName] ELSE <<>>)

NewName(p) ==
    [p EXCEPT !.ret = IF p.isVarName THEN Flushed(p) ELSE @, !.isVarName = TRUE, !.varName = <<>>]

\* A backslash is copied; it escapes nothing, for `escaped` is reset before the test.
Parse(p, c) ==
    IF c = Backslash THEN [p EXCEPT !.ret = Append(@, c)]
    ELSE IF c = Dollar THEN NewName(p)
    ELSE IF p.isVarName THEN Match([p EXCEPT !.varName = Append(@, c)])
    ELSE [p EXCEPT !.ret = Append(@, c)]

Replaced == parser.ret \o parser.varName

\* The names among ns that n begins with.
Begins(n, ns) == {m \in ns \ {<<>>} : IsPrefix(m, n)}
Shortest(ns) == CHOOSE m \in ns : \A k \in ns : Len(m) <= Len(k)

\* What a token means. The name of a variable ends where a defined name does: what follows
\* the value of the shortest one is text. All else means itself.
Meaning(t) ==
    IF t.name /\ Begins(t.text, DOMAIN meant) # {}
    THEN LET m == Shortest(Begins(t.text, DOMAIN meant))
         IN  meant[m] \o SubSeq(t.text, Len(m) + 1, Len(t.text))
    ELSE Written(t)

Text == IF entry <= Len(env) THEN env[entry].value ELSE val

\* One turn of the loop over the characters of a text.
ReadChar ==
    /\ entry <= Len(env) => env[entry].equals
    /\ token <= Len(Text)
    /\ parser' = Parse(parser, Written(Text[token])[char + 1])
    /\ IF char + 1 < Len(Written(Text[token]))
       THEN char' = char + 1 /\ UNCHANGED <<token, meaning>>
       ELSE char' = 0 /\ token' = token + 1 /\ meaning' = meaning \o Meaning(Text[token])
    /\ UNCHANGED <<env, val, entry, values, output, meant>>

-----------------------------------------------------------------------------
(* Replace.                                                                 *)

Set(f, x, v) == [y \in DOMAIN f \cup {x} |-> IF y = x THEN v ELSE f[y]]

NextEntry ==
    /\ entry' = entry + 1 /\ token' = 1 /\ char' = 0 /\ parser' = Fresh /\ meaning' = <<>>
    /\ UNCHANGED <<env, val, output>>

\* One turn of the loop over env.
Define ==
    /\ entry <= Len(env) /\ env[entry].equals /\ token > Len(Text)
    /\ values' = Set(values, env[entry].name, Replaced)
    /\ meant' = Set(meant, env[entry].name, meaning)
    /\ NextEntry

Skip ==
    /\ entry <= Len(env) /\ ~env[entry].equals
    /\ NextEntry /\ UNCHANGED <<values, meant>>

Replace ==
    /\ entry > Len(env) /\ token > Len(Text) /\ output = <<>>
    /\ output' = <<Replaced>>
    /\ UNCHANGED <<env, val, entry, token, char, parser, values, meaning, meant>>

Next == ReadChar \/ Define \/ Skip \/ Replace

Spec == Init /\ [][Next]_variables

-----------------------------------------------------------------------------
(* Properties.                                                              *)

\* The variables that the entries before the k-th define.
Known(k) == {env[j].name : j \in {i \in 1..k - 1 : env[i].equals}}

\* A variable that is not defined, and that does not begin with one that is, begins no
\* defined name and is followed by another variable, with no backslash before it.
SettledText(text, known) ==
    \A k \in DOMAIN text : text[k].name /\ Begins(text[k].text, known) = {} =>
        /\ \A m \in known : ~IsPrefix(text[k].text, m)
        /\ \E j \in k + 1..Len(text) :
             text[j].name /\ \A i \in k + 1..j - 1 : text[i] # Letter(Backslash)

Settled ==
    /\ \A k \in DOMAIN env : SettledText(env[k].value, Known(k))
    /\ SettledText(val, Known(Len(env) + 1))

\* Replace puts the value it had when it was read for each variable, the one with the
\* shortest name where several could be meant (PORT in $PORT1), and keeps the rest,
\* other variables included, wherever undefined ones are settled.
VariablesAreReplaced == Settled /\ output # <<>> => output = <<meaning>>

\* What the documentation of the ports of a task says: an argument that uses a variable
\* is set to the value of that variable.
UseIsItsValue ==
    \A n \in DOMAIN values \ {<<>>} : val = <<Use(n)>> /\ output # <<>> => output = <<values[n]>>
=============================================================================
