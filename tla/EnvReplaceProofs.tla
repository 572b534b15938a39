--------------------------- MODULE EnvReplaceProofs ---------------------------
(***************************************************************************)
(* For any environment and text in which undefined variables are settled:   *)
(* env.Replace replaces each variable by the value it had when it was read, *)
(* of several that could be meant the one with the shortest name, and keeps *)
(* the rest. The proof follows the parser character by character.           *)
(***************************************************************************)
EXTENDS EnvReplace, SequenceTheorems, WellFoundedInduction, TLAPS

Chars == Letters \cup {Dollar}

EnvTypeOK ==
    /\ env \in Seq(Entries) /\ val \in Seq(Tokens)
    /\ entry \in 1..Len(env) + 1 /\ token \in 1..Len(Text) + 1 /\ char \in Nat
    /\ token <= Len(Text) => char < Len(Written(Text[token]))
    /\ token > Len(Text) => char = 0
    /\ parser \in [ret : Seq(Chars), isVarName : BOOLEAN, varName : Seq(Chars)]
    /\ DOMAIN values = Known(entry) /\ DOMAIN meant = Known(entry) /\ \A n \in DOMAIN values : values[n] \in Seq(Chars)
    /\ \A n \in DOMAIN meant : meant[n] \in Seq(Chars)
    /\ meaning \in Seq(Chars)
    /\ output \in Seq(Seq(Chars))

\* The parser has read a part of a name: it has matched nothing so far, or it has added
\* the value of the shortest name that is defined, and what it has read since.
Unmatched ==
    /\ parser.isVarName /\ parser.ret = meaning
    /\ parser.varName = SubSeq(Text[token].text, 1, char - 1)
    /\ Begins(parser.varName, DOMAIN values) = {}
Matched ==
    /\ ~parser.isVarName /\ parser.varName = <<>>
    /\ Begins(Text[token].text, DOMAIN values) # {}
    /\ LET m == Shortest(Begins(Text[token].text, DOMAIN values))
       IN  /\ Len(m) < char
           /\ parser.ret = meaning \o (values[m] \o SubSeq(Text[token].text, Len(m) + 1, char - 1))
InName == Text[token].name /\ (Unmatched \/ Matched)

\* The parser is between two tokens and has replaced all that is defined.
Done == ~parser.isVarName /\ parser.ret = meaning /\ parser.varName = <<>>

\* It has taken an undefined variable, and what came after it, for the start of a name.
Pending ==
    /\ parser.isVarName
    /\ parser.ret \o <<Dollar>> \o parser.varName = meaning
    /\ \E k \in 1..token - 1 :
         /\ Text[k].name /\ Begins(Text[k].text, DOMAIN values) = {}
         /\ IsPrefix(Text[k].text, parser.varName)
         /\ \A i \in k + 1..token - 1 : ~Text[i].name

Agrees ==
    /\ meant = values
    /\ IF char > 0 THEN InName ELSE Done \/ Pending
    /\ output # <<>> => entry > Len(env) /\ token > Len(Text) /\ output = <<meaning>>

\* The inductive invariant.
EInv == EnvTypeOK /\ (Settled => Agrees)

-----------------------------------------------------------------------------
(* Texts.                                                                   *)

LEMMA TokenFacts ==
    ASSUME NEW t \in Tokens
    PROVE  /\ Written(t) \in Seq(Chars) /\ Len(Written(t)) > 0 /\ t.name \in BOOLEAN
           /\ ~t.name => \E c \in Letters : Written(t) = <<c>> /\ t = Letter(c)
           /\ t.name => /\ t.text \in Names /\ t.text \in Seq(Chars)
                        /\ Len(Written(t)) = Len(t.text) + 1
                        /\ Written(t) = <<Dollar>> \o t.text
                        /\ Written(t)[1] = Dollar
                        /\ \A i \in 1..Len(t.text) :
                             Written(t)[i + 1] = t.text[i] /\ t.text[i] \in Letters \ {Backslash}
<1>1. CASE \E c \in Letters : t = Letter(c)
  <2> PICK c \in Letters : t = Letter(c)
    BY <1>1
  <2>1. t.name = FALSE /\ t.text = <<c>>
    BY DEF Letter
  <2>2. Written(t) = <<c>> /\ <<c>> \in Seq(Chars) /\ Len(<<c>>) > 0
    BY <2>1 DEF Written, Chars
  <2>3. Len(Written(t)) > 0 /\ Written(t) \in Seq(Chars) /\ Written(t) = <<c>>
    BY <2>2, Zenon
  <2> QED
    BY <2>1, <2>3, Zenon
<1>2. CASE \E n \in Names : t = Use(n)
  <2> PICK n \in Names : t = Use(n)
    BY <1>2
  <2>1. t.name = TRUE /\ t.text = n
    BY DEF Use
  <2>2. n \in Seq(Letters \ {Backslash})
    BY NameAssumption
  <2>3. n \in Seq(Chars)
    BY <2>2, SeqMonotonic DEF Chars
  <2>4. Len(n) + 1 > 0 /\ \A i \in 1..Len(n) : n[i] \in Letters \ {Backslash}
    BY <2>2
  <2>5. Written(t) = <<Dollar>> \o n /\ <<Dollar>> \in Seq(Chars) /\ Len(<<Dollar>>) = 1 /\ <<Dollar>>[1] = Dollar
    BY <2>1 DEF Written, Chars
  <2>6. /\ Written(t) \in Seq(Chars) /\ Len(Written(t)) = Len(n) + 1 /\ Written(t)[1] = Dollar
        /\ \A i \in 1..Len(n) : Written(t)[i + 1] = n[i]
    BY <2>3, <2>5, ConcatProperties
  <2> QED
    BY <2>1, <2>3, <2>4, <2>5, <2>6
<1> QED
  BY <1>1, <1>2 DEF Tokens

LEMMA Associative ==
    ASSUME NEW s \in Seq(Chars), NEW t \in Seq(Chars), NEW u \in Seq(Chars)
    PROVE  (s \o t) \o u = s \o (t \o u)
<1> DEFINE left == (s \o t) \o u
           right == s \o (t \o u)
<1>1. left \in Seq(Chars) /\ right \in Seq(Chars) /\ Len(left) = Len(right)
  OBVIOUS
<1>2. \A i \in 1..Len(left) : left[i] = right[i]
  OBVIOUS
<1> HIDE DEF left, right
<1>3. left = right
  BY <1>1, <1>2, SeqEqual
<1> QED
  BY <1>3 DEF left, right

LEMMA PrefixFacts ==
    ASSUME NEW S, NEW n \in Seq(S), NEW s \in Seq(S)
    PROVE  /\ IsPrefix(n, n)
           /\ \A c \in S : IsPrefix(n, s) => IsPrefix(n, Append(s, c))
<1>1. IsPrefix(n, n)
  BY DEF IsPrefix
<1>2. ASSUME NEW c \in S, IsPrefix(n, s) PROVE IsPrefix(n, Append(s, c))
  <2>1. Len(n) <= Len(s) /\ SubSeq(n, 1, Len(n)) = SubSeq(s, 1, Len(n)) /\ Len(n) \in Nat /\ Len(s) \in Nat
    BY <1>2 DEF IsPrefix
  <2>2. /\ Append(s, c) \in Seq(S) /\ Len(Append(s, c)) = Len(s) + 1
        /\ \A i \in 1..Len(s) : Append(s, c)[i] = s[i]
    BY AppendProperties
  <2>3. SubSeq(Append(s, c), 1, Len(n)) = SubSeq(s, 1, Len(n))
    <3>1. \A i \in 1..Len(n) : i \in 1..Len(s) /\ i \in 1..Len(Append(s, c))
      BY <2>1, <2>2
    <3>2. \A i \in 1..Len(n) : Append(s, c)[i] \in S /\ s[i] \in S /\ Append(s, c)[i] = s[i]
      BY <2>2, <3>1
    <3>3. /\ SubSeq(s, 1, Len(n)) \in Seq(S) /\ Len(SubSeq(s, 1, Len(n))) = Len(n)
          /\ \A i \in 1..Len(n) : SubSeq(s, 1, Len(n))[i] = s[i]
      BY <2>1, <3>2
    <3>4. /\ SubSeq(Append(s, c), 1, Len(n)) \in Seq(S) /\ Len(SubSeq(Append(s, c), 1, Len(n))) = Len(n)
          /\ \A i \in 1..Len(n) : SubSeq(Append(s, c), 1, Len(n))[i] = Append(s, c)[i]
      BY <2>1, <2>2, <3>2
    <3> QED
      BY <3>2, <3>3, <3>4, SeqEqual
  <2> QED
    BY <2>1, <2>2, <2>3 DEF IsPrefix
<1> QED
  BY <1>1, <1>2

LEMMA PrefixLength ==
    ASSUME NEW n \in Seq(Chars), NEW m \in Seq(Chars)
    PROVE  IsPrefix(m, n) <=> Len(m) \in 0..Len(n) /\ m = SubSeq(n, 1, Len(m))
<1>1. m = SubSeq(m, 1, Len(m)) /\ Len(m) \in Nat /\ Len(n) \in Nat
  BY SubSeqFull
<1> QED
  BY <1>1 DEF IsPrefix

\* One more character of a name.
LEMMA NameStart ==
    \A n \in Seq(Chars) : \A i \in 1..Len(n) :
        /\ SubSeq(n, 1, i) \in Seq(Chars) /\ Len(SubSeq(n, 1, i)) = i
        /\ IsPrefix(SubSeq(n, 1, i), n)
        /\ Append(SubSeq(n, 1, i - 1), n[i]) = SubSeq(n, 1, i)
<1> SUFFICES ASSUME NEW n \in Seq(Chars), NEW i \in 1..Len(n)
             PROVE  /\ SubSeq(n, 1, i) \in Seq(Chars) /\ Len(SubSeq(n, 1, i)) = i
                    /\ IsPrefix(SubSeq(n, 1, i), n)
                    /\ Append(SubSeq(n, 1, i - 1), n[i]) = SubSeq(n, 1, i)
  OBVIOUS
<1>1. /\ SubSeq(n, 1, i) \in Seq(Chars) /\ Len(SubSeq(n, 1, i)) = i
      /\ \A k \in 1..i : SubSeq(n, 1, i)[k] = n[k]
  OBVIOUS
<1>2. SubSeq(SubSeq(n, 1, i), 1, i) = SubSeq(n, 1, i)
  BY <1>1, SubSeqFull
<1>3. IsPrefix(SubSeq(n, 1, i), n)
  BY <1>1, <1>2 DEF IsPrefix
<1>4. 1 \in 1..Len(n) /\ n[i] \in Chars /\ SubSeq(n, 1, i - 1) \in Seq(Chars)
  OBVIOUS
<1>5. SubSeq(n, 1, i) = SubSeq(n, 1, i - 1) \o <<n[i]>>
  BY <1>4, SubSeqRecursiveSecond
<1>6. Append(SubSeq(n, 1, i - 1), n[i]) = SubSeq(n, 1, i)
  BY <1>4, <1>5, AppendIsConcat
<1> QED
  BY <1>1, <1>3, <1>6

\* One more character after an undefined variable.
LEMMA FlushLater ==
    \A ret, varName \in Seq(Chars) : \A c \in Chars :
        ret \o <<Dollar>> \o Append(varName, c) = (ret \o <<Dollar>> \o varName) \o <<c>>
<1> SUFFICES ASSUME NEW ret \in Seq(Chars), NEW varName \in Seq(Chars), NEW c \in Chars
             PROVE  ret \o <<Dollar>> \o Append(varName, c) = (ret \o <<Dollar>> \o varName) \o <<c>>
  OBVIOUS
<1>1. <<Dollar>> \in Seq(Chars) /\ <<c>> \in Seq(Chars)
  BY DEF Chars
<1> PICK start \in Seq(Chars) : start = ret \o <<Dollar>>
  BY <1>1, ConcatProperties
<1>2. Append(varName, c) = varName \o <<c>>
  BY AppendIsConcat
<1>3. start \o (varName \o <<c>>) = (start \o varName) \o <<c>>
  BY <1>1, Associative
<1> QED
  BY <1>2, <1>3

LEMMA TextFacts == ASSUME EnvTypeOK PROVE Text \in Seq(Tokens)
<1>1. entry <= Len(env) => entry \in 1..Len(env)
  BY DEF EnvTypeOK
<1>2. \A k \in 1..Len(env) : env[k] \in Entries
  BY DEF EnvTypeOK
<1> QED
  BY <1>1, <1>2 DEF EnvTypeOK, Text, Entries

\* The names that are defined.
LEMMA KnownNames == ASSUME EnvTypeOK PROVE DOMAIN values \in SUBSET Seq(Chars) /\ DOMAIN meant = DOMAIN values
<1>1. \A j \in 1..entry - 1 : env[j] \in Entries
  BY DEF EnvTypeOK
<1>2. Known(entry) \in SUBSET Names
  BY <1>1 DEF Known, Entries
<1>3. \A n \in Names : n \in Seq(Chars)
  BY NameAssumption, SeqMonotonic DEF Chars
<1> QED
  BY <1>2, <1>3 DEF EnvTypeOK

\* The shortest of the names that a name begins with.
LEMMA ShortestFacts ==
    ASSUME NEW n \in Seq(Chars), NEW ns \in SUBSET Seq(Chars), Begins(n, ns) # {}
    PROVE  /\ Shortest(Begins(n, ns)) \in Begins(n, ns)
           /\ \A k \in Begins(n, ns) : Len(Shortest(Begins(n, ns))) <= Len(k)
<1>1. \A m \in Begins(n, ns) : Len(m) \in Nat
  BY DEF Begins
<1> PICK m \in Begins(n, ns) : \A k \in Begins(n, ns) : Len(m) <= Len(k)
  <2> DEFINE T == {Len(m) : m \in Begins(n, ns)}
  <2>1. T \in SUBSET Nat /\ T # {}
    BY <1>1
  <2> HIDE DEF T
  <2>2. PICK x \in T : \A y \in T : ~(<<y, x>> \in OpToRel(<, Nat))
    BY <2>1, NatLessThanWellFounded, WFMin
  <2>3. \A y \in T : x <= y
    <3>0. x \in T
      BY <2>2, Zenon
    <3> SUFFICES ASSUME NEW y \in T, y < x PROVE FALSE
      BY <2>1, <3>0
    <3>1. <<y, x>> \in {ss \in Nat \X Nat : ss[1] < ss[2]}
      BY <2>1, <3>0
    <3>2. OpToRel(<, Nat) = {ss \in Nat \X Nat : ss[1] < ss[2]}
      BY Zenon DEF OpToRel
    <3> QED
      BY <2>2, <3>1, <3>2, Zenon
  <2> QED
    BY <2>3 DEF T
<1> QED
  BY DEF Shortest

\* Where a name is read up to the one that is defined first, that is the shortest one.
LEMMA FirstIsShortest ==
    \A n \in Seq(Chars) : \A ns \in SUBSET Seq(Chars) : \A i \in 1..Len(n) :
        Begins(SubSeq(n, 1, i - 1), ns) = {} =>
            /\ SubSeq(n, 1, i) \in ns => Begins(n, ns) # {} /\ Shortest(Begins(n, ns)) = SubSeq(n, 1, i)
            /\ SubSeq(n, 1, i) \notin ns => Begins(SubSeq(n, 1, i), ns) = {}
<1> SUFFICES ASSUME NEW n \in Seq(Chars), NEW ns \in SUBSET Seq(Chars), NEW i \in 1..Len(n),
                    Begins(SubSeq(n, 1, i - 1), ns) = {}
             PROVE  /\ SubSeq(n, 1, i) \in ns =>
                         Begins(n, ns) # {} /\ Shortest(Begins(n, ns)) = SubSeq(n, 1, i)
                    /\ SubSeq(n, 1, i) \notin ns => Begins(SubSeq(n, 1, i), ns) = {}
  OBVIOUS
<1> DEFINE part(k) == SubSeq(n, 1, k)
<1>1. \A k \in 0..Len(n) : part(k) \in Seq(Chars) /\ Len(part(k)) = k
  OBVIOUS
<1>2. \A j, k \in 0..Len(n) : j <= k => SubSeq(part(k), 1, j) = part(j)
  <2> SUFFICES ASSUME NEW j \in 0..Len(n), NEW k \in 0..Len(n), j <= k
               PROVE  SubSeq(part(k), 1, j) = part(j)
    OBVIOUS
  <2>1. \A x \in 1..j : n[x] \in Chars /\ part(k)[x] = n[x] /\ part(k)[x] \in Chars
    OBVIOUS
  <2>2. SubSeq(part(k), 1, j) \in Seq(Chars) /\ Len(SubSeq(part(k), 1, j)) = j
        /\ \A x \in 1..j : SubSeq(part(k), 1, j)[x] = part(k)[x]
    BY <1>1, <2>1
  <2>3. \A x \in 1..j : part(j)[x] = n[x]
    OBVIOUS
  <2> QED
    BY <1>1, <2>1, <2>2, <2>3, SeqEqual
<1> HIDE DEF part
<1>3. \A k \in 0..Len(n) : \A m \in ns :
        m \in Begins(part(k), ns) <=> Len(m) \in 1..k /\ m = part(Len(m))
  <2> SUFFICES ASSUME NEW k \in 0..Len(n), NEW m \in ns
               PROVE  m \in Begins(part(k), ns) <=> Len(m) \in 1..k /\ m = part(Len(m))
    OBVIOUS
  <2>1. IsPrefix(m, part(k)) <=> Len(m) \in 0..k /\ m = SubSeq(part(k), 1, Len(m))
    BY <1>1, PrefixLength
  <2>2. m # <<>> <=> Len(m) # 0
    BY EmptySeq
  <2>3. Len(m) \in 0..k => SubSeq(part(k), 1, Len(m)) = part(Len(m))
    BY <1>2
  <2> QED
    BY <2>1, <2>2, <2>3 DEF Begins
<1>4. part(Len(n)) = n
  BY SubSeqFull DEF part
<1>5. \A m : m \in Begins(part(i - 1), ns) \/ m \in Begins(part(i), ns) \/ m \in Begins(n, ns) => m \in ns
  BY DEF Begins
<1>6. \A m \in ns : Len(m) \in 1..i - 1 => m # part(Len(m))
  <2>1. Begins(part(i - 1), ns) = {}
    BY DEF part
  <2> QED
    BY <1>3, <2>1
<1>7. ASSUME part(i) \notin ns PROVE Begins(part(i), ns) = {}
  <2> SUFFICES ASSUME NEW m \in Begins(part(i), ns) PROVE FALSE
    OBVIOUS
  <2>1. m \in ns /\ Len(m) \in 1..i /\ m = part(Len(m))
    BY <1>3, <1>5
  <2> QED
    BY <1>6, <1>7, <2>1
<1>8. ASSUME part(i) \in ns PROVE Begins(n, ns) # {} /\ Shortest(Begins(n, ns)) = part(i)
  <2>1. part(i) \in Begins(n, ns)
    BY <1>1, <1>3, <1>4, <1>8
  <2> PICK m \in Begins(n, ns) : m = Shortest(Begins(n, ns)) /\ Len(m) <= Len(part(i))
    BY <2>1, ShortestFacts
  <2>2. m \in ns /\ Len(m) \in 1..Len(n) /\ m = part(Len(m))
    BY <1>3, <1>4, <1>5
  <2>3. Len(m) = i
    BY <1>1, <1>6, <2>2
  <2> QED
    BY <2>1, <2>2, <2>3
<1> QED
  BY <1>7, <1>8 DEF part

LEMMA NothingBegins == ASSUME NEW ns \in SUBSET Seq(Chars) PROVE Begins(<<>>, ns) = {}
<1> SUFFICES ASSUME NEW m \in Begins(<<>>, ns) PROVE FALSE
  OBVIOUS
<1>1. m \in Seq(Chars) /\ m # <<>> /\ Len(m) <= Len(<<>>)
  BY DEF Begins, IsPrefix
<1> QED
  BY <1>1

\* The text that is read, and the variables before it, are settled.
LEMMA SettledNow ==
    ASSUME EnvTypeOK, Settled
    PROVE  SettledText(Text, DOMAIN values)
<1>1. CASE entry <= Len(env)
  BY <1>1 DEF EnvTypeOK, Text, Settled
<1>2. CASE entry = Len(env) + 1
  BY <1>2 DEF EnvTypeOK, Text, Settled
<1> QED
  BY <1>1, <1>2 DEF EnvTypeOK

\* The undefined variable is not the last one of the text, nor followed by a backslash.
LEMMA PendingGoesOn ==
    ASSUME EnvTypeOK, Settled, Pending
    PROVE  /\ token \in 1..Len(Text) /\ Text[token] # Letter(Backslash)
           /\ \A k \in 1..token - 1 : Text[k].name /\ Begins(Text[k].text, DOMAIN values) = {} =>
                \A m \in DOMAIN values : ~IsPrefix(Text[k].text, m)
<1>1. SettledText(Text, DOMAIN values)
  BY SettledNow
<1>2. Text \in Seq(Tokens) /\ token \in 1..Len(Text) + 1 /\ DOMAIN Text = 1..Len(Text)
  BY TextFacts DEF EnvTypeOK
<1> PICK k \in 1..token - 1 : /\ Text[k].name /\ Begins(Text[k].text, DOMAIN values) = {}
                              /\ \A i \in k + 1..token - 1 : ~Text[i].name
  BY DEF Pending
<1> PICK j \in k + 1..Len(Text) : Text[j].name /\ \A i \in k + 1..j - 1 : Text[i] # Letter(Backslash)
  <2>1. k \in DOMAIN Text
    BY <1>2
  <2> QED
    BY <1>1, <2>1 DEF SettledText
<1>3. j >= token
  BY <1>2
<1>4. token \in 1..Len(Text) /\ Text[token] # Letter(Backslash)
  <2>1. CASE j > token
    BY <1>2, <2>1
  <2>2. CASE j = token
    <3>1. Letter(Backslash).name = FALSE
      BY DEF Letter
    <3> QED
      BY <1>2, <2>2, <3>1
  <2> QED
    BY <1>2, <1>3, <2>1, <2>2
<1>5. \A i \in 1..token - 1 : i \in DOMAIN Text
  BY <1>2
<1>6. \A i \in 1..token - 1 : Text[i].name /\ Begins(Text[i].text, DOMAIN values) = {} =>
        \A m \in DOMAIN values : ~IsPrefix(Text[i].text, m)
  BY <1>1, <1>5 DEF SettledText
<1> QED
  BY <1>4, <1>6

-----------------------------------------------------------------------------
LEMMA InitEInv == Init => EInv
<1> SUFFICES ASSUME Init PROVE EInv
  OBVIOUS
<1>1. env \in Seq(Entries) /\ val \in Seq(Tokens) /\ entry = 1 /\ token = 1 /\ char = 0
  BY ArgumentAssumption DEF Init
<1>2. Text \in Seq(Tokens)
  <2>1. \A k \in 1..Len(env) : env[k] \in Entries
    BY <1>1
  <2> QED
    BY <1>1, <2>1 DEF Text, Entries
<1>3. entry \in 1..Len(env) + 1 /\ token \in 1..Len(Text) + 1
  BY <1>1, <1>2
<1>4. token <= Len(Text) => char < Len(Written(Text[token]))
  <2> SUFFICES ASSUME token <= Len(Text) PROVE 0 < Len(Written(Text[token]))
    BY <1>1
  <2> PICK t \in Tokens : t = Text[token]
    BY <1>2, <1>3
  <2> QED
    BY TokenFacts
<1>5. <<>> \in Seq(Chars) /\ <<>> \in Seq(Seq(Chars)) /\ DOMAIN <<>> = {} /\ Known(1) = {}
  BY DEF Known
<1>6. EnvTypeOK
  BY <1>1, <1>3, <1>4, <1>5 DEF Init, Fresh, EnvTypeOK
<1>7. Agrees
  BY <1>1 DEF Init, Fresh, Agrees, Done
<1> QED
  BY <1>6, <1>7 DEF EInv

\* What the parser makes of a character that is no backslash.
LEMMA ReadCharTypeOK == ASSUME EnvTypeOK, ReadChar PROVE EnvTypeOK'
<1>1. Text \in Seq(Tokens) /\ token \in 1..Len(Text)
  BY TextFacts DEF EnvTypeOK, ReadChar
<1> PICK t \in Tokens : t = Text[token]
  BY <1>1
<1>2. UNCHANGED <<env, val, entry, values, output, meant>> /\ Text' = Text
  BY DEF ReadChar, Text
<1>3. Written(t) \in Seq(Chars) /\ char \in Nat /\ char < Len(Written(t))
  BY <1>1, TokenFacts DEF EnvTypeOK
<1> PICK c \in Chars : c = Written(t)[char + 1]
  <2>1. char + 1 \in 1..Len(Written(t))
    BY <1>3
  <2> QED
    BY <1>3, <2>1, ElementOfSeq
<1>4. parser' = Parse(parser, c)
  BY DEF ReadChar
<1> PICK ret \in Seq(Chars), varName \in Seq(Chars) : ret = parser.ret /\ varName = parser.varName
  BY DEF EnvTypeOK
<1>5. parser \in [ret : Seq(Chars), isVarName : BOOLEAN, varName : Seq(Chars)]
  BY DEF EnvTypeOK
<1>6. Append(ret, c) \in Seq(Chars) /\ Append(varName, c) \in Seq(Chars) /\ <<>> \in Seq(Chars)
  BY AppendProperties, EmptySeq
<1>7. ret \o <<Dollar>> \o varName \in Seq(Chars)
  <2>1. <<Dollar>> \in Seq(Chars)
    BY DEF Chars
  <2>2. ret \o <<Dollar>> \in Seq(Chars)
    BY <2>1, ConcatProperties
  <2> QED
    BY <2>2, ConcatProperties
<1>8. \A v \in DOMAIN values : ret \o values[v] \in Seq(Chars)
  BY ConcatProperties DEF EnvTypeOK
<1>9. NewName(parser) \in [ret : Seq(Chars), isVarName : BOOLEAN, varName : Seq(Chars)]
  <2>1. \A w \in Seq(Chars) : ret \o <<Dollar>> \o varName \o w \in Seq(Chars)
    BY <1>7, ConcatProperties
  <2>2. varName \in DOMAIN values => values[varName] \in Seq(Chars)
    BY DEF EnvTypeOK
  <2>3. Flushed(parser) \in Seq(Chars)
    BY <1>6, <2>1, <2>2 DEF Flushed
  <2> QED
    BY <1>5, <1>6, <2>3 DEF NewName
<1>10. Match([parser EXCEPT !.varName = Append(@, c)])
         \in [ret : Seq(Chars), isVarName : BOOLEAN, varName : Seq(Chars)]
  <2> PICK p : p = [parser EXCEPT !.varName = Append(@, c)]
    OBVIOUS
  <2>1. p.ret = ret /\ p.varName = Append(varName, c)
        /\ p \in [ret : Seq(Chars), isVarName : BOOLEAN, varName : Seq(Chars)]
    BY <1>5, <1>6
  <2> QED
    BY <1>6, <1>8, <2>1 DEF Match, Fresh
<1>11. parser' \in [ret : Seq(Chars), isVarName : BOOLEAN, varName : Seq(Chars)]
  BY <1>4, <1>5, <1>6, <1>9, <1>10 DEF Parse
<1>12. Meaning(t) \in Seq(Chars)
  <2>1. CASE t.name /\ Begins(t.text, DOMAIN meant) # {}
    <3> PICK n \in Seq(Chars) : n = t.text
      BY <2>1, TokenFacts
    <3> PICK m \in Begins(n, DOMAIN meant) : m = Shortest(Begins(n, DOMAIN meant))
      BY <2>1, KnownNames, ShortestFacts
    <3>1. m \in DOMAIN meant /\ m \in Seq(Chars) /\ Len(m) + 1 \in 1..Len(n) + 1
      <4>1. m \in DOMAIN meant /\ m \in Seq(Chars) /\ IsPrefix(m, n)
        BY KnownNames DEF Begins
      <4> QED
        BY <4>1, PrefixLength
    <3>2. meant[m] \in Seq(Chars) /\ SubSeq(n, Len(m) + 1, Len(n)) \in Seq(Chars)
      BY <3>1 DEF EnvTypeOK
    <3> QED
      BY <2>1, <3>2, ConcatProperties DEF Meaning
  <2> QED
    BY <1>3, <2>1 DEF Meaning
<1>13. meaning' \in Seq(Chars)
  <2>1. meaning \in Seq(Chars) /\ meaning \o Meaning(t) \in Seq(Chars)
    BY <1>12, ConcatProperties DEF EnvTypeOK
  <2>2. meaning' = meaning \/ meaning' = meaning \o Meaning(t)
    BY DEF ReadChar
  <2> QED
    BY <2>1, <2>2
<1>14. /\ token' \in 1..Len(Text) + 1 /\ char' \in Nat
       /\ token' <= Len(Text) => char' < Len(Written(Text[token']))
       /\ token' > Len(Text) => char' = 0
  <2>1. CASE char + 1 < Len(Written(t))
    BY <1>1, <1>3, <2>1 DEF ReadChar
  <2>2. CASE ~(char + 1 < Len(Written(t)))
    <3>1. char' = 0 /\ token' = token + 1
      BY <2>2 DEF ReadChar
    <3>2. ASSUME token' <= Len(Text) PROVE 0 < Len(Written(Text[token']))
      <4> PICK q \in Tokens : q = Text[token']
        BY <1>1, <3>1, <3>2
      <4> QED
        BY TokenFacts
    <3> QED
      BY <1>1, <3>1, <3>2
  <2> QED
    BY <2>1, <2>2
<1> QED
  BY <1>2, <1>11, <1>13, <1>14 DEF EnvTypeOK, Known

-----------------------------------------------------------------------------
(* Where the parser and its author agree, they do after the next character. *)

LEMMA ReadLetter ==
    ASSUME EnvTypeOK, Settled, Agrees, ReadChar, char = 0, ~Text[token].name
    PROVE  Agrees'
<1>1. Text \in Seq(Tokens) /\ token \in 1..Len(Text)
  BY TextFacts DEF EnvTypeOK, ReadChar
<1> PICK t \in Tokens : t = Text[token]
  BY <1>1
<1> PICK c \in Letters : Written(t) = <<c>> /\ t = Letter(c)
  BY TokenFacts
<1>2. c \in Chars /\ c # Dollar /\ <<c>>[1] = c /\ Len(<<c>>) = 1 /\ <<c>> \in Seq(Chars)
  BY CharacterAssumption DEF Chars
<1>3. UNCHANGED <<env, val, entry, values, output, meant>> /\ Text' = Text /\ output = <<>> /\ meant = values
  BY <1>1 DEF ReadChar, Text, Agrees
<1>4. parser' = Parse(parser, c)
  BY <1>2 DEF ReadChar
<1>5. char' = 0 /\ token' = token + 1 /\ meaning' = meaning \o <<c>>
  BY <1>2 DEF ReadChar, Meaning
<1> PICK ret \in Seq(Chars), varName \in Seq(Chars) : ret = parser.ret /\ varName = parser.varName
  BY DEF EnvTypeOK
<1>6. parser \in [ret : Seq(Chars), isVarName : BOOLEAN, varName : Seq(Chars)]
  BY DEF EnvTypeOK
<1>7. CASE Done
  <2>1. parser' = [parser EXCEPT !.ret = Append(@, c)]
    BY <1>2, <1>4, <1>7 DEF Parse, Done
  <2>2. parser'.ret = Append(ret, c) /\ (parser'.isVarName <=> parser.isVarName) /\ parser'.varName = varName
    BY <1>6, <2>1
  <2>3. Append(ret, c) = meaning \o <<c>>
    BY <1>2, <1>7, AppendIsConcat DEF Done
  <2>4. Done'
    BY <1>5, <1>7, <2>2, <2>3 DEF Done
  <2> QED
    BY <1>3, <1>5, <2>4 DEF Agrees
<1>8. CASE Pending
  <2> PICK k \in 1..token - 1 : /\ Text[k].name /\ Begins(Text[k].text, DOMAIN values) = {}
                                /\ IsPrefix(Text[k].text, varName)
                                /\ \A i \in k + 1..token - 1 : ~Text[i].name
    BY <1>8 DEF Pending
  <2>1. c # Backslash
    BY <1>8, PendingGoesOn
  <2> PICK long \in Seq(Chars) : long = Append(varName, c)
    BY <1>2, AppendProperties
  <2> PICK q \in Tokens : q = Text[k]
    BY <1>1
  <2>2. q.text \in Names /\ q.text \in Seq(Chars)
    BY TokenFacts
  <2>3. IsPrefix(q.text, long)
    BY <1>2, <2>2, PrefixFacts
  <2>4. long \notin DOMAIN values
    BY <1>8, <2>3, PendingGoesOn
  <2>5. parser' = [parser EXCEPT !.varName = long]
    <3>1. parser' = Match([parser EXCEPT !.varName = Append(@, c)])
      BY <1>2, <1>4, <1>8, <2>1 DEF Parse, Pending
    <3>2. [parser EXCEPT !.varName = Append(@, c)] = [parser EXCEPT !.varName = long]
      BY <1>6
    <3>3. [parser EXCEPT !.varName = long].varName = long
      BY <1>6
    <3> QED
      BY <2>4, <3>1, <3>2, <3>3 DEF Match
  <2>6. parser'.ret = ret /\ (parser'.isVarName <=> parser.isVarName) /\ parser'.varName = long
    BY <1>6, <2>5
  <2>7. ret \o <<Dollar>> \o long = meaning \o <<c>>
    <3>1. ret \o <<Dollar>> \o Append(varName, c) = (ret \o <<Dollar>> \o varName) \o <<c>>
      BY <1>2, FlushLater
    <3>2. ret \o <<Dollar>> \o varName = meaning
      BY <1>8 DEF Pending
    <3> QED
      BY <3>1, <3>2
  <2>8. k \in 1..token' - 1 /\ \A i \in k + 1..token' - 1 : ~Text[i].name
    <3>1. k \in 1..token' - 1 /\ \A i \in k + 1..token' - 1 : i = token \/ i \in k + 1..token - 1
      BY <1>1, <1>5
    <3> QED
      BY <3>1, Zenon
  <2>9. Pending'
    BY <1>3, <1>5, <1>8, <2>3, <2>6, <2>7, <2>8 DEF Pending
  <2> QED
    BY <1>3, <1>5, <2>9 DEF Agrees
<1> QED
  BY <1>7, <1>8 DEF Agrees

LEMMA ReadDollar ==
    ASSUME EnvTypeOK, Settled, Agrees, ReadChar, char = 0, Text[token].name
    PROVE  Agrees'
<1>1. Text \in Seq(Tokens) /\ token \in 1..Len(Text)
  BY TextFacts DEF EnvTypeOK, ReadChar
<1> PICK t \in Tokens : t = Text[token]
  BY <1>1
<1>2. /\ t.name /\ Written(t)[1] = Dollar /\ Len(Written(t)) = Len(t.text) + 1 /\ t.text \in Seq(Chars)
      /\ Written(t) = <<Dollar>> \o t.text /\ Len(t.text) \in Nat
  BY TokenFacts
<1>3. UNCHANGED <<env, val, entry, values, output, meant>> /\ Text' = Text /\ output = <<>> /\ meant = values
  BY <1>1 DEF ReadChar, Text, Agrees
<1>4. parser' = NewName(parser)
  BY <1>2, CharacterAssumption DEF ReadChar, Parse
<1>5. parser \in [ret : Seq(Chars), isVarName : BOOLEAN, varName : Seq(Chars)]
  BY DEF EnvTypeOK
<1>6. /\ parser'.ret = IF parser.isVarName THEN Flushed(parser) ELSE parser.ret
      /\ parser'.isVarName /\ parser'.varName = <<>>
  BY <1>4, <1>5 DEF NewName
<1>7. meaning \in Seq(Chars)
  BY DEF EnvTypeOK
<1>8. parser'.ret = meaning
  <2>1. Done \/ Pending
    BY DEF Agrees
  <2>2. CASE Done
    BY <1>6, <2>2 DEF Done
  <2>3. CASE Pending
    <3>1. parser.varName \notin DOMAIN values
      BY <2>3, PendingGoesOn DEF Pending
    <3>2. meaning \o <<>> = meaning
      BY <1>7, ConcatEmptySeq
    <3> QED
      BY <1>6, <2>3, <3>1, <3>2 DEF Pending, Flushed
  <2> QED
    BY <2>1, <2>2, <2>3
<1>9. CASE Len(t.text) > 0
  <2>1. char' = 1 /\ token' = token /\ meaning' = meaning
    BY <1>2, <1>9 DEF ReadChar
  <2>2. SubSeq(t.text, 1, char' - 1) = <<>>
    BY <1>2, <2>1, SubSeqEmpty
  <2>3. Begins(<<>>, DOMAIN values) = {}
    BY NothingBegins, KnownNames
  <2>4. Unmatched'
    BY <1>3, <1>6, <1>8, <2>1, <2>2, <2>3 DEF Unmatched
  <2>5. InName'
    BY <1>2, <1>3, <2>1, <2>4 DEF InName
  <2> QED
    BY <1>3, <2>1, <2>5 DEF Agrees
<1>10. CASE Len(t.text) = 0
  <2>1. char' = 0 /\ token' = token + 1 /\ meaning' = meaning \o Meaning(t)
    BY <1>2, <1>10 DEF ReadChar
  <2>2. t.text = <<>>
    BY <1>2, <1>10, EmptySeq
  <2>3. Begins(t.text, DOMAIN values) = {}
    BY <2>2, NothingBegins, KnownNames
  <2>4. Meaning(t) = <<Dollar>> \o <<>>
    BY <1>2, <1>3, <2>2, <2>3 DEF Meaning
  <2>5. parser'.ret \o <<Dollar>> \o parser'.varName = meaning'
    <3>1. <<Dollar>> \in Seq(Chars) /\ <<>> \in Seq(Chars)
      BY EmptySeq DEF Chars
    <3>2. (meaning \o <<Dollar>>) \o <<>> = meaning \o (<<Dollar>> \o <<>>)
      BY <1>7, <3>1, Associative
    <3> QED
      BY <1>6, <1>8, <2>1, <2>4, <3>2
  <2>6. IsPrefix(t.text, parser'.varName)
    BY <1>2, <1>6, <2>2, PrefixFacts
  <2>7. token \in 1..token' - 1 /\ \A i \in token + 1..token' - 1 : ~Text[i].name
    BY <1>1, <2>1
  <2>8. Pending'
    BY <1>2, <1>3, <1>6, <2>3, <2>5, <2>6, <2>7 DEF Pending
  <2> QED
    BY <1>3, <2>1, <2>8 DEF Agrees
<1> QED
  BY <1>2, <1>9, <1>10

\* One more character of the rest of a name, after the value of a variable.
LEMMA RestGrows ==
    ASSUME NEW s \in Seq(Chars), NEW v \in Seq(Chars), NEW n \in Seq(Chars),
           NEW i \in 1..Len(n), NEW j \in 1..i
    PROVE  Append(s \o (v \o SubSeq(n, j, i - 1)), n[i]) = s \o (v \o SubSeq(n, j, i))
<1>1. j \in 1..Len(n) /\ n[i] \in Chars /\ SubSeq(n, j, i - 1) \in Seq(Chars)
  OBVIOUS
<1>2. SubSeq(n, j, i) = SubSeq(n, j, i - 1) \o <<n[i]>>
  BY <1>1, SubSeqRecursiveSecond
<1> DEFINE w == SubSeq(n, j, i - 1)
           x == <<n[i]>>
<1>3. w \in Seq(Chars) /\ x \in Seq(Chars) /\ v \o w \in Seq(Chars) /\ s \o (v \o w) \in Seq(Chars)
  BY <1>1, ConcatProperties
<1>4. Append(s \o (v \o w), n[i]) = (s \o (v \o w)) \o x
  BY <1>1, <1>3, AppendIsConcat
<1> HIDE DEF w, x
<1>5. (v \o w) \o x = v \o (w \o x)
  BY <1>3, Associative
<1>6. (s \o (v \o w)) \o x = s \o ((v \o w) \o x)
  BY <1>3, Associative
<1> QED
  BY <1>2, <1>4, <1>5, <1>6, Zenon DEF w, x

\* The steps of the parser in a name: before a variable is matched, and after.
LEMMA NameGrows ==
    ASSUME EnvTypeOK, NEW n \in Seq(Chars), char \in 1..Len(n),
           Begins(SubSeq(n, 1, char - 1), DOMAIN values) = {}
    PROVE  /\ SubSeq(n, 1, char) \in DOMAIN values =>
                Begins(n, DOMAIN values) # {} /\ Shortest(Begins(n, DOMAIN values)) = SubSeq(n, 1, char)
           /\ SubSeq(n, 1, char) \notin DOMAIN values => Begins(SubSeq(n, 1, char), DOMAIN values) = {}
<1>1. DOMAIN values \in SUBSET Seq(Chars)
  BY KnownNames
<1> QED
  BY <1>1, FirstIsShortest

LEMMA ValueGrows ==
    ASSUME EnvTypeOK, NEW n \in Seq(Chars), char \in 1..Len(n), NEW m \in DOMAIN values, Len(m) < char
    PROVE  Append(meaning \o (values[m] \o SubSeq(n, Len(m) + 1, char - 1)), n[char])
             = meaning \o (values[m] \o SubSeq(n, Len(m) + 1, char))
<1>1. meaning \in Seq(Chars) /\ values[m] \in Seq(Chars)
  BY DEF EnvTypeOK
<1>2. Len(m) + 1 \in 1..char
  BY KnownNames
<1> QED
  BY <1>1, <1>2, RestGrows

LEMMA ReadName ==
    ASSUME EnvTypeOK, Settled, Agrees, ReadChar, char > 0
    PROVE  Agrees'
<1>1. Text \in Seq(Tokens) /\ token \in 1..Len(Text)
  BY TextFacts DEF EnvTypeOK, ReadChar
<1> PICK t \in Tokens : t = Text[token]
  BY <1>1
<1>2. t.name /\ (Unmatched \/ Matched)
  BY DEF Agrees, InName
<1> PICK n \in Names : n = t.text
  BY <1>2, TokenFacts
<1>3. /\ n \in Seq(Chars) /\ Len(n) \in Nat /\ Len(Written(t)) = Len(n) + 1 /\ Written(t) = <<Dollar>> \o n
      /\ \A i \in 1..Len(n) : Written(t)[i + 1] = n[i] /\ n[i] \in Letters \ {Backslash}
  BY <1>2, TokenFacts
<1>4. char \in 1..Len(n)
  BY <1>1, <1>3 DEF EnvTypeOK
<1>5. UNCHANGED <<env, val, entry, values, output, meant>> /\ Text' = Text /\ output = <<>> /\ meant = values
  BY <1>1 DEF ReadChar, Text, Agrees
<1> PICK c \in Letters \ {Backslash} : c = n[char] /\ c = Written(t)[char + 1]
  BY <1>3, <1>4
<1>6. parser \in [ret : Seq(Chars), isVarName : BOOLEAN, varName : Seq(Chars)] /\ c \in Chars /\ c # Dollar
  BY CharacterAssumption DEF EnvTypeOK, Chars
<1>7. parser' = Parse(parser, c)
  BY DEF ReadChar
<1> PICK ns \in SUBSET Seq(Chars) : ns = DOMAIN values
  BY KnownNames
<1>8. meaning \in Seq(Chars) /\ \A m \in ns : values[m] \in Seq(Chars)
  BY DEF EnvTypeOK
<1> DEFINE rest(m, i) == meaning \o (values[m] \o SubSeq(n, Len(m) + 1, i))
\* What follows is a variable that is matched and read up to this character.
<1>9. ASSUME Begins(n, ns) # {}, Len(Shortest(Begins(n, ns))) <= char,
             ~parser'.isVarName, parser'.varName = <<>>, parser'.ret = rest(Shortest(Begins(n, ns)), char)
      PROVE  Agrees'
  <2>1. CASE char < Len(n)
    <3>1. char' = char + 1 /\ token' = token /\ meaning' = meaning
      BY <1>3, <1>4, <2>1 DEF ReadChar
    <3>2. char' - 1 = char /\ Len(Shortest(Begins(n, ns))) < char'
      <4> PICK m \in Begins(n, ns) : m = Shortest(Begins(n, ns))
        BY <1>3, <1>9, ShortestFacts
      <4>1. Len(m) \in Nat
        BY DEF Begins
      <4>2. Len(m) <= char
        BY <1>9, Zenon
      <4> QED
        BY <1>4, <3>1, <4>1, <4>2
    <3>3. Matched'
      BY <1>5, <1>9, <3>1, <3>2 DEF Matched
    <3>4. InName'
      BY <1>2, <1>5, <3>1, <3>3 DEF InName
    <3> QED
      BY <1>4, <1>5, <3>1, <3>4 DEF Agrees
  <2>2. CASE char = Len(n)
    <3>1. char' = 0 /\ token' = token + 1 /\ meaning' = meaning \o Meaning(t)
      BY <1>3, <2>2 DEF ReadChar
    <3>2. meaning' = parser'.ret
      BY <1>2, <1>5, <1>9, <2>2, <3>1 DEF Meaning
    <3>3. Done'
      BY <1>9, <3>2 DEF Done
    <3> QED
      BY <1>5, <3>1, <3>3 DEF Agrees
  <2> QED
    BY <1>4, <2>1, <2>2
<1>10. CASE Matched
  <2> PICK m \in Begins(n, ns) : m = Shortest(Begins(n, ns))
    BY <1>3, <1>10, ShortestFacts DEF Matched
  <2>1. m \in ns /\ m \in Seq(Chars) /\ Len(m) \in Nat /\ Len(m) < char
    BY <1>10 DEF Begins, Matched
  <2>2. Begins(n, ns) # {} /\ Len(m) <= char
    BY <1>4, <2>1
  <2>3. parser.ret = rest(m, char - 1) /\ ~parser.isVarName /\ parser.varName = <<>>
    BY <1>10 DEF Matched
  <2>4. parser' = [parser EXCEPT !.ret = Append(@, c)]
    BY <1>6, <1>7, <2>3 DEF Parse
  <2>5. parser'.ret = Append(rest(m, char - 1), c) /\ ~parser'.isVarName /\ parser'.varName = <<>>
    BY <1>6, <2>3, <2>4
  <2>6. Append(rest(m, char - 1), c) = rest(m, char)
    <3>1. m \in DOMAIN values /\ Len(m) < char /\ n \in Seq(Chars)
      BY <1>3, <2>1, Zenon
    <3>2. Append(meaning \o (values[m] \o SubSeq(n, Len(m) + 1, char - 1)), n[char])
            = meaning \o (values[m] \o SubSeq(n, Len(m) + 1, char))
      BY <1>4, <3>1, ValueGrows
    <3> QED
      BY <3>2, Zenon
  <2> QED
    BY <1>9, <2>2, <2>5, <2>6
<1>11. CASE Unmatched
  <2>1. parser.isVarName /\ parser.ret = meaning /\ parser.varName = SubSeq(n, 1, char - 1) /\ Begins(parser.varName, ns) = {}
    BY <1>11 DEF Unmatched
  <2> PICK long \in Seq(Chars) : /\ long = SubSeq(n, 1, char) /\ Len(long) = char
                                 /\ long = Append(parser.varName, c) /\ IsPrefix(long, n)
    <3>1. /\ SubSeq(n, 1, char) \in Seq(Chars) /\ Len(SubSeq(n, 1, char)) = char
          /\ IsPrefix(SubSeq(n, 1, char), n)
          /\ Append(SubSeq(n, 1, char - 1), n[char]) = SubSeq(n, 1, char)
      BY <1>3, <1>4, NameStart
    <3> QED
      BY <2>1, <3>1
  <2> PICK p : p = [parser EXCEPT !.varName = long]
    OBVIOUS
  <2>2. p.ret = meaning /\ p.isVarName /\ p.varName = long
    BY <1>6, <2>1
  <2>3. parser' = Match(p)
    <3>1. [parser EXCEPT !.varName = Append(@, c)] = p
      BY <1>6
    <3> QED
      BY <1>6, <1>7, <2>1, <3>1 DEF Parse
  <2>4. /\ long \in ns => Begins(n, ns) # {} /\ Shortest(Begins(n, ns)) = long
        /\ long \notin ns => Begins(long, ns) = {}
    <3>1. Begins(SubSeq(n, 1, char - 1), ns) = {}
      BY <2>1, Zenon
    <3>2. n \in Seq(Chars) /\ Begins(SubSeq(n, 1, char - 1), DOMAIN values) = {}
      BY <1>3, <3>1, Zenon
    <3>3. /\ SubSeq(n, 1, char) \in DOMAIN values =>
               Begins(n, DOMAIN values) # {} /\ Shortest(Begins(n, DOMAIN values)) = SubSeq(n, 1, char)
          /\ SubSeq(n, 1, char) \notin DOMAIN values => Begins(SubSeq(n, 1, char), DOMAIN values) = {}
      BY <1>4, <3>2, NameGrows
    <3> QED
      BY <3>3, Zenon
  <2>5. CASE long \in ns
    <3>1. parser' = [Fresh EXCEPT !.ret = meaning \o values[long]]
      BY <2>2, <2>3, <2>5 DEF Match
    <3>2. parser'.ret = meaning \o values[long] /\ ~parser'.isVarName /\ parser'.varName = <<>>
      BY <3>1 DEF Fresh
    <3>3. rest(long, char) = meaning \o values[long]
      <4>1. SubSeq(n, Len(long) + 1, char) = <<>>
        BY <1>3, <1>4, SubSeqEmpty
      <4>2. values[long] \o <<>> = values[long]
        BY <1>8, <2>5, ConcatEmptySeq
      <4> QED
        BY <4>1, <4>2
    <3>4. Len(long) <= char
      BY <1>4
    <3> QED
      BY <1>9, <2>4, <2>5, <3>2, <3>3, <3>4
  <2>6. CASE long \notin ns
    <3>1. parser' = p
      BY <2>2, <2>3, <2>6 DEF Match
    <3>2. CASE char < Len(n)
      <4>1. char' = char + 1 /\ token' = token /\ meaning' = meaning /\ char' - 1 = char
        BY <1>3, <1>4, <3>2 DEF ReadChar
      <4>2. Unmatched'
        BY <1>5, <2>2, <2>4, <2>6, <3>1, <4>1 DEF Unmatched
      <4>3. InName'
        BY <1>2, <1>5, <4>1, <4>2 DEF InName
      <4> QED
        BY <1>4, <1>5, <4>1, <4>3 DEF Agrees
    <3>3. CASE char = Len(n)
      <4>1. char' = 0 /\ token' = token + 1 /\ meaning' = meaning \o Meaning(t)
        BY <1>3, <3>3 DEF ReadChar
      <4>2. long = n
        BY <1>3, <3>3, SubSeqFull
      <4>3. Begins(n, ns) = {}
        BY <2>4, <2>6, <4>2
      <4>4. meaning' = meaning \o (<<Dollar>> \o n)
        BY <1>3, <1>5, <4>1, <4>3 DEF Meaning
      <4>5. meaning \o <<Dollar>> \o n = meaning'
        <5>1. <<Dollar>> \in Seq(Chars)
          BY DEF Chars
        <5>2. meaning \in Seq(Chars) /\ n \in Seq(Chars)
          BY <1>3, <1>8
        <5>3. (meaning \o <<Dollar>>) \o n = meaning \o (<<Dollar>> \o n)
          BY <5>1, <5>2, Associative
        <5> QED
          BY <4>4, <5>3
      <4>6. IsPrefix(n, n)
        BY <1>3, PrefixFacts
      <4>7. token \in 1..token' - 1 /\ \A i \in token + 1..token' - 1 : ~Text[i].name
        BY <1>1, <4>1
      <4>8. Pending'
        BY <1>2, <1>5, <2>2, <3>1, <4>1, <4>2, <4>3, <4>5, <4>6, <4>7 DEF Pending
      <4> QED
        BY <1>5, <4>1, <4>8 DEF Agrees
    <3> QED
      BY <1>4, <3>2, <3>3
  <2> QED
    BY <2>5, <2>6
<1> QED
  BY <1>2, <1>10, <1>11

LEMMA ReadCharEInv == ASSUME EInv, ReadChar PROVE EInv'
<1>1. Settled' <=> Settled
  BY DEF ReadChar, Settled, Known
<1>2. char = 0 \/ char > 0
  BY DEF EInv, EnvTypeOK
<1> QED
  BY <1>1, <1>2, ReadCharTypeOK, ReadLetter, ReadDollar, ReadName DEF EInv

-----------------------------------------------------------------------------
(* The loop over env, and the end.                                          *)

\* A text that is read to its end is replaced, for an undefined variable is not its last.
LEMMA AllIsReplaced ==
    ASSUME EnvTypeOK, Settled, Agrees, token > Len(Text)
    PROVE  Replaced = meaning /\ meant = values
<1>1. char = 0
  BY DEF EnvTypeOK
<1>2. ~Pending
  BY PendingGoesOn, TextFacts
<1>3. Done
  BY <1>1, <1>2 DEF Agrees
<1>4. parser.ret \in Seq(Chars)
  BY DEF EnvTypeOK
<1> QED
  BY <1>3, <1>4, ConcatEmptySeq DEF Replaced, Done, Agrees

LEMMA NextEntryEInv ==
    ASSUME EInv, NextEntry, entry <= Len(env),
           DOMAIN values' = Known(entry + 1), DOMAIN meant' = Known(entry + 1), \A n \in DOMAIN values' : values'[n] \in Seq(Chars),
           \A n \in DOMAIN meant' : meant'[n] \in Seq(Chars),
           Settled => meant' = values'
    PROVE  EInv'
<1>1. EnvTypeOK
  BY DEF EInv
<1>2. /\ env \in Seq(Entries) /\ val \in Seq(Tokens) /\ entry' = entry + 1 /\ token' = 1 /\ char' = 0
      /\ parser' = Fresh /\ meaning' = <<>> /\ UNCHANGED <<env, val, output>>
      /\ entry' \in 1..Len(env) + 1
  BY <1>1 DEF EnvTypeOK, NextEntry
<1>3. Text' \in Seq(Tokens)
  <2>1. \A k \in 1..Len(env) : env[k] \in Entries
    BY <1>2
  <2> QED
    BY <1>2, <2>1 DEF Text, Entries
<1>4. token' <= Len(Text') => char' < Len(Written(Text'[token']))
  <2> SUFFICES ASSUME 1 <= Len(Text') PROVE 0 < Len(Written(Text'[1]))
    BY <1>2
  <2> PICK t \in Tokens : t = Text'[1]
    BY <1>3
  <2> QED
    BY TokenFacts
<1>5. EnvTypeOK'
  <2>1. token' \in 1..Len(Text') + 1 /\ char' \in Nat
    BY <1>2, <1>3
  <2>2. <<>> \in Seq(Chars)
    BY EmptySeq
  <2>3. parser' \in [ret : Seq(Chars), isVarName : BOOLEAN, varName : Seq(Chars)] /\ meaning' \in Seq(Chars)
    BY <1>2, <2>2 DEF Fresh
  <2>4. output' \in Seq(Seq(Chars))
    BY <1>1, <1>2 DEF EnvTypeOK
  <2>5. Known(entry)' = Known(entry + 1)
    BY <1>2 DEF Known
  <2> QED
    BY <1>2, <1>4, <2>1, <2>3, <2>4, <2>5 DEF EnvTypeOK
<1>6. ASSUME Settled' PROVE Agrees'
  <2>1. Settled
    <3>1. UNCHANGED <<env, val>>
      BY <1>2
    <3>2. Settled' <=> Settled
      BY <3>1 DEF Settled, Known
    <3> QED
      BY <1>6, <3>2
  <2>2. output = <<>>
    BY <1>1, <1>6, <2>1 DEF EInv, Agrees, EnvTypeOK
  <2>3. Done'
    BY <1>2 DEF Done, Fresh
  <2> QED
    BY <1>2, <1>6, <2>1, <2>2, <2>3 DEF Agrees
<1> QED
  BY <1>5, <1>6 DEF EInv

\* Which variables the entry adds to those before.
LEMMA KnownFacts ==
    ASSUME EnvTypeOK, entry <= Len(env)
    PROVE  Known(entry + 1) = Known(entry) \cup (IF env[entry].equals THEN {env[entry].name} ELSE {})
<1>1. entry \in Nat \ {0}
  BY DEF EnvTypeOK
<1>2. \A i : i \in 1..entry + 1 - 1 <=> i \in 1..entry - 1 \/ i = entry
  BY <1>1
<1>3. \A k, x : x \in Known(k) <=> \E j \in 1..k - 1 : env[j].equals /\ x = env[j].name
  BY Zenon DEF Known
<1>4. \A x : x \in Known(entry + 1) <=> x \in Known(entry) \/ (env[entry].equals /\ x = env[entry].name)
  BY <1>2, <1>3
<1>5. CASE env[entry].equals
  BY <1>4, <1>5
<1>6. CASE ~env[entry].equals
  BY <1>4, <1>6
<1> QED
  BY <1>5, <1>6

LEMMA DefineEInv == ASSUME EInv, Define PROVE EInv'
<1>1. EnvTypeOK
  BY DEF EInv
<1> PICK name : name = env[entry].name
  OBVIOUS
<1> PICK v \in Seq(Chars), m \in Seq(Chars) : v = Replaced /\ m = meaning
  <2>1. Replaced \in Seq(Chars)
    BY <1>1, ConcatProperties DEF EnvTypeOK, Replaced
  <2> QED
    BY <1>1, <2>1 DEF EnvTypeOK
<1>2. /\ values' = [y \in DOMAIN values \cup {name} |-> IF y = name THEN v ELSE values[y]]
      /\ meant' = [y \in DOMAIN meant \cup {name} |-> IF y = name THEN m ELSE meant[y]]
      /\ NextEntry /\ entry <= Len(env) /\ env[entry].equals /\ token > Len(Text)
  BY DEF Define, Set
<1>3. DOMAIN values' = Known(entry + 1) /\ DOMAIN meant' = Known(entry + 1)
  BY <1>1, <1>2, KnownFacts DEF EnvTypeOK
<1>4. /\ \A n \in DOMAIN values' : values'[n] \in Seq(Chars)
      /\ \A n \in DOMAIN meant' : meant'[n] \in Seq(Chars)
  BY <1>1, <1>2 DEF EnvTypeOK
<1>5. Settled => meant' = values'
  BY <1>1, <1>2, AllIsReplaced DEF EInv
<1> QED
  BY <1>2, <1>3, <1>4, <1>5, NextEntryEInv

LEMMA SkipEInv == ASSUME EInv, Skip PROVE EInv'
<1>1. EnvTypeOK
  BY DEF EInv
<1>2. NextEntry /\ entry <= Len(env) /\ ~env[entry].equals /\ UNCHANGED <<values, meant>>
  BY DEF Skip
<1>3. DOMAIN values' = Known(entry + 1) /\ DOMAIN meant' = Known(entry + 1)
  BY <1>1, <1>2, KnownFacts DEF EnvTypeOK
<1>4. /\ \A n \in DOMAIN values' : values'[n] \in Seq(Chars)
      /\ \A n \in DOMAIN meant' : meant'[n] \in Seq(Chars)
  BY <1>1, <1>2 DEF EnvTypeOK
<1>5. Settled => meant' = values'
  BY <1>2 DEF EInv, Agrees
<1> QED
  BY <1>2, <1>3, <1>4, <1>5, NextEntryEInv

LEMMA ReplaceEInv == ASSUME EInv, Replace PROVE EInv'
<1>1. EnvTypeOK
  BY DEF EInv
<1>2. /\ UNCHANGED <<env, val, entry, token, char, parser, values, meaning, meant>> /\ Text' = Text
      /\ entry > Len(env) /\ token > Len(Text) /\ output' = <<Replaced>>
  BY DEF Replace, Text
<1>3. Replaced \in Seq(Chars)
  BY <1>1, ConcatProperties DEF EnvTypeOK, Replaced
<1>4. EnvTypeOK'
  BY <1>1, <1>2, <1>3 DEF EnvTypeOK, Known
<1>5. ASSUME Settled' PROVE Agrees'
  <2>1. Settled /\ Agrees
    BY <1>2, <1>5 DEF EInv, Settled, Known
  <2>2. Replaced = meaning
    BY <1>1, <1>2, <2>1, AllIsReplaced
  <2>3. (InName' <=> InName) /\ (Done' <=> Done) /\ (Pending' <=> Pending)
    BY <1>2 DEF InName, Unmatched, Matched, Done, Pending
  <2> QED
    BY <1>2, <2>1, <2>2, <2>3 DEF Agrees
<1> QED
  BY <1>4, <1>5 DEF EInv

LEMMA NextEInv == EInv /\ [Next]_variables => EInv'
<1> SUFFICES ASSUME EInv, [Next]_variables PROVE EInv'
  OBVIOUS
<1>1. CASE UNCHANGED variables
  <2>1. UNCHANGED <<env, val, entry, token, char, parser, values, output, meaning, meant>> /\ Text' = Text
    BY <1>1 DEF variables, Text
  <2>2. EnvTypeOK' <=> EnvTypeOK
    BY <2>1 DEF EnvTypeOK, Known
  <2>3. Settled' <=> Settled
    BY <2>1 DEF Settled, Known
  <2>4. (InName' <=> InName) /\ (Done' <=> Done) /\ (Pending' <=> Pending)
    BY <2>1 DEF InName, Unmatched, Matched, Done, Pending
  <2>5. Agrees' <=> Agrees
    BY <2>1, <2>4 DEF Agrees
  <2> QED
    BY <2>2, <2>3, <2>5 DEF EInv
<1>2. CASE Next
  BY <1>2, ReadCharEInv, DefineEInv, SkipEInv, ReplaceEInv DEF Next
<1> QED
  BY <1>1, <1>2

-----------------------------------------------------------------------------
(* Theorems.                                                                *)

\* Between two characters the parser holds what the tokens it has read mean, or is in
\* the middle of a name, or holds an undefined variable that the next one will flush.
THEOREM EnvInductive == Spec => []EInv
<1> QED
  BY InitEInv, NextEInv, PTL DEF Spec

\* For any environment and text in which undefined variables are settled: Replace puts the
\* value it had when it was read for each variable, that of the shortest defined name where
\* several could be meant, and keeps the rest of the text.
THEOREM EnvVariablesAreReplaced == Spec => []VariablesAreReplaced
<1>1. EInv => VariablesAreReplaced
  BY DEF EInv, Agrees, VariablesAreReplaced
<1> QED
  BY <1>1, EnvInductive, PTL
=============================================================================
