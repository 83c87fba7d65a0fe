----------------------------- MODULE CliProofs -----------------------------
(***************************************************************************)
(* Proofs about Options, for command lines of every length, and about Cli, *)
(* the program that is either the menu or one command.                     *)
(***************************************************************************)
EXTENDS Cli, MenuProofs, WellFoundedInduction

Kept == \E i \in DOMAIN args : args[i] = "--keep"

Clean(words) == words \in Seq(Words) /\ \A i \in 1 .. Len(words) : words[i] # "--keep"

(***************************************************************************)
(* Why --keep is honoured: the first loop has seen it if and only if it is *)
(* among the words behind it, and the second loop never meets it.          *)
(***************************************************************************)
LineInv ==
  /\ step = "start" =>
       /\ index = 1 /\ keep = FALSE /\ positionals = <<>> /\ unlock = NONE
  /\ step # "start" => args \in Seq(Words)
  /\ step = "filter" =>
       /\ command = "open" /\ index \in 1 .. Len(args) + 1
       /\ keep \in BOOLEAN /\ keep <=> \E i \in 1 .. index - 1 : args[i] = "--keep"
       /\ positionals = <<>> /\ unlock = NONE /\ Clean(rest)
  /\ command = "open" /\ step \in {"parse", "resolve", "run", "failed"} =>
       /\ keep <=> Kept
       /\ Clean(rest) /\ Clean(positionals) /\ unlock # "--keep"
       /\ index \in Nat \ {0}
       /\ step # "parse" => Len(positionals) = 1

\* Nothing is read at first.
LEMMA InitLineInv == LineInit => LineInv
  BY DEF LineInit, LineInv, NONE

\* A word that is not --keep leaves a sequence without it.
LEMMA CleanAppend ==
  ASSUME NEW words, Clean(words), NEW word \in Words, word # "--keep"
  PROVE  Clean(Append(words, word))
  BY DEF Clean

\* The first loop.
LEMMA FilterStep ==
  ASSUME LineInv, Filter
  PROVE  LineInv'
<1>1. /\ step = "filter" /\ command = "open" /\ command' = "open" /\ args' = args
      /\ UNCHANGED <<positionals, unlock>> /\ positionals = <<>> /\ unlock = NONE
      /\ args \in Seq(Words) /\ index \in 1 .. Len(args) + 1 /\ Clean(rest)
      /\ keep \in BOOLEAN /\ keep <=> \E i \in 1 .. index - 1 : args[i] = "--keep"
  BY DEF LineInv, Filter
<1>2. DOMAIN args = 1 .. Len(args) /\ Len(args) \in Nat
  BY <1>1
<1>3. CASE index > Len(args)
  <2>1. step' = "parse" /\ index' = 1 /\ UNCHANGED <<rest, keep>>
    BY <1>3 DEF Filter
  <2>2. index - 1 = Len(args)
    BY <1>1, <1>2, <1>3
  <2>3. keep' <=> Kept'
    BY <1>1, <1>2, <2>1, <2>2 DEF Kept
  <2>4. Clean(positionals')
    BY <1>1 DEF Clean
  <2>. QED BY <1>1, <2>1, <2>3, <2>4 DEF LineInv, Clean, NONE
<1>4. CASE ~(index > Len(args)) /\ args[index] = "--keep"
  <2>1. step' \in {"filter", "usage"} /\ keep' = TRUE /\ index' = index + 1 /\ UNCHANGED rest
    BY <1>4 DEF Filter, IsKeep
  <2>2. index' \in 1 .. Len(args) + 1 /\ index \in 1 .. index' - 1
    BY <1>1, <1>2, <1>4, <2>1
  <2>. QED BY <1>1, <1>4, <2>1, <2>2 DEF LineInv, Clean
<1>5. CASE ~(index > Len(args)) /\ args[index] # "--keep"
  <2>1. step' = "filter" /\ rest' = Append(rest, args[index]) /\ index' = index + 1 /\ keep' = keep
    BY <1>1, <1>5 DEF Filter, IsKeep
  <2>2. index' \in 1 .. Len(args) + 1 /\ args[index] \in Words /\ index' - 1 = index
    BY <1>1, <1>2, <1>5, <2>1
  <2>3. Clean(rest')
    BY <1>1, <1>5, <2>1, <2>2, CleanAppend
  <2>4. keep' <=> \E i \in 1 .. index' - 1 : args'[i] = "--keep"
    <3>1. \A i \in 1 .. index : i = index \/ i \in 1 .. index - 1
      BY <1>1
    <3>2. \A i \in 1 .. index - 1 : i \in 1 .. index
      BY <1>1
    <3>. QED BY <1>1, <1>5, <2>1, <2>2, <3>1, <3>2
  <2>. QED BY <1>1, <2>1, <2>2, <2>3, <2>4 DEF LineInv
<1>. QED BY <1>3, <1>4, <1>5

\* The second loop.
LEMMA ParseStep ==
  ASSUME LineInv, ParseNext
  PROVE  LineInv'
<1>1. /\ step = "parse" /\ step' \in {"parse", "usage"} /\ UNCHANGED <<command, args, rest>>
      /\ args \in Seq(Words)
  BY DEF LineInv, ParseNext, Refuse
<1>2. CASE command = "open" /\ step' = "parse"
  <2>1. /\ keep <=> Kept
        /\ Clean(rest) /\ Clean(positionals) /\ unlock # "--keep" /\ index \in Nat \ {0}
        /\ index <= Len(rest)
    BY <1>1, <1>2 DEF LineInv, ParseNext
  <2>2. rest[index] \in Words /\ rest[index] # "--keep" /\ Len(rest) \in Nat
    BY <2>1 DEF Clean
  <2>3. index' \in Nat \ {0} /\ keep' = keep
    BY <1>1, <1>2, <2>1 DEF ParseNext, Refuse, Width
  <2>4. CASE Takes(command, rest[index]) /\ Value(index)
    <3>1. index + 1 \in 1 .. Len(rest)
      BY <2>1, <2>2, <2>4 DEF Value
    <3>2. unlock' # "--keep" /\ positionals' = positionals
      BY <1>1, <1>2, <2>1, <2>4, <3>1 DEF ParseNext, Refuse, Set, Clean
    <3>. QED BY <1>1, <1>2, <2>1, <2>3, <3>2 DEF LineInv, Kept
  <2>5. CASE ~(Takes(command, rest[index]) /\ Value(index))
    <3>1. positionals' = Append(positionals, rest[index]) /\ unlock' = unlock
      BY <1>1, <1>2, <2>5 DEF ParseNext, Refuse
    <3>2. Clean(positionals')
      BY <2>1, <2>2, <3>1, CleanAppend
    <3>. QED BY <1>1, <1>2, <2>1, <2>3, <3>1, <3>2 DEF LineInv, Kept
  <2>. QED BY <2>4, <2>5
<1>. QED BY <1>1, <1>2 DEF LineInv

\* No step breaks the invariant.
LEMMA NextLineInv == LineInv /\ [LineNext]_lineVars => LineInv'
<1> SUFFICES ASSUME LineInv, [LineNext]_lineVars PROVE LineInv'
  OBVIOUS
<1>1. CASE UNCHANGED lineVars
  BY <1>1 DEF lineVars, result, LineInv, Kept
<1>2. ASSUME NEW c, NEW words \in Seq(Words), NEW e, Run(c, words, e) PROVE LineInv'
  <2>1. /\ step = "start" /\ UNCHANGED <<index, positionals, unlock, keep>>
        /\ index = 1 /\ keep = FALSE /\ positionals = <<>> /\ unlock = NONE
    BY <1>2 DEF Run, LineInv, result
  <2>2. command' = c /\ args' = words /\ rest' = IF c = "open" THEN <<>> ELSE words
    BY <1>2 DEF Run
  <2>3. step' \in {"parse", "filter", "run", "usage", "help"} /\ (c = "open" <=> step' = "filter")
    BY <1>2 DEF Run
  <2>4. Clean(<<>>)
    BY DEF Clean
  <2>5. words \in Seq(Words) /\ 1 \in 1 .. Len(words) + 1 /\ ~\E i \in 1 .. 1 - 1 : words[i] = "--keep"
    BY <1>2
  <2>. QED BY <2>1, <2>2, <2>3, <2>4, <2>5 DEF LineInv
<1>3. CASE Parsed
  BY <1>3 DEF Parsed, LineInv, result, Operands, Kept
<1>4. CASE Resolve
  BY <1>4 DEF Resolve, LineInv, Kept, ENV, TYPED
<1>. QED BY <1>1, <1>2, <1>3, <1>4, FilterStep, ParseStep DEF LineNext, LineStep

\* A letter that was to be kept is kept, wherever --keep stands.
THEOREM KeepIsHonoured == LineSpec => []KeepHonoured
<1>1. LineInv => KeepHonoured
  <2> SUFFICES ASSUME LineInv, step = "run", command = "open"
               PROVE  /\ keep <=> Kept
                      /\ unlock # "--keep" /\ positionals[1] # "--keep"
    BY DEF KeepHonoured, Kept
  <2>1. keep <=> Kept
    BY DEF LineInv
  <2>2. Clean(positionals) /\ unlock # "--keep" /\ Len(positionals) = 1
    BY DEF LineInv
  <2>. QED BY <2>1, <2>2 DEF Clean
<1>. QED BY <1>1, InitLineInv, NextLineInv, PTL DEF LineSpec

-----------------------------------------------------------------------------
(***************************************************************************)
(* The roles of words are well defined: a role depends on the word and on  *)
(* the role before it alone.                                               *)
(***************************************************************************)
Kinds == {"command", "value", "option", "out of place", "operand"}

RoleAt(c, words, role, i) ==
  IF i = 0 THEN "command"
  ELSE IF role[i - 1] = "option" THEN "value"
  ELSE IF Takes(c, words[i]) THEN "option"
  ELSE IF Dashed(words[i]) THEN "out of place"
  ELSE "operand"

\* A set of numbers has a least one.
LEMMA Least ==
  ASSUME NEW some, some \subseteq Nat, some # {}
  PROVE  \E n \in some : \A m \in some : n <= m
<1> DEFINE less == {ss \in Nat \X Nat : ss[1] < ss[2]}
<1>1. IsWellFoundedOn(less, Nat)
  BY NatLessThanWellFounded DEF OpToRel
<1>2. \E n \in some : \A m \in some : <<m, n>> \notin less
  <2> HIDE DEF less
  <2>. QED BY <1>1, WFMin
<1>3. PICK n \in some : \A m \in some : <<m, n>> \notin less
  BY <1>2
<1>4. \A m \in some : ~(m < n)
  BY <1>3
<1>. QED BY <1>4

LEMMA RolesRule ==
  ASSUME NEW c, NEW words
  PROVE  \A i \in Nat : Roles(c, words)[i] = RoleAt(c, words, Roles(c, words), i)
<1> DEFINE Rule(f, i)  == RoleAt(c, words, f, i)
           Partial(n) == {f \in [0 .. n -> Kinds] : \A i \in 0 .. n : f[i] = Rule(f, i)}
<1>1. \A f, i : Rule(f, i) \in Kinds
  BY DEF RoleAt, Kinds
<1>2. \A i \in Nat \ {0} : \A f, g : f[i - 1] = g[i - 1] => Rule(f, i) = Rule(g, i)
  BY DEF RoleAt
<1>3. \A f, g : Rule(f, 0) = Rule(g, 0)
  BY DEF RoleAt
<1> HIDE DEF Rule
\* The words up to any place have roles.
<1>4. \A n \in Nat : Partial(n) # {}
  <2> DEFINE without == {n \in Nat : Partial(n) = {}}
  <2>1. SUFFICES ASSUME without # {} PROVE FALSE
    OBVIOUS
  <2>2. PICK n \in without : \A m \in without : n <= m
    <3> HIDE DEF Partial
    <3>. QED BY <2>1, Least
  <2>3. CASE n = 0
    <3> DEFINE f == [i \in 0 .. 0 |-> Rule(<<>>, 0)]
    <3>1. f \in [0 .. 0 -> Kinds]
      BY <1>1
    <3>2. \A i \in 0 .. 0 : f[i] = Rule(f, i)
      BY <1>3
    <3>. QED BY <2>2, <2>3, <3>1, <3>2
  <2>4. CASE n # 0
    <3>1. n - 1 \in Nat /\ n - 1 \notin without /\ n \in Nat
      <4>1. n \in Nat
        BY <2>2
      <4>2. n - 1 \in Nat /\ ~(n <= n - 1)
        BY <2>4, <4>1
      <4> HIDE DEF without
      <4>. QED BY <2>2, <4>1, <4>2
    <3>2. PICK f \in Partial(n - 1) : TRUE
      BY <3>1
    <3> DEFINE g == [i \in 0 .. n |-> IF i = n THEN Rule(f, n) ELSE f[i]]
    <3>3. \A i \in 0 .. n : i # n => i \in 0 .. n - 1
      BY <3>1
    <3>4. g \in [0 .. n -> Kinds]
      <4>1. \A i \in 0 .. n - 1 : f[i] \in Kinds
        BY <3>2
      <4>. QED BY <1>1, <3>3, <4>1
    <3>5. ASSUME NEW i \in 0 .. n PROVE g[i] = Rule(g, i)
      <4>1. CASE i = n
        <5>1. g[n] = Rule(f, n) /\ g[n - 1] = f[n - 1]
          BY <3>1
        <5> HIDE DEF g
        <5>. QED BY <1>2, <2>4, <3>1, <4>1, <5>1
      <4>2. CASE i # n
        <5>1. i \in 0 .. n - 1 /\ g[i] = f[i] /\ f[i] = Rule(f, i)
          BY <3>2, <3>3, <4>2
        <5>2. i # 0 => g[i - 1] = f[i - 1] /\ i \in Nat \ {0}
          BY <3>1, <5>1
        <5> HIDE DEF g
        <5>3. i # 0 => Rule(f, i) = Rule(g, i)
          BY <1>2, <5>2
        <5>. QED BY <1>3, <5>1, <5>3
      <4>. QED BY <4>1, <4>2
    <3> HIDE DEF g
    <3>6. g \in Partial(n)
      BY <3>4, <3>5
    <3>. QED BY <2>2, <3>6
  <2>. QED BY <2>3, <2>4
\* They have no other roles.
<1>5. ASSUME NEW m \in Nat, NEW n \in Nat, NEW f \in Partial(m), NEW g \in Partial(n)
      PROVE  \A i \in 0 .. m : i <= n => f[i] = g[i]
  <2> DEFINE differ == {i \in 0 .. m : i <= n /\ f[i] # g[i]}
  <2>1. SUFFICES ASSUME differ # {} PROVE FALSE
    OBVIOUS
  <2>2. PICK i \in differ : \A j \in differ : i <= j
    <3>1. differ \subseteq Nat
      OBVIOUS
    <3> HIDE DEF differ
    <3>. QED BY <2>1, <3>1, Least
  <2>3. i \in 0 .. m /\ i \in 0 .. n /\ f[i] = Rule(f, i) /\ g[i] = Rule(g, i) /\ f[i] # g[i]
    BY <2>2
  <2>4. i # 0
    BY <1>3, <2>3
  <2>5. i - 1 \in 0 .. m /\ i - 1 <= n /\ ~(i <= i - 1)
    BY <2>3, <2>4
  <2>6. f[i - 1] = g[i - 1]
    BY <2>2, <2>5
  <2>. QED BY <1>2, <2>3, <2>4, <2>6
<1> DEFINE part(n) == CHOOSE f \in Partial(n) : TRUE
           whole   == [n \in Nat |-> part(n)[n]]
<1>6. \A n \in Nat : part(n) \in Partial(n)
  BY <1>4
<1>7. ASSUME NEW n \in Nat PROVE whole[n] = Rule(whole, n)
  <2>1. whole[n] = part(n)[n] /\ part(n)[n] = Rule(part(n), n)
    <3>1. n \in 0 .. n /\ part(n) \in Partial(n)
      BY <1>6
    <3> HIDE DEF part
    <3>. QED BY <3>1
  <2>2. n # 0 => whole[n - 1] = part(n)[n - 1]
    <3> SUFFICES ASSUME n # 0 PROVE whole[n - 1] = part(n)[n - 1]
      OBVIOUS
    <3>1. n - 1 \in Nat /\ n - 1 \in 0 .. n - 1 /\ n - 1 <= n
      OBVIOUS
    <3>2. part(n - 1)[n - 1] = part(n)[n - 1]
      <4>1. part(n - 1) \in Partial(n - 1) /\ part(n) \in Partial(n)
        BY <1>6, <3>1
      <4> HIDE DEF part, Partial
      <4>. QED BY <1>5, <3>1, <4>1
    <3>. QED BY <3>1, <3>2
  <2> HIDE DEF part, whole
  <2>. QED BY <1>2, <1>3, <2>1, <2>2
<1>8. whole = [i \in Nat |-> Rule(whole, i)]
  <2>1. whole = [i \in Nat |-> whole[i]]
    OBVIOUS
  <2> HIDE DEF whole
  <2>. QED BY <1>7, <2>1
<1>9. Roles(c, words) = CHOOSE role : role = [i \in Nat |-> Rule(role, i)]
  BY DEF Roles, Rule, RoleAt
<1>10. Roles(c, words) = [i \in Nat |-> Rule(Roles(c, words), i)]
  <2> HIDE DEF whole
  <2>1. \E role : role = [i \in Nat |-> Rule(role, i)]
    BY <1>8
  <2>. QED BY <1>9, <2>1
<1>11. \A i \in Nat : Roles(c, words)[i] = Rule(Roles(c, words), i)
  BY <1>10
<1>. QED BY <1>11 DEF Rule

(***************************************************************************)
(* What the second loop has found in the first m words.                    *)
(***************************************************************************)
InPlace(c, w, m) ==
  \A i \in 1 .. m : /\ Roles(c, w)[i] # "out of place"
                    /\ Roles(c, w)[i] = "value" /\ w[i - 1] = "--name" => w[i] \notin Raw

Option(c, w, i, option) == Roles(c, w)[i] = "option" /\ w[i] = option

LastGiven(c, w, m, option, value) ==
  \/ value = NONE /\ \A i \in 1 .. m : ~Option(c, w, i, option)
  \/ \E i \in 1 .. m : /\ Option(c, w, i, option) /\ value = w[i + 1]
                       /\ \A j \in 1 .. m : Option(c, w, j, option) => j <= i

IsOperand(c, w, i) == Roles(c, w)[i] = "operand"

Collected(c, w, m, operands) ==
  \/ operands = <<>> /\ \A i \in 1 .. m : ~IsOperand(c, w, i)
  \/ \E i \in 1 .. m : /\ IsOperand(c, w, i) /\ operands = <<w[i]>>
                       /\ \A j \in 1 .. m : IsOperand(c, w, j) => j = i
  \/ /\ Len(operands) > 1
     /\ \E i, j \in 1 .. m : i # j /\ IsOperand(c, w, i) /\ IsOperand(c, w, j)

\* A word that is no option and is in place, or no operand, changes nothing.
LEMMA NoOptionMore ==
  ASSUME NEW c, NEW w, NEW m \in Nat, NEW option, NEW value, LastGiven(c, w, m, option, value),
         ~Option(c, w, m + 1, option)
  PROVE  LastGiven(c, w, m + 1, option, value)
<1>1. \A i \in 1 .. m + 1 : i \in 1 .. m \/ i = m + 1
  OBVIOUS
<1>2. \A i \in 1 .. m : i \in 1 .. m + 1
  OBVIOUS
<1>. QED BY <1>1, <1>2 DEF LastGiven

LEMMA NoOperandMore ==
  ASSUME NEW c, NEW w, NEW m \in Nat, NEW operands, Collected(c, w, m, operands),
         ~IsOperand(c, w, m + 1)
  PROVE  Collected(c, w, m + 1, operands)
<1>1. \A i \in 1 .. m + 1 : i \in 1 .. m \/ i = m + 1
  OBVIOUS
<1>2. \A i \in 1 .. m : i \in 1 .. m + 1
  OBVIOUS
<1>. QED BY <1>1, <1>2 DEF Collected

\* An option replaces what was given before.
LEMMA OptionMore ==
  ASSUME NEW c, NEW w, NEW m \in Nat, NEW option, NEW value, LastGiven(c, w, m, option, value),
         Option(c, w, m + 1, option)
  PROVE  LastGiven(c, w, m + 1, option, w[m + 2])
<1>1. \A i \in 1 .. m + 1 : i <= m + 1
  OBVIOUS
<1>2. m + 1 \in 1 .. m + 1 /\ (m + 1) + 1 = m + 2
  OBVIOUS
<1>. QED BY <1>1, <1>2 DEF LastGiven

\* An operand is added.
LEMMA OperandMore ==
  ASSUME NEW c, NEW w, NEW m \in Nat, NEW operands \in Seq(Words), Collected(c, w, m, operands),
         IsOperand(c, w, m + 1), w[m + 1] \in Words
  PROVE  Collected(c, w, m + 1, Append(operands, w[m + 1]))
<1>1. \A i \in 1 .. m + 1 : i \in 1 .. m \/ i = m + 1
  OBVIOUS
<1>2. \A i \in 1 .. m : i \in 1 .. m + 1 /\ i # m + 1
  OBVIOUS
<1>3. m + 1 \in 1 .. m + 1
  OBVIOUS
<1>4. CASE operands = <<>> /\ \A i \in 1 .. m : ~IsOperand(c, w, i)
  <2>1. Append(operands, w[m + 1]) = <<w[m + 1]>>
    BY <1>4
  <2>. QED BY <1>1, <1>3, <1>4, <2>1 DEF Collected
<1>5. CASE \E i \in 1 .. m : /\ IsOperand(c, w, i) /\ operands = <<w[i]>>
                             /\ \A j \in 1 .. m : IsOperand(c, w, j) => j = i
  <2>1. PICK i \in 1 .. m : IsOperand(c, w, i) /\ operands = <<w[i]>>
    BY <1>5
  <2>2. Len(Append(operands, w[m + 1])) > 1
    BY <2>1
  <2>3. i \in 1 .. m + 1 /\ i # m + 1
    BY <1>2, <2>1
  <2>. QED BY <1>3, <2>1, <2>2, <2>3 DEF Collected
<1>6. CASE /\ Len(operands) > 1
           /\ \E i, j \in 1 .. m : i # j /\ IsOperand(c, w, i) /\ IsOperand(c, w, j)
  <2>1. Len(Append(operands, w[m + 1])) > 1
    BY <1>6
  <2>. QED BY <1>2, <1>6, <2>1 DEF Collected
<1>. QED BY <1>4, <1>5, <1>6 DEF Collected

\* When all words are read, the loop has what the grammar gives.
LEMMA AllGiven ==
  ASSUME NEW c, NEW w \in Seq(Words), NEW option, NEW value,
         LastGiven(c, w, Len(w), option, value)
  PROVE  value = Given(c, w, option)
<1> DEFINE places == OptionPlaces(c, w, option)
<1>1. DOMAIN w = 1 .. Len(w) /\ Len(w) \in Nat
  OBVIOUS
<1>2. \A i : i \in places <=> i \in 1 .. Len(w) /\ Option(c, w, i, option)
  BY <1>1 DEF OptionPlaces, Option
<1>3. Given(c, w, option) = IF places = {} THEN NONE
                            ELSE w[1 + CHOOSE i \in places : \A j \in places : j <= i]
  BY DEF Given
<1> HIDE DEF places
<1>4. CASE value = NONE /\ \A i \in 1 .. Len(w) : ~Option(c, w, i, option)
  BY <1>2, <1>3, <1>4
<1>5. CASE \E i \in 1 .. Len(w) : /\ Option(c, w, i, option) /\ value = w[i + 1]
                                  /\ \A j \in 1 .. Len(w) : Option(c, w, j, option) => j <= i
  <2>1. PICK i \in places : value = w[i + 1] /\ \A j \in places : j <= i
    BY <1>2, <1>5
  <2>2. places \subseteq Nat
    BY <1>2
  <2>3. \A k \in places : (\A j \in places : j <= k) => k = i
    BY <2>1, <2>2
  <2>4. (CHOOSE k \in places : \A j \in places : j <= k) = i
    BY <2>1, <2>3
  <2>5. i + 1 = 1 + i
    BY <2>2
  <2>. QED BY <1>3, <2>1, <2>4, <2>5
<1>. QED BY <1>4, <1>5 DEF LastGiven

LEMMA AllCollected ==
  ASSUME NEW c, NEW w \in Seq(Words), NEW operands \in Seq(Words),
         Collected(c, w, Len(w), operands), InPlace(c, w, Len(w)), Roles(c, w)[Len(w)] # "option"
  PROVE  /\ Len(operands) = (IF c = "init" THEN 0 ELSE 1) <=> WellFormed(c, w)
         /\ Len(operands) = 1 => \E i \in OperandPlaces(c, w) : operands = <<w[i]>>
<1>1. DOMAIN w = 1 .. Len(w)
  OBVIOUS
<1>2. \A i : i \in OperandPlaces(c, w) <=> i \in 1 .. Len(w) /\ IsOperand(c, w, i)
  BY <1>1 DEF OperandPlaces, IsOperand
<1>3. WellFormed(c, w) <=> IF c = "init" THEN OperandPlaces(c, w) = {}
                           ELSE \E i \in OperandPlaces(c, w) : OperandPlaces(c, w) = {i}
  BY <1>1 DEF WellFormed, InPlace
<1>4. CASE operands = <<>> /\ \A i \in 1 .. Len(w) : ~IsOperand(c, w, i)
  <2>1. Len(operands) = 0 /\ OperandPlaces(c, w) = {}
    BY <1>2, <1>4
  <2>. QED BY <1>3, <2>1
<1>5. CASE \E i \in 1 .. Len(w) : /\ IsOperand(c, w, i) /\ operands = <<w[i]>>
                                  /\ \A j \in 1 .. Len(w) : IsOperand(c, w, j) => j = i
  <2>1. PICK i \in OperandPlaces(c, w) : operands = <<w[i]>> /\ OperandPlaces(c, w) = {i}
    BY <1>2, <1>5
  <2>2. Len(operands) = 1
    BY <2>1
  <2>. QED BY <1>3, <2>1, <2>2
<1>6. CASE /\ Len(operands) > 1
           /\ \E i, j \in 1 .. Len(w) : i # j /\ IsOperand(c, w, i) /\ IsOperand(c, w, j)
  <2>1. PICK i \in OperandPlaces(c, w), j \in OperandPlaces(c, w) : i # j
    BY <1>2, <1>6
  <2>2. OperandPlaces(c, w) # {} /\ \A k : OperandPlaces(c, w) # {k}
    BY <2>1
  <2>3. Len(operands) # 0 /\ Len(operands) # 1
    <3> DEFINE k == Len(operands)
    <3>1. k \in Nat /\ k > 1
      BY <1>6
    <3> HIDE DEF k
    <3>2. k # 0 /\ k # 1
      BY <3>1
    <3>. QED BY <3>2 DEF k
  <2>. QED BY <1>3, <2>2, <2>3
<1>. QED BY <1>4, <1>5, <1>6 DEF Collected

(***************************************************************************)
(* Why the loop follows the grammar: at every round the words behind it    *)
(* are well formed so far, and it never stands on the value of an option.  *)
(***************************************************************************)
Parsing == {"init", "trust", "seal", "open"}

ReadSoFar(m) ==
  /\ Roles(command, rest)[m] # "option" /\ InPlace(command, rest, m)
  /\ LastGiven(command, rest, m, "--unlock-key", unlock)
  /\ LastGiven(command, rest, m, "--name", alias)
  /\ LastGiven(command, rest, m, "--output", output)
  /\ Collected(command, rest, m, positionals)

NothingRead == positionals = <<>> /\ unlock = NONE /\ alias = NONE /\ output = NONE

GrammarInv ==
  /\ step = "start" => index = 1 /\ NothingRead
  /\ step = "filter" => NothingRead /\ command = "open"
  /\ step \in {"parse", "resolve"} => command \in Parsing /\ rest \in Seq(Words)
  /\ step = "parse" => /\ index \in 1 .. Len(rest) + 1
                       /\ positionals \in Seq(Words) /\ ReadSoFar(index - 1)
  /\ FollowsGrammar

\* Before the first word nothing is found.
LEMMA NothingYet ==
  ASSUME NEW c, NEW w
  PROVE  /\ Roles(c, w)[0] # "option" /\ InPlace(c, w, 0) /\ Collected(c, w, 0, <<>>)
         /\ \A option : LastGiven(c, w, 0, option, NONE)
<1>1. 0 \in Nat /\ 1 .. 0 = {}
  OBVIOUS
<1>2. Roles(c, w)[0] = "command"
  BY <1>1, RolesRule DEF RoleAt
<1>. QED BY <1>1, <1>2 DEF InPlace, LastGiven, Collected

LEMMA InitGrammar == LineInit => GrammarInv
  BY DEF LineInit, GrammarInv, NothingRead, FollowsGrammar

\* One round.
LEMMA ParseGrammar ==
  ASSUME GrammarInv, ParseNext
  PROVE  GrammarInv'
<1> DEFINE R == Roles(command, rest)
<1>1. /\ step = "parse" /\ UNCHANGED <<command, args, env, rest>> /\ index <= Len(rest)
      /\ command \in Parsing /\ rest \in Seq(Words) /\ index \in 1 .. Len(rest) + 1
      /\ positionals \in Seq(Words) /\ ReadSoFar(index - 1)
  BY DEF GrammarInv, ParseNext
<1>2. /\ index \in Nat /\ index \in 1 .. Len(rest) /\ index - 1 \in Nat /\ (index - 1) + 1 = index
      /\ (index + 1) - 1 = index /\ Len(rest) \in Nat
  BY <1>1
<1>3. rest[index] \in Words
  BY <1>1, <1>2
<1>4. R[index] = IF Takes(command, rest[index]) THEN "option"
                 ELSE IF Dashed(rest[index]) THEN "out of place" ELSE "operand"
  <2>1. R[index - 1] # "option" /\ index # 0
    BY <1>1, <1>2 DEF ReadSoFar
  <2>. QED BY <1>2, <2>1, RolesRule DEF RoleAt
<1>5. R[index] = "option" => R[index + 1] = "value"
  <2>1. index + 1 \in Nat /\ index + 1 # 0 /\ (index + 1) - 1 = index
    BY <1>2
  <2>. QED BY <2>1, RolesRule DEF RoleAt
<1>6. DOMAIN rest = 1 .. Len(rest)
  BY <1>1
<1> HIDE DEF R
<1>7. ASSUME ~WellFormed(command, rest), step' = "usage" PROVE GrammarInv'
  <2>1. FollowsGrammar'
    BY <1>1, <1>7 DEF FollowsGrammar, Parsing
  <2>. QED BY <1>7, <2>1 DEF GrammarInv
<1>8. ASSUME step' = "parse", index' \in 1 .. Len(rest) + 1, positionals' \in Seq(Words), ReadSoFar(index - 1)'
      PROVE  GrammarInv'
  <2>1. FollowsGrammar'
    BY <1>8 DEF FollowsGrammar
  <2>. QED BY <1>1, <1>8, <2>1 DEF GrammarInv
\* An option and its value.
<1>9. CASE Takes(command, rest[index]) /\ Value(index)
  <2>1. /\ UNCHANGED <<step, positionals>> /\ index' = index + 2
        /\ unlock' = Set(unlock, "--unlock-key", rest[index], rest[index + 1])
        /\ alias' = Set(alias, "--name", rest[index], rest[index + 1])
        /\ output' = Set(output, "--output", rest[index], rest[index + 1])
    BY <1>9 DEF ParseNext, Width
  <2>2. /\ index' \in 1 .. Len(rest) + 1 /\ index' - 1 = index + 1 /\ (index - 1) + 2 = index + 1
        /\ index + 1 \in 1 .. Len(rest)
    BY <1>2, <1>9, <2>1 DEF Value
  <2>3. R[index] = "option" /\ R[index + 1] = "value"
    BY <1>4, <1>5, <1>9
  <2>4. InPlace(command, rest, index + 1)
    <3>1. \A i \in 1 .. index + 1 : i \in 1 .. index - 1 \/ i = index \/ i = index + 1
      BY <1>2
    <3>2. rest[index] = "--name" => rest[index + 1] \notin Raw
      BY <1>9 DEF Value
    <3>3. InPlace(command, rest, index - 1)
      BY <1>1 DEF ReadSoFar
    <3>. QED BY <1>2, <2>3, <3>1, <3>2, <3>3 DEF InPlace, R
  <2>5. ASSUME NEW option, NEW value, LastGiven(command, rest, index - 1, option, value)
        PROVE  LastGiven(command, rest, index + 1, option, Set(value, option, rest[index], rest[index + 1]))
    <3>1. ~Option(command, rest, index + 1, option)
      BY <2>3 DEF Option, R
    <3>2. CASE rest[index] = option
      <4>1. Option(command, rest, index, option)
        BY <2>3, <3>2 DEF Option, R
      <4>2. LastGiven(command, rest, index, option, rest[index + 1])
        BY <1>2, <2>2, <2>5, <4>1, OptionMore
      <4>3. LastGiven(command, rest, index + 1, option, rest[index + 1])
        BY <1>2, <3>1, <4>2, NoOptionMore
      <4>. QED BY <3>2, <4>3 DEF Set
    <3>3. CASE rest[index] # option
      <4>1. ~Option(command, rest, index, option)
        BY <3>3 DEF Option
      <4>2. LastGiven(command, rest, index, option, value)
        BY <1>2, <2>5, <4>1, NoOptionMore
      <4>3. LastGiven(command, rest, index + 1, option, value)
        BY <1>2, <3>1, <4>2, NoOptionMore
      <4>. QED BY <3>3, <4>3 DEF Set
    <3>. QED BY <3>2, <3>3
  <2>6. Collected(command, rest, index + 1, positionals)
    <3>1. ~IsOperand(command, rest, index) /\ ~IsOperand(command, rest, index + 1)
      BY <2>3 DEF IsOperand, R
    <3>2. Collected(command, rest, index, positionals)
      BY <1>1, <1>2, <3>1, NoOperandMore DEF ReadSoFar
    <3>. QED BY <1>2, <3>1, <3>2, NoOperandMore
  <2>7. /\ LastGiven(command, rest, index + 1, "--unlock-key", unlock')
        /\ LastGiven(command, rest, index + 1, "--name", alias')
        /\ LastGiven(command, rest, index + 1, "--output", output')
    BY <1>1, <2>1, <2>5 DEF ReadSoFar
  <2>8. ReadSoFar(index - 1)'
    BY <1>1, <2>1, <2>2, <2>3, <2>4, <2>6, <2>7 DEF ReadSoFar, R
  <2>. QED BY <1>1, <1>8, <2>1, <2>2, <2>8
\* An option without a value.
<1>10. CASE Takes(command, rest[index]) /\ ~Value(index)
  <2>1. step' = "usage"
    BY <1>10 DEF ParseNext, Refuse
  <2>2. R[index] = "option" /\ R[index + 1] = "value"
    BY <1>4, <1>5, <1>10
  <2>3. CASE ~(index < Len(rest))
    <3>1. index = Len(rest)
      BY <1>2, <2>3
    <3>. QED BY <1>7, <2>1, <2>2, <3>1 DEF WellFormed, R
  <2>4. CASE index < Len(rest) /\ rest[index] = "--name" /\ rest[index + 1] \in Raw
    <3>1. index + 1 \in DOMAIN rest /\ (index + 1) - 1 = index
      BY <1>2, <1>6, <2>4
    <3>. QED BY <1>7, <2>1, <2>2, <2>4, <3>1 DEF WellFormed, R
  <2>. QED BY <1>10, <2>3, <2>4 DEF Value
\* A word out of place.
<1>11. CASE ~Takes(command, rest[index]) /\ Dashed(rest[index])
  <2>1. step' = "usage"
    BY <1>11 DEF ParseNext, Refuse
  <2>2. R[index] = "out of place" /\ index \in DOMAIN rest
    BY <1>2, <1>4, <1>6, <1>11
  <2>. QED BY <1>7, <2>1, <2>2 DEF WellFormed, R
\* An operand.
<1>12. CASE ~Takes(command, rest[index]) /\ ~Dashed(rest[index])
  <2>1. /\ UNCHANGED <<step, unlock, alias, output>> /\ index' = index + 1
        /\ positionals' = Append(positionals, rest[index])
    BY <1>12 DEF ParseNext, Width
  <2>2. index' \in 1 .. Len(rest) + 1 /\ index' - 1 = index /\ positionals' \in Seq(Words)
    BY <1>1, <1>2, <1>3, <2>1
  <2>3. R[index] = "operand"
    BY <1>4, <1>12
  <2>4. InPlace(command, rest, index)
    <3>1. \A i \in 1 .. index : i \in 1 .. index - 1 \/ i = index
      BY <1>2
    <3>2. InPlace(command, rest, index - 1)
      BY <1>1 DEF ReadSoFar
    <3>. QED BY <2>3, <3>1, <3>2 DEF InPlace, R
  <2>5. ASSUME NEW option, NEW value, LastGiven(command, rest, index - 1, option, value)
        PROVE  LastGiven(command, rest, index, option, value)
    <3>1. ~Option(command, rest, index, option)
      BY <2>3 DEF Option, R
    <3>. QED BY <1>2, <2>5, <3>1, NoOptionMore
  <2>6. Collected(command, rest, index, Append(positionals, rest[index]))
    <3>1. IsOperand(command, rest, index)
      BY <2>3 DEF IsOperand, R
    <3>2. Collected(command, rest, index - 1, positionals)
      BY <1>1 DEF ReadSoFar
    <3> DEFINE m == index - 1
    <3>3. m \in Nat /\ m + 1 = index /\ Collected(command, rest, m, positionals)
      BY <1>2, <3>2
    <3> HIDE DEF m
    <3>4. Collected(command, rest, m + 1, Append(positionals, rest[m + 1]))
      BY <1>1, <1>3, <3>1, <3>3, OperandMore
    <3>. QED BY <3>3, <3>4
  <2>7. /\ LastGiven(command, rest, index, "--unlock-key", unlock)
        /\ LastGiven(command, rest, index, "--name", alias)
        /\ LastGiven(command, rest, index, "--output", output)
    BY <1>1, <2>5 DEF ReadSoFar
  <2>8. ReadSoFar(index - 1)'
    BY <1>1, <2>1, <2>2, <2>3, <2>4, <2>6, <2>7 DEF ReadSoFar, R
  <2>. QED BY <1>1, <1>8, <2>1, <2>2, <2>8
<1>. QED BY <1>9, <1>10, <1>11, <1>12

\* The other steps.
LEMMA NextGrammar == LineInv /\ GrammarInv /\ [LineNext]_lineVars => GrammarInv'
<1> SUFFICES ASSUME LineInv, GrammarInv, [LineNext]_lineVars PROVE GrammarInv'
  OBVIOUS
<1>1. CASE UNCHANGED lineVars
  BY <1>1 DEF lineVars, result, GrammarInv, NothingRead, ReadSoFar, FollowsGrammar
<1>2. ASSUME step' = "parse", index' = 1, NothingRead', rest' \in Seq(Words), command' \in Parsing
      PROVE  GrammarInv'
  <2>1. ReadSoFar(0)'
    BY <1>2, NothingYet DEF ReadSoFar, NothingRead
  <2>2. 1 - 1 = 0 /\ 1 \in 1 .. Len(rest') + 1 /\ <<>> \in Seq(Words)
    BY <1>2
  <2>3. ReadSoFar(index - 1)'
    BY <1>2, <2>1, <2>2 DEF ReadSoFar
  <2>4. FollowsGrammar'
    BY <1>2 DEF FollowsGrammar
  <2>. QED BY <1>2, <2>2, <2>3, <2>4 DEF GrammarInv, NothingRead
<1>3. ASSUME NEW c, NEW words \in Seq(Words), NEW e, Run(c, words, e) PROVE GrammarInv'
  <2>1. /\ UNCHANGED <<index, positionals, unlock, alias, output>> /\ index = 1 /\ NothingRead
        /\ command' = c /\ rest' = IF c = "open" THEN <<>> ELSE words
    BY <1>3 DEF Run, result, GrammarInv
  <2>2. NothingRead'
    BY <2>1 DEF NothingRead
  <2>3. \/ step' = "parse" /\ c \in {"init", "trust", "seal"}
        \/ step' = "filter" /\ c = "open"
        \/ step' \in {"run", "usage"} /\ c = "identity"
        \/ step' \in {"help", "usage"} /\ c \notin Parsing \cup {"identity"}
    BY <1>3 DEF Run, Parsing
  <2>4. CASE step' = "parse" /\ c \in {"init", "trust", "seal"}
    BY <1>2, <2>1, <2>2, <2>4 DEF Parsing
  <2>5. CASE step' # "parse"
    <3>1. FollowsGrammar'
      BY <2>1, <2>3, <2>5 DEF FollowsGrammar, Parsing
    <3>. QED BY <2>1, <2>2, <2>3, <2>5, <3>1 DEF GrammarInv
  <2>. QED BY <2>3, <2>4, <2>5
<1>4. CASE Filter
  <2>1. /\ step = "filter" /\ UNCHANGED <<command, args, positionals, unlock, alias, output>>
        /\ command = "open" /\ NothingRead /\ args \in Seq(Words) /\ index \in 1 .. Len(args) + 1
        /\ keep \in BOOLEAN /\ keep <=> \E i \in 1 .. index - 1 : args[i] = "--keep"
        /\ Clean(rest)
    BY <1>4 DEF Filter, GrammarInv, LineInv
  <2>2. NothingRead'
    BY <2>1 DEF NothingRead
  <2>3. CASE index > Len(args)
    <3>1. step' = "parse" /\ index' = 1 /\ UNCHANGED rest
      BY <1>4, <2>3 DEF Filter
    <3>. QED BY <1>2, <2>1, <2>2, <3>1 DEF Clean, Parsing
  <2>4. CASE ~(index > Len(args)) /\ args[index] = "--keep" /\ keep
    <3>1. step' = "usage"
      BY <1>4, <2>4 DEF Filter, IsKeep
    <3>2. PICK i \in 1 .. index - 1 : args[i] = "--keep"
      BY <2>1, <2>4
    <3>3. i \in DOMAIN args /\ index \in DOMAIN args /\ i # index
      BY <2>1, <2>4
    <3>4. FollowsGrammar'
      BY <2>1, <2>4, <3>1, <3>2, <3>3 DEF FollowsGrammar
    <3>. QED BY <3>1, <3>4 DEF GrammarInv
  <2>5. CASE ~(index > Len(args)) /\ ~(args[index] = "--keep" /\ keep)
    <3>1. step' = "filter"
      BY <1>4, <2>1, <2>5 DEF Filter, IsKeep
    <3>2. FollowsGrammar'
      BY <3>1 DEF FollowsGrammar
    <3>. QED BY <2>1, <2>2, <3>1, <3>2 DEF GrammarInv
  <2>. QED BY <2>3, <2>4, <2>5
<1>5. CASE Parsed
  <2>1. /\ step = "parse" /\ UNCHANGED <<command, args, rest, positionals, unlock, alias, output>>
        /\ command \in Parsing /\ rest \in Seq(Words) /\ positionals \in Seq(Words)
        /\ index \in 1 .. Len(rest) + 1 /\ index > Len(rest) /\ ReadSoFar(index - 1)
    BY <1>5 DEF Parsed, result, GrammarInv
  <2>2. index - 1 = Len(rest)
    BY <2>1
  <2>3. /\ unlock = Given(command, rest, "--unlock-key") /\ alias = Given(command, rest, "--name")
        /\ output = Given(command, rest, "--output")
    BY <2>1, <2>2, AllGiven DEF ReadSoFar
  <2>4. /\ Len(positionals) = Operands <=> WellFormed(command, rest)
        /\ Len(positionals) = 1 => \E i \in OperandPlaces(command, rest) : positionals = <<rest[i]>>
    BY <2>1, <2>2, AllCollected DEF ReadSoFar, Operands
  <2>5. CASE Len(positionals) = Operands
    <3>1. step' = "resolve"
      BY <1>5, <2>5 DEF Parsed
    <3>2. command # "init" => Len(positionals) = 1
      BY <2>5 DEF Operands
    <3>3. FollowsGrammar'
      BY <2>1, <2>3, <2>4, <2>5, <3>1, <3>2 DEF FollowsGrammar
    <3>. QED BY <2>1, <3>1, <3>3 DEF GrammarInv
  <2>6. CASE Len(positionals) # Operands
    <3>1. step' = "usage"
      BY <1>5, <2>6 DEF Parsed
    <3>2. FollowsGrammar'
      BY <2>1, <2>4, <2>6, <3>1 DEF FollowsGrammar
    <3>. QED BY <3>1, <3>2 DEF GrammarInv
  <2>. QED BY <2>5, <2>6
<1>6. CASE Resolve
  <2>1. /\ step = "resolve" /\ UNCHANGED <<command, args, rest, positionals, output>>
        /\ step' \in {"failed", "run"} /\ command \in Parsing
    BY <1>6 DEF Resolve, GrammarInv
  <2>2. /\ WellFormed(command, rest)
        /\ \/ unlock = Given(command, rest, "--unlock-key")
           \/ Given(command, rest, "--unlock-key") = NONE /\ unlock \in {ENV, TYPED}
        /\ output = Given(command, rest, "--output") /\ alias = Given(command, rest, "--name")
        /\ command # "init" => \E i \in OperandPlaces(command, rest) : positionals = <<rest[i]>>
    BY <2>1 DEF GrammarInv, FollowsGrammar, Parsing
  <2>3. \/ unlock' = Given(command, rest, "--unlock-key")
        \/ Given(command, rest, "--unlock-key") = NONE /\ unlock' \in {ENV, TYPED}
    BY <1>6, <2>2 DEF Resolve
  <2>4. \/ alias' = Given(command, rest, "--name")
        \/ /\ command = "trust" /\ Given(command, rest, "--name") = NONE
           /\ alias' = positionals[1]
    BY <1>6, <2>2 DEF Resolve
  <2>5. FollowsGrammar'
    BY <2>1, <2>2, <2>3, <2>4 DEF FollowsGrammar
  <2>. QED BY <2>1, <2>5 DEF GrammarInv
<1>. QED BY <1>1, <1>3, <1>4, <1>5, <1>6, ParseGrammar DEF LineNext, LineStep

\* A command line of any length is accepted if and only if it is well formed,
\* with the values and the operand that its grammar gives.
THEOREM GrammarIsFollowed == LineSpec => []FollowsGrammar
<1>1. GrammarInv => FollowsGrammar
  BY DEF GrammarInv
<1>. QED BY <1>1, InitLineInv, NextLineInv, InitGrammar, NextGrammar, PTL DEF LineSpec

-----------------------------------------------------------------------------
(***************************************************************************)
(* The whole program is the menu, whose steps are a command's stuttering,  *)
(* or a command, whose steps are the menu's: it implements both of them.   *)
(***************************************************************************)
LEMMA NextCli ==
  ASSUME [CliNext]_<<started, vars, lineVars>>
  PROVE  [Next]_vars /\ [LineNext]_lineVars
<1>1. CASE UNCHANGED <<started, vars, lineVars>>
  BY <1>1
<1>2. CASE Start
  <2>1. UNCHANGED vars
    BY <1>2 DEF Start
  <2>2. CASE UNCHANGED lineVars
    BY <2>1, <2>2
  <2>3. CASE \E line \in CommandLines, e \in BOOLEAN : Run(line[1], line[2], e)
    <3>1. PICK line \in CommandLines, e \in BOOLEAN : Run(line[1], line[2], e)
      BY <2>3
    <3>2. line[1] \in Commands \cup {"help", "other"} /\ line[2] \in Seq(Words)
      BY CommandLinesAssumption
    <3>. QED BY <2>1, <3>1, <3>2 DEF LineNext
  <2>. QED BY <1>2, <2>2, <2>3 DEF Start
<1>3. CASE MenuNext
  BY <1>3 DEF MenuNext
<1>4. CASE CommandNext
  BY <1>4 DEF CommandNext, LineNext
<1>. QED BY <1>1, <1>2, <1>3, <1>4 DEF CliNext

\* The program behaves as the menu that it may become.
THEOREM CliIsMenu == CliSpec => Spec
<1>1. CliInit => Init
  BY DEF CliInit
<1>. QED BY <1>1, NextCli, PTL DEF CliSpec, Spec

\* It behaves as the command that it may become.
THEOREM CliIsCommand == CliSpec => LineSpec
<1>1. CliInit => LineInit
  BY DEF CliInit
<1>. QED BY <1>1, NextCli, PTL DEF CliSpec, LineSpec

\* Whatever words and keys it is given, the program keeps what the menu and
\* the commands keep on their own.
THEOREM CliIsSafe ==
  CliSpec => [](TypeOK /\ TerminalRestored /\ SelectionFollowsKeys /\ KeepHonoured /\ FollowsGrammar)
BY CliIsMenu, CliIsCommand, TypeCorrect, TerminalIsRestored, SelectionIsFollowed,
   KeepIsHonoured, GrammarIsFollowed, PTL
=============================================================================
