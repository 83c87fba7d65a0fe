------------------------------ MODULE Options ------------------------------
(***************************************************************************)
(* The command line (src/src/cli.rs): parse_options, parse_open_options    *)
(* and what each command takes from them before it touches a file.  A word *)
(* is an option the program knows, some other word that starts with a      *)
(* dash, or a path or a name.                                              *)
(***************************************************************************)
EXTENDS Naturals, Sequences

CONSTANTS
  Plain,   \* words without a dash, "export" apart: paths and names
  Raw,     \* words that are not UTF-8, with a dash or without
  Stems,   \* the plain words whose file stem is a contact name
  Unknown  \* words with a dash that are no option

Options == {"--unlock-key", "--name", "--output", "--keep"}
Words   == Plain \cup Raw \cup Unknown \cup Options \cup {"export"}
Commands == {"init", "identity", "trust", "seal", "open"}

NONE  == "none"
ENV   == "from SEALED_UNLOCK_KEY"
TYPED == "from the terminal"

VARIABLES
  step,         \* what the program is about to do with the words
  command,      \* the first word
  args,         \* the words after it
  env,          \* SEALED_UNLOCK_KEY is set
  rest,         \* parse_open_options: filtered
  index,        \* the word to look at
  positionals, unlock, alias, output, keep

result   == <<positionals, unlock, alias, output, keep>>
lineVars == <<step, command, args, env, rest, index, result>>

-----------------------------------------------------------------------------
LineInit ==
  /\ step = "start" /\ command = NONE /\ args = <<>> /\ env = FALSE
  /\ rest = <<>> /\ index = 1
  /\ positionals = <<>> /\ unlock = NONE /\ alias = NONE /\ output = NONE /\ keep = FALSE

\* run: the command is chosen before any other word is looked at.
Run(c, words, e) ==
  /\ step = "start"
  /\ command' = c /\ args' = words /\ env' = e
  /\ step' = CASE c \in {"init", "trust", "seal"} -> "parse"
               [] c = "open"     -> "filter"
               [] c = "identity" -> IF words = <<"export">> THEN "run" ELSE "usage"
               [] c = "help"     -> "help"
               [] OTHER          -> "usage"
  /\ rest' = IF c = "open" THEN <<>> ELSE words
  /\ UNCHANGED <<index, result>>

\* A slip of IsKeep: a --keep at the end is looked for only.
IsKeepLast(i) == args[i] = "--keep" /\ i = Len(args)

IsKeep(i) == args[i] = "--keep"

\* parse_open_options takes --keep out, wherever it is.
Filter ==
  /\ step = "filter"
  /\ IF index > Len(args)
       THEN step' = "parse" /\ index' = 1 /\ UNCHANGED <<rest, keep>>
       ELSE IF IsKeep(index)
         THEN /\ step' = IF keep THEN "usage" ELSE "filter"
              /\ keep' = TRUE /\ index' = index + 1 /\ UNCHANGED rest
         ELSE /\ rest' = Append(rest, args[index])
              /\ index' = index + 1 /\ UNCHANGED <<step, keep>>
  /\ UNCHANGED <<command, args, env, positionals, unlock, alias, output>>

\* allow_name and allow_output.
Takes(c, word) ==
  \/ word = "--unlock-key"
  \/ word = "--name" /\ c = "trust"
  \/ word = "--output" /\ c = "seal"

Dashed(word) == word \in Options \cup Unknown

Refuse == step' = "usage" /\ UNCHANGED <<index, result>>

\* A slip of Value: the next word is not a value if it looks like an option.
ValueUnlessDashed(i) == i < Len(rest) /\ ~Dashed(rest[i + 1])

\* There is a value for the option at i: the next word, whatever it is, but a
\* name must be UTF-8.
Value(i) == i < Len(rest) /\ (rest[i] = "--name" => rest[i + 1] \notin Raw)

Set(old, option, word, value) == IF word = option THEN value ELSE old

Width(word) == IF Takes(command, word) THEN 2 ELSE 1

\* One round of the loop in parse_options.
ParseNext ==
  /\ step = "parse" /\ index <= Len(rest)
  /\ LET word == rest[index]
     IN  \/ /\ Takes(command, word) /\ Value(index)
            /\ unlock' = Set(unlock, "--unlock-key", word, rest[index + 1])
            /\ alias'  = Set(alias, "--name", word, rest[index + 1])
            /\ output' = Set(output, "--output", word, rest[index + 1])
            /\ index' = index + Width(word)
            /\ UNCHANGED <<step, positionals, keep>>
         \/ Takes(command, word) /\ ~Value(index) /\ Refuse
         \/ ~Takes(command, word) /\ Dashed(word) /\ Refuse
         \/ /\ ~Takes(command, word) /\ ~Dashed(word)
            /\ positionals' = Append(positionals, word)
            /\ index' = index + Width(word)
            /\ UNCHANGED <<step, unlock, alias, output, keep>>
  /\ UNCHANGED <<command, args, env, rest>>

Operands == IF command = "init" THEN 0 ELSE 1

\* All words are looked at: how many of them are operands?
Parsed ==
  /\ step = "parse" /\ index > Len(rest)
  /\ step' = IF Len(positionals) = Operands THEN "resolve" ELSE "usage"
  /\ UNCHANGED <<command, args, env, rest, index, result>>

\* A contact to be looked up is named by text.
NotText == command = "seal" /\ positionals[1] \in Raw

\* command_trust finds a name for the contact, the other commands find their
\* unlock key (resolve_unlock_path).
Resolve ==
  /\ step = "resolve"
  /\ IF command = "trust"
       THEN LET source == positionals[1]
            IN  /\ alias' = IF alias # NONE THEN alias ELSE source
                /\ step' = IF alias = NONE /\ source \notin Stems THEN "failed" ELSE "run"
                /\ UNCHANGED unlock
       ELSE /\ \/ NotText /\ UNCHANGED unlock /\ step' = "failed"
               \/ ~NotText /\ unlock # NONE /\ UNCHANGED unlock /\ step' = "run"
               \/ ~NotText /\ unlock = NONE /\ env /\ unlock' = ENV /\ step' = "run"
               \/ ~NotText /\ unlock = NONE /\ ~env /\ unlock' = TYPED /\ step' = "run"
               \/ ~NotText /\ unlock = NONE /\ ~env /\ UNCHANGED unlock /\ step' = "failed"
            /\ UNCHANGED alias
  /\ UNCHANGED <<command, args, env, rest, index, positionals, output, keep>>

LineStep == Filter \/ ParseNext \/ Parsed \/ Resolve

LineNext ==
  \/ \E c \in Commands \cup {"help", "other"}, words \in Seq(Words), e \in BOOLEAN : Run(c, words, e)
  \/ LineStep

LineSpec == LineInit /\ [][LineNext]_lineVars

-----------------------------------------------------------------------------
(***************************************************************************)
(* Properties.                                                             *)
(***************************************************************************)

\* A letter that was to be kept is kept: --keep counts wherever it stands among
\* the words of `open`, also between an option and its value, and is never
\* taken for a value or an operand (cli.rs:816-836).
KeepHonoured ==
  step = "run" /\ command = "open" =>
    /\ keep <=> \E i \in DOMAIN args : args[i] = "--keep"
    /\ unlock # "--keep" /\ positionals[1] # "--keep"

\* The reading of a command line that its grammar gives: what follows an
\* option is its value, the other words are operands or out of place.
Roles(c, words) ==
  LET role[i \in Nat] ==
        IF i = 0 THEN "command"
        ELSE IF role[i - 1] = "option" THEN "value"
        ELSE IF Takes(c, words[i]) THEN "option"
        ELSE IF Dashed(words[i]) THEN "out of place"
        ELSE "operand"
  IN  role

OperandPlaces(c, words) == {i \in DOMAIN words : Roles(c, words)[i] = "operand"}

OptionPlaces(c, words, option) ==
  {i \in DOMAIN words : Roles(c, words)[i] = "option" /\ words[i] = option}

\* The value of the last of an option's places, NONE if it has none.
Given(c, words, option) ==
  LET places == OptionPlaces(c, words, option)
  IN  IF places = {} THEN NONE
      ELSE words[1 + CHOOSE i \in places : \A j \in places : j <= i]

WellFormed(c, words) ==
  /\ \A i \in DOMAIN words :
       /\ Roles(c, words)[i] # "out of place"
       /\ Roles(c, words)[i] = "value" /\ words[i - 1] = "--name" => words[i] \notin Raw
  /\ Roles(c, words)[Len(words)] # "option"
  /\ IF c = "init" THEN OperandPlaces(c, words) = {}
                   ELSE \E i \in OperandPlaces(c, words) : OperandPlaces(c, words) = {i}

\* The loop reads every command line as the grammar does: it is accepted if
\* and only if it is well formed, each option has the value that follows its
\* last place, and the operand is the one word that is neither (cli.rs:766-814).
FollowsGrammar ==
  /\ step \in {"resolve", "run", "failed"} /\ command # "identity" =>
       /\ WellFormed(command, rest)
       /\ \/ unlock = Given(command, rest, "--unlock-key")
          \/ Given(command, rest, "--unlock-key") = NONE /\ unlock \in {ENV, TYPED}
       /\ output = Given(command, rest, "--output")
       /\ \/ alias = Given(command, rest, "--name")
          \/ /\ command = "trust" /\ step # "resolve"
             /\ Given(command, rest, "--name") = NONE /\ alias = positionals[1]
       /\ command # "init" => \E i \in OperandPlaces(command, rest) : positionals = <<rest[i]>>
  /\ step = "usage" /\ command \in {"init", "trust", "seal"} => ~WellFormed(command, rest)
  /\ step = "usage" /\ command = "open" =>
       \/ \E i, j \in DOMAIN args : i # j /\ args[i] = "--keep" /\ args[j] = "--keep"
       \/ ~WellFormed(command, rest)
=============================================================================
