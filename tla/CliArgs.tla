------------------------------ MODULE CliArgs ------------------------------
(***************************************************************************)
(* The command line (cmd/common.go and the Run functions of cmd): the      *)
(* arguments are reordered, parsed by Go's flag package, which is external *)
(* and stops at the first positional, and the configuration is read from a *)
(* file or from a variable.                                                *)
(*                                                                         *)
(* A token is a word, a flag (it starts with a dash, whatever it means) or *)
(* an assigned flag (a flag with an "=").  The bare "-" and "--" are left  *)
(* out.  An invocation is what the user means: a command, a query if there *)
(* is one, and flags with their values; args is a way to write it.         *)
(***************************************************************************)
EXTENDS Naturals, Sequences, SequencesExt

CONSTANTS Invocations,
          Dashed,   \* the words that start with a dash: queries that start with a comment
          Sources   \* the readable files and the variables that are not empty

Commands == {"query", "auth", "mcp", "semantic-context"}

\* Only query takes a query.  A value that starts with a dash is written behind an
\* "=", as reorderArgs takes a dash for a flag's.
ASSUME InvocationsAssumption ==
  \A inv \in Invocations :
    /\ inv \in [command : Commands, sql : STRING,
                flags : Seq([name : STRING, value : STRING, assigned : BOOLEAN])]
    /\ inv.sql # "" => inv.command = "query"
    /\ \A i \in DOMAIN inv.flags : inv.flags[i].assigned \/ inv.flags[i].value \notin Dashed

VARIABLES given,       \* input: the invocation
          rest,        \* the tokens that have not been looked at
          flags, positional,  \* what reorderArgs has sorted
          values,      \* of each flag: the values it has been given
          pc

vars == <<given, rest, flags, positional, values, pc>>

Word(text) == [kind |-> IF text \in Dashed THEN "flag" ELSE "word", name |-> text, value |-> ""]
Flag(name) == [kind |-> "flag", name |-> name, value |-> ""]
Assigned(name, value) == [kind |-> "assigned", name |-> name, value |-> value]

\* The ways to write an invocation: the query before, between or behind the flags.
FlagTokens(f) == IF f.assigned THEN <<Assigned(f.name, f.value)>>
                               ELSE <<Flag(f.name), Word(f.value)>>
Written(inv, n) == FlattenSeq([i \in 1..n |-> FlagTokens(inv.flags[i])])
                     \o (IF inv.sql = "" THEN <<>> ELSE <<Word(inv.sql)>>)
                     \o FlattenSeq([i \in 1..Len(inv.flags) - n |-> FlagTokens(inv.flags[n + i])])

\* The flags each command defines.
FlagsOf(command) ==
  {"config", "config-env-var"}
    \cup (IF command = "mcp" THEN {"transport", "addr"} ELSE {})
    \cup (IF command \in {"mcp", "semantic-context"} THEN {"semantic-context-overlay"} ELSE {})

\* The names of flags are without their dashes.
ASSUME DashedAssumption == /\ "" \notin Dashed
                           /\ \A command \in Commands : Dashed \cap FlagsOf(command) = {}

\* semantic-context does not reorder its arguments.
Init == /\ given \in Invocations
        /\ \E n \in 0..Len(given.flags) : rest = Written(given, n)
        /\ flags = <<>> /\ positional = <<>>
        /\ values = [f \in FlagsOf(given.command) |-> <<>>]
        /\ pc = IF given.command = "semantic-context" THEN "parse" ELSE "reorder"

\* Mutant of TakesNext: an assigned flag takes the next word, too.
TakesNext_Assigned == Head(rest).kind # "word" /\ Len(rest) > 1 /\ rest[2].kind = "word"

\* The token behind a flag is its value, unless one is assigned or it is a flag itself.
TakesNext == Head(rest).kind = "flag" /\ Len(rest) > 1 /\ rest[2].kind = "word"

\* One iteration of reorderArgs.
Reorder ==
  /\ pc = "reorder" /\ rest # <<>>
  /\ LET taken == IF TakesNext THEN 2 ELSE 1
         first == SubSeq(rest, 1, taken)
     IN /\ rest' = SubSeq(rest, taken + 1, Len(rest))
        /\ IF Head(rest).kind = "word"
             THEN positional' = positional \o first /\ UNCHANGED flags
             ELSE flags' = flags \o first /\ UNCHANGED positional
  /\ UNCHANGED <<given, values, pc>>

\* Mutant of Reordered: the positionals first.
Reordered_PositionalsFirst == positional \o flags

Reordered == flags \o positional

EndReorder == /\ pc = "reorder" /\ rest = <<>>
              /\ rest' = Reordered
              /\ pc' = "parse"
              /\ UNCHANGED <<given, flags, positional, values>>

Exit == pc' = "exit" /\ UNCHANGED <<given, rest, flags, positional, values>>

\* FlagSet.Parse: a flag takes the next token if no value is assigned.
ParseFlag ==
  /\ pc = "parse" /\ rest # <<>> /\ Head(rest).kind # "word"
  /\ LET flag  == Head(rest)
         taken == IF flag.kind = "assigned" THEN 1 ELSE 2
         value == IF flag.kind = "assigned" THEN flag.value ELSE rest[2].name
     IN IF flag.name \in DOMAIN values /\ taken <= Len(rest)
          THEN /\ values' = [values EXCEPT ![flag.name] = Append(@, value)]
               /\ rest' = SubSeq(rest, taken + 1, Len(rest))
               /\ UNCHANGED <<given, flags, positional, pc>>
          ELSE Exit

\* What a string flag holds; fs.Arg(0).
Held(name) == IF values[name] = <<>> THEN "" ELSE Last(values[name])
Sql == IF rest = <<>> THEN "" ELSE Head(rest).name

\* Parsing stops at a positional; query needs one.
EndParse ==
  /\ pc = "parse" /\ (rest # <<>> => Head(rest).kind = "word")
  /\ IF given.command = "query" /\ rest = <<>> THEN Exit
     ELSE pc' = "resolve" /\ UNCHANGED <<given, rest, flags, positional, values>>

\* resolveConfigData: one of the two flags, not both, and something to read.
ResolveConfigData ==
  /\ pc = "resolve"
  /\ IF \E f, g \in {"config", "config-env-var"} :
           f # g /\ Held(f) \in Sources /\ Held(g) = ""
       THEN pc' = "run" /\ UNCHANGED <<given, rest, flags, positional, values>>
       ELSE Exit

Next == Reorder \/ EndReorder \/ ParseFlag \/ EndParse \/ ResolveConfigData

Spec == Init /\ [][Next]_vars

-----------------------------------------------------------------------------
(* Properties.                                                             *)

\* What the invocation gives a flag, in order.
Given(name) == FlattenSeq([i \in DOMAIN given.flags |->
                 IF given.flags[i].name = name THEN <<given.flags[i].value>> ELSE <<>>])
LastGiven(name) == IF Given(name) = <<>> THEN "" ELSE Last(Given(name))

\* Sorting loses no token and makes none up, and a flag keeps the word behind it.
TypeOK ==
  /\ given \in Invocations
  /\ pc \in {"reorder", "parse", "resolve", "run", "exit"}
  /\ DOMAIN values = FlagsOf(given.command)
  /\ pc = "reorder" =>
       /\ Len(rest) + Len(flags) + Len(positional) =
            Len(FlattenSeq([i \in DOMAIN given.flags |-> FlagTokens(given.flags[i])]))
              + (IF given.sql = "" THEN 0 ELSE 1)
       /\ \A i \in DOMAIN positional : positional[i].kind = "word"
       /\ \A i \in DOMAIN flags :
            flags[i].kind = "word" => i > 1 /\ flags[i - 1].kind = "flag"

\* The invocations that should run: a query that starts with a comment is taken for
\* an unknown flag.
Valid == /\ (given.command = "query") = (given.sql # "") /\ given.sql \notin Dashed
         /\ \A i \in DOMAIN given.flags : given.flags[i].name \in FlagsOf(given.command)
         /\ \E f, g \in {"config", "config-env-var"} :
              f # g /\ LastGiven(f) \in Sources /\ LastGiven(g) = ""

\* Wherever the query and the flags are written, the command runs with exactly what
\* was meant, and it exits exactly if what was meant cannot be run.
ReadAsWritten ==
  /\ pc = "run" => /\ Valid /\ Sql = given.sql
                   /\ \A f \in DOMAIN values : values[f] = Given(f)
  /\ pc = "exit" => ~Valid
=============================================================================
