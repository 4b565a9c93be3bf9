----------------------------- MODULE MCCliArgs -----------------------------
(***************************************************************************)
(* Every command with up to three flags, known or not, readable or not,    *)
(* repeated or not, written with or without "=", and the query anywhere.   *)
(***************************************************************************)
EXTENDS CliArgs

Options == [name : {"config", "config-env-var"}, value : {"good", "none"}, assigned : BOOLEAN]
           \cup [name : {"semantic-context-overlay"}, value : {"o1", "o2"}, assigned : {FALSE}]
           \cup [name : {"transport"}, value : {"http"}, assigned : {FALSE}]
           \cup [name : {"addr"}, value : {":8080"}, assigned : {TRUE}]
           \cup [name : {"unknown"}, value : {"good"}, assigned : {TRUE}]
FlagLists == {<<>>} \cup [1..1 -> Options] \cup [1..2 -> Options] \cup [1..3 -> Options]

MCInvocations == [command : {"query"}, sql : {"", "select", "-- a comment"}, flags : FlagLists]
                 \cup [command : {"auth", "mcp", "semantic-context"}, sql : {""}, flags : FlagLists]
=============================================================================
