------------------------------- MODULE Config -------------------------------
(***************************************************************************)
(* How the client puts its configuration together (config.py): built-in    *)
(* defaults, the values of a file and the options of the command line.     *)
(*                                                                         *)
(* A value is known by where it comes from.  "listed" is the string that   *)
(* str() makes of the one-element list argparse delivers for nargs=1.      *)
(***************************************************************************)
CONSTANTS
    Strings,     \* keys whose value goes through str()
    Numbers,     \* ... through int()
    Encoded,     \* ... is encoded: the password
    Required     \* server_address and port, whose defaults are refused

VARIABLES
    file,       \* each key in the file: "absent", "empty" (the string "")
                \* or "given"; all absent when the file does not load
    shell,      \* the keys given on the command line
    status,     \* "start", "loaded" or "raised"
    config      \* full_config: where each value comes from

vars == <<file, shell, status, config>>

Keys == Strings \cup Numbers \cup Encoded \cup {"fast_open"}

Init ==
    /\ file \in [Keys -> {"absent", "empty", "given"}]
    /\ shell \in SUBSET Keys
    /\ status = "start"
    /\ config = <<>>

-----------------------------------------------------------------------------
(* get_config.  delete_empty drops the file's empty values; an option that *)
(* is given replaces the file's.  But for fast_open the key "fastopen" is  *)
(* read back, which neither sets.                                          *)
Source(k) ==
    IF k \in shell \ {"fast_open"} THEN "shell"
    ELSE IF k # "fast_open" /\ file[k] = "given" THEN "file"
    ELSE "default"

(* int() and encode() of a list raise; so does a missing server.           *)
Raises ==
    \/ \E k \in Numbers \cup Encoded : Source(k) = "shell"
    \/ \E k \in Required : Source(k) = "default"

GetConfig ==
    /\ status = "start"
    /\ \/ /\ Raises
          /\ status' = "raised"
          /\ UNCHANGED config
       \/ /\ ~Raises
          /\ status' = "loaded"
          /\ config' = [k \in Keys |-> IF k \in Strings /\ Source(k) = "shell"
                                       THEN "listed" ELSE Source(k)]
    /\ UNCHANGED <<file, shell>>

Next == GetConfig

Spec == Init /\ [][Next]_vars

-----------------------------------------------------------------------------
(* What the command line says is what the program uses: with a server      *)
(* named there or in the file it loads, and with the values given there    *)
(* (config.py 77, "client support shell input and load config mode both",  *)
(* and 102, "rewrite config where get new value from shell input").        *)
ShellInput ==
    status # "start" /\ (\A k \in Required : k \in shell \/ file[k] = "given")
        => /\ status = "loaded"
           /\ \A k \in shell : config[k] = "shell"
=============================================================================
