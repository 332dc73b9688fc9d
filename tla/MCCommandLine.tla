--------------------------- MODULE MCCommandLine ---------------------------
(* Instances of the command-line frontend: the option prefixes of main.h  *)
(* and small sets of words a user may type.                                *)
EXTENDS CommandLine

MCShortOption == "-"
MCLongOption == "--"

(* One spelling of every option, both spellings of -d (option_is_present   *)
(* sees only "-d"), a value and an unknown option.                         *)
MCWords == {"--port", "--camera", "-d", "--debug", "-f", "-q", "--test",
            "-h", "-l", "-p", "-t", "x", "-z"}

(* As a user may also type a lone "-".                                      *)
MCWordsDash == {"-", "-d", "x", "-p"}
====
