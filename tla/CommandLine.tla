---------------------------- MODULE CommandLine ----------------------------
(***************************************************************************)
(* The gphoto2 command-line frontend, src/frontends/command-line/main.c.  *)
(*                                                                         *)
(* main counts the entries of the option table, calls verify_options to    *)
(* check every argument (a known option, followed by a value when the      *)
(* option takes one), turns debugging on when -d is present, then calls    *)
(* execute_options, which runs the callbacks in the order of the TABLE:    *)
(* for each table entry in turn, every argument that spells it.  A        *)
(* callback may end the process (help, test).                              *)
(*                                                                         *)
(* The arguments are strings; sprintf("%s%s"), strcmp and strncmp are      *)
(* string concatenation, equality and a prefix test.  Output (usage, the   *)
(* debug and error messages, the camera list) is left out.                 *)
(***************************************************************************)
EXTENDS Integers, Sequences

CONSTANTS
  SHORT_OPTION,  \* prefix of a short option (main.h)
  LONG_OPTION,   \* prefix of a long option (main.h)
  Words,         \* strings the user may type as an argument
  MaxArgs        \* bound: number of arguments after the program name

NULL == "(NULL)"   \* argv[argc], and the value passed to a flag's callback

ASSUME NULL \notin Words /\ MaxArgs \in Nat

VARIABLES
  args,      \* argv[1] .. argv[argc - 1]
  pc,        \* "main", "execute" (callbacks to run), "done"
  pending,   \* the callbacks execute_options still has to make
  calls,     \* history: the callbacks made, with their arguments
  glob,      \* the frontend's globals and init.port_settings
  status     \* how the process ended

vars == <<args, pc, pending, calls, glob, status>>

GP_OK == 0
GP_ERROR == -1

(* The option table option[]: short and long name, the argument it takes   *)
(* ("" for a flag) and its callback.  The last entry ends the table.       *)
Option == <<
  [short_id |-> "",  long_id |-> "port",          argument |-> "<port>",     execute |-> "port"],
  [short_id |-> "",  long_id |-> "camera",        argument |-> "<model>",    execute |-> "model"],
  [short_id |-> "d", long_id |-> "debug",         argument |-> "",           execute |-> "debug"],
  [short_id |-> "f", long_id |-> "filename",      argument |-> "<filename>", execute |-> "filename"],
  [short_id |-> "q", long_id |-> "quiet",         argument |-> "",           execute |-> "quiet"],
  [short_id |-> "",  long_id |-> "test",          argument |-> "",           execute |-> "test"],
  [short_id |-> "h", long_id |-> "help",          argument |-> "",           execute |-> "help"],
  [short_id |-> "l", long_id |-> "list",          argument |-> "",           execute |-> "list"],
  [short_id |-> "p", long_id |-> "get-picture",   argument |-> "#",          execute |-> "get_picture"],
  [short_id |-> "t", long_id |-> "get-thumbnail", argument |-> "#",          execute |-> "get_thumbnail"],
  [short_id |-> "",  long_id |-> "",              argument |-> "",           execute |-> NULL]
  >>

(* option[y], 0-based as in the C table.                                   *)
Opt(y) == Option[y + 1]

(* main: option_count is the number of entries before the first one with  *)
(* an empty short and long name.                                           *)
OptionCount ==
  LET RECURSIVE Count(_)
      Count(n) == IF Opt(n).short_id # "" \/ Opt(n).long_id # ""
                    THEN Count(n + 1) ELSE n
  IN Count(0)

(* The strings sprintf builds for option y, and strcmp against them.       *)
Spells(w, y) == w = SHORT_OPTION \o Opt(y).short_id
                \/ w = LONG_OPTION \o Opt(y).long_id

TakesArgument(y) == Len(Opt(y).argument) > 0

(* strncmp(w, prefix, strlen(prefix)) == 0                                 *)
StartsWith(w, p) == Len(w) >= Len(p) /\ SubSeq(w, 1, Len(p)) = p

(* argv[k] for 1 <= k <= argc, with argc = Len(a) + 1.                     *)
Argv(a, k) == IF k <= Len(a) THEN a[k] ELSE NULL

(* Mutant: verify_options without the prefix test on the value, so that   *)
(* "-f -d" gives -d as the file name.                                      *)
verify_options_anyvalue(a) ==
  LET argc == Len(a) + 1
      RECURSIVE Inner(_, _, _), Outer(_)
      Inner(x, y, match) ==
        IF y >= OptionCount THEN <<x, match>>
        ELSE IF ~Spells(a[x], y) THEN Inner(x, y + 1, match)
        ELSE IF ~TakesArgument(y) THEN Inner(x, y + 1, TRUE)
        ELSE IF x + 1 < argc THEN Inner(x + 1, y + 1, TRUE)
        ELSE Inner(x, y + 1, match)
      Outer(x) ==
        IF x >= argc THEN GP_OK
        ELSE LET r == Inner(x, 0, FALSE)
             IN IF r[2] THEN Outer(r[1] + 1) ELSE GP_ERROR
  IN Outer(1)

(* verify_options: for each argument x, every table entry is tried; one   *)
(* that matches and takes a value consumes argv[x+1] when that exists and  *)
(* does not start with a prefix (x++ inside the entry loop, so the later   *)
(* entries are compared with the value).  An argument no entry matched is  *)
(* an error.  Inner returns the argument index reached and whether some    *)
(* entry matched.                                                          *)
verify_options(a) ==
  LET argc == Len(a) + 1
      RECURSIVE Inner(_, _, _), Outer(_)
      Inner(x, y, match) ==
        IF y >= OptionCount THEN <<x, match>>
        ELSE IF ~Spells(a[x], y) THEN Inner(x, y + 1, match)
        ELSE IF ~TakesArgument(y) THEN Inner(x, y + 1, TRUE)
        ELSE IF x + 1 < argc /\ ~StartsWith(a[x + 1], SHORT_OPTION)
                             /\ ~StartsWith(a[x + 1], LONG_OPTION)
          THEN Inner(x + 1, y + 1, TRUE)
        ELSE Inner(x, y + 1, match)
      Outer(x) ==
        IF x >= argc THEN GP_OK
        ELSE LET r == Inner(x, 0, FALSE)
             IN IF r[2] THEN Outer(r[1] + 1) ELSE GP_ERROR
  IN Outer(1)

(* option_is_present(op): some argument is SHORT_OPTION op or LONG_OPTION op.*)
option_is_present(op, a) ==
  \E x \in 1..Len(a) : a[x] = SHORT_OPTION \o op \/ a[x] = LONG_OPTION \o op

(* execute_options: the callbacks it makes, in order.  For each table      *)
(* entry, the arguments are scanned; a match calls the entry's callback,   *)
(* with argv[++y] when the entry takes a value and NULL otherwise.         *)
execute_options(a) ==
  LET argc == Len(a) + 1
      RECURSIVE Scan(_, _)
      Scan(x, y) ==
        IF y >= argc THEN <<>>
        ELSE IF Spells(a[y], x) /\ Opt(x).execute # NULL
          THEN IF TakesArgument(x)
                 THEN <<[cb |-> Opt(x).execute, arg |-> Argv(a, y + 1)]>>
                        \o Scan(x, y + 2)
                 ELSE <<[cb |-> Opt(x).execute, arg |-> NULL]>> \o Scan(x, y + 1)
        ELSE Scan(x, y + 1)
      RECURSIVE Entries(_)
      Entries(x) == IF x >= OptionCount THEN <<>> ELSE Scan(x, 1) \o Entries(x + 1)
  IN Entries(0)

-----------------------------------------------------------------------------
Init ==
  /\ args \in UNION {[1..n -> Words] : n \in 0..MaxArgs}
  /\ pc = "main"
  /\ pending = <<>>
  /\ calls = <<>>
  /\ glob = [debug |-> 0, quiet |-> 0, filename |-> "", port |-> "",
             model |-> "", serial_port |-> "", serial_baud |-> 0]
  /\ status = "running"

(* main, up to execute_options: with no argument, or when verify_options   *)
(* fails, the usage is printed and the process exits with EXIT_FAILURE;    *)
(* verify_options has already set the default serial port.  Otherwise -d   *)
(* turns debugging on, gp_init is called and the callbacks are made.       *)
main ==
  /\ pc = "main"
  /\ IF Len(args) = 0
       THEN /\ status' = "EXIT_FAILURE" /\ pc' = "done"
            /\ UNCHANGED <<glob, pending>>
     ELSE IF verify_options(args) = GP_ERROR
       THEN /\ glob' = [glob EXCEPT !.serial_port = "/dev/ttyS0",
                                   !.serial_baud = 57600]
            /\ status' = "EXIT_FAILURE" /\ pc' = "done"
            /\ UNCHANGED pending
       ELSE /\ glob' = [glob EXCEPT !.serial_port = "/dev/ttyS0",
                                   !.serial_baud = 57600,
                                   !.debug = IF option_is_present("d", args)
                                               THEN 1 ELSE @]
            /\ pending' = execute_options(args)
            /\ pc' = "execute" /\ UNCHANGED status
  /\ UNCHANGED <<args, calls>>

(* execute_options returns GP_OK once every callback has returned GP_OK;   *)
(* gp_exit is called and main returns EXIT_SUCCESS.  (Every callback       *)
(* returns GP_OK, so its error path is never taken.)                       *)
main_exit ==
  /\ pc = "execute" /\ pending = <<>>
  /\ status' = "EXIT_SUCCESS" /\ pc' = "done"
  /\ UNCHANGED <<args, pending, calls, glob>>

(* The next callback execute_options makes is cb.                          *)
Call(cb) ==
  /\ pc = "execute" /\ pending # <<>> /\ Head(pending).cb = cb
  /\ pending' = Tail(pending)
  /\ calls' = Append(calls, Head(pending))
  /\ UNCHANGED args

Arg == Head(pending).arg

(* strcpy(dst, arg): a NULL argument makes strcpy fault.                   *)
Strcpy(field) ==
  IF Arg = NULL THEN status' = "SIGSEGV" /\ pc' = "done" /\ UNCHANGED glob
  ELSE glob' = [glob EXCEPT ![field] = Arg] /\ UNCHANGED <<pc, status>>

(* help and test print, then exit(EXIT_SUCCESS).                           *)
help == Call("help") /\ status' = "EXIT_SUCCESS" /\ pc' = "done" /\ UNCHANGED glob
test == Call("test") /\ status' = "EXIT_SUCCESS" /\ pc' = "done" /\ UNCHANGED glob

(* list prints the supported cameras; the flags and get_picture and       *)
(* get_thumbnail (whose bodies are comments) change no state but their own.*)
list == Call("list") /\ UNCHANGED <<glob, pc, status>>
get_picture == Call("get_picture") /\ UNCHANGED <<glob, pc, status>>
get_thumbnail == Call("get_thumbnail") /\ UNCHANGED <<glob, pc, status>>
(* Mutant: the debug callback counts instead of setting the flag.         *)
debug_count == Call("debug") /\ glob' = [glob EXCEPT !.debug = @ + 1] /\ UNCHANGED <<pc, status>>
debug == Call("debug") /\ glob' = [glob EXCEPT !.debug = 1] /\ UNCHANGED <<pc, status>>
quiet == Call("quiet") /\ glob' = [glob EXCEPT !.quiet = 1] /\ UNCHANGED <<pc, status>>

filename == Call("filename") /\ Strcpy("filename")
model == Call("model") /\ Strcpy("model")

(* port also resets the serial port to /dev/ttyS0 at 57600 baud.           *)
port ==
  /\ Call("port")
  /\ IF Arg = NULL THEN status' = "SIGSEGV" /\ pc' = "done" /\ UNCHANGED glob
     ELSE /\ glob' = [glob EXCEPT !.serial_port = "/dev/ttyS0",
                                  !.serial_baud = 57600, !.port = Arg]
          /\ UNCHANGED <<pc, status>>

Next ==
  \/ main \/ main_exit
  \/ help \/ test \/ list \/ get_picture \/ get_thumbnail
  \/ debug \/ quiet \/ filename \/ model \/ port

Spec == Init /\ [][Next]_vars

-----------------------------------------------------------------------------
(* The command line that usage() documents: a sequence of options, each   *)
(* spelled SHORT_OPTION short_id (when there is one) or LONG_OPTION        *)
(* long_id, followed by its value when it takes one; a value is the next   *)
(* argument and does not start with an option prefix.                      *)
Documented(w) ==
  {y \in 0..OptionCount - 1 :
     \/ Opt(y).short_id # "" /\ w = SHORT_OPTION \o Opt(y).short_id
     \/ w = LONG_OPTION \o Opt(y).long_id}

IsValue(w) == ~StartsWith(w, SHORT_OPTION) /\ ~StartsWith(w, LONG_OPTION)

(* The options of a, in argument order, or ok = FALSE if a is not a       *)
(* documented command line.                                                *)
RECURSIVE Parse(_, _)
Parse(a, k) ==
  IF k > Len(a) THEN [ok |-> TRUE, items |-> <<>>]
  ELSE IF Documented(a[k]) = {} THEN [ok |-> FALSE, items |-> <<>>]
  ELSE LET y == CHOOSE y \in Documented(a[k]) : TRUE
           Cons(item, r) == [r EXCEPT !.items = <<item>> \o @]
       IN IF ~TakesArgument(y)
            THEN Cons([opt |-> y, arg |-> NULL], Parse(a, k + 1))
          ELSE IF k + 1 <= Len(a) /\ IsValue(a[k + 1])
            THEN Cons([opt |-> y, arg |-> a[k + 1]], Parse(a, k + 2))
          ELSE [ok |-> FALSE, items |-> <<>>]

(* "Options are exec'd in the order in the table": the callbacks, table   *)
(* entry by table entry, each entry's options in argument order.           *)
InTableOrder(items) ==
  LET RECURSIVE From(_)
      From(y) ==
        IF y >= OptionCount THEN <<>>
        ELSE [i \in 1..Len(SelectSeq(items, LAMBDA it : it.opt = y)) |->
                [cb |-> Opt(y).execute,
                 arg |-> SelectSeq(items, LAMBDA it : it.opt = y)[i].arg]]
             \o From(y + 1)
  IN From(0)

(* The callbacks up to and including the first one that exits.            *)
UntilExit(cs) ==
  LET exits == {i \in 1..Len(cs) : cs[i].cb \in {"help", "test"}}
  IN IF exits = {} THEN cs
     ELSE SubSeq(cs, 1, CHOOSE i \in exits : \A j \in exits : i <= j)

-----------------------------------------------------------------------------
TypeOK ==
  /\ args \in Seq(Words) /\ Len(args) <= MaxArgs
  /\ pc \in {"main", "execute", "done"}
  /\ \A c \in {pending[i] : i \in 1..Len(pending)} \cup {calls[i] : i \in 1..Len(calls)} :
        c.cb \in {Opt(y).execute : y \in 0..OptionCount - 1} /\ c.arg \in Words \cup {NULL}
  /\ glob.debug \in {0, 1} /\ glob.quiet \in {0, 1}
  /\ status \in {"running", "EXIT_SUCCESS", "EXIT_FAILURE", "SIGSEGV"}

(* verify_options, main and execute_options together keep usage()'s      *)
(* promise: a command line that is not documented ends with EXIT_FAILURE   *)
(* before any callback runs; a documented one runs exactly its options,    *)
(* each with its own value, in table order (the settings before the        *)
(* actions), up to the first that exits, and ends with EXIT_SUCCESS.       *)
UsageContract ==
  pc = "done" =>
    LET p == Parse(args, 1)
    IN IF Len(args) = 0 \/ ~p.ok
         THEN status = "EXIT_FAILURE" /\ calls = <<>>
         ELSE status = "EXIT_SUCCESS" /\ calls = UntilExit(InTableOrder(p.items))

(* verify_options "makes sure that all command-line options are valid and  *)
(* have the correct number of arguments": once it has accepted the command *)
(* line, no callback of an option that takes a value is given NULL (which  *)
(* filename, port and model would strcpy).                                 *)
ArgumentsVerified ==
  \A i \in 1..Len(calls) :
    calls[i].cb \in {Opt(y).execute : y \in {y \in 0..OptionCount - 1 : TakesArgument(y)}}
      => calls[i].arg # NULL


====
