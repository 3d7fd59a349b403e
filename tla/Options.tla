------------------------------ MODULE Options -------------------------------
(***************************************************************************)
(* The command line and the objects that keep its options: the class       *)
(* Opts::options_t (options.cpp) and the classes derived from it, for the  *)
(* program, for the tree printer and for the AST type libraries.           *)
(*                                                                         *)
(* All of them read, and write, one array, the argv of the process.  `--'  *)
(* ends the options of the program and begins those of its extension; the  *)
(* object of the program puts the name of the extension in the place of the*)
(* `--', so that what follows looks like a command line of its own; and the*)
(* same again one level below.                                             *)
(*                                                                         *)
(* (A _slip definition is the next one with a mistake: see PoolAllocator.) *)
(***************************************************************************)
EXTENDS Integers, SequencesExt

CONSTANT Words  \* what command lines are made of: names of files and of options

(* The names that the program itself has are among them.                   *)
ASSUME WordsAssumption ==
  {".", "printer::print", "printer::dump", "printer::pretty_print", "printer::terse_print"}
    \subseteq Words

-----------------------------------------------------------------------------
(* Elements of argv: an option, together with its argument if it has one;  *)
(* the double dash; a text, which is a path, as in <<"abc", "abc.so">>;    *)
(* or a null pointer.                                                      *)
Opt(key)     == [is |-> "opt", key |-> key]
OptF(path)   == [is |-> "opt", key |-> "F", path |-> path]
Dashes       == [is |-> "dashes"]
Text(path)   == [is |-> "text", path |-> path]
NullArg      == [is |-> "null"]

NoPath == <<>>
Paths  == Seq(Words) \ {NoPath}

Args == [is : {"opt"}, key : {"F"}, path : Paths] \cup [is : {"opt"}, key : Words \ {"F"}]
        \cup [is : {"dashes"}] \cup [is : {"text"}, path : Paths] \cup [is : {"null"}]

(* dirname: what it returns, and what it leaves of its argument, that it   *)
(* may cut.                                                                *)
DirName(path) == IF Len(path) = 1 THEN <<".">> ELSE Front(path)
Cut(path)     == IF Len(path) = 1 THEN path ELSE Front(path)

-----------------------------------------------------------------------------
(* The options of each class of objects, by letter where they have one;    *)
(* "info" stands for those that inform and end the program.                *)
BaseKeys    == {"F", "help_ext_func", "verbose", "info"}
InputKeys   == BaseKeys \cup {"n", "p", "u", "f", "t"}
ProgramKeys == InputKeys \cup {"P", "T"}
PrinterKeys == BaseKeys \cup {"p", "u", "P", "T", "i", "I"}
TypelibKeys == BaseKeys \cup {"c", "A", "o", "r", "s", "t", "T", "no_trace_eval"}

Keys == [program |-> ProgramKeys, printer |-> PrinterKeys, typelib |-> TypelibKeys]

(* The options that choose an action, and those that choose the casts.     *)
ProgramActions == [n |-> "none", p |-> "print", u |-> "dump",
                   P |-> "pretty_print", T |-> "terse_print"]
PrinterActions == [p |-> "print", u |-> "dump", P |-> "pretty_print", T |-> "terse_print"]
TypelibActions == [c |-> "type_check", A |-> "ast_build", o |-> "print_obj", t |-> "print_types"]

Actions == [program |-> ProgramActions, printer |-> PrinterActions, typelib |-> TypelibActions]

Casts == [r |-> "relaxed", s |-> "strict"]

(* get_ext_func_name: the extension that an action calls, if it calls one. *)
ProgramFuncs == [none |-> NoPath, print |-> <<"printer::print">>, dump |-> <<"printer::dump">>,
                 pretty_print |-> <<"printer::pretty_print">>,
                 terse_print  |-> <<"printer::terse_print">>]
TypelibFuncs == [type_check |-> NoPath, ast_build |-> NoPath, print_types |-> NoPath,
                 print_obj |-> <<"printer::print">>]

ExtFuncName(class, action) ==
  CASE class = "program" -> ProgramFuncs[action]
    [] class = "typelib" -> TypelibFuncs[action]
    [] class = "printer" -> NoPath

(* The objects as they are constructed.                                    *)
DefaultAction == [program |-> "pretty_print", printer |-> "print", typelib |-> "type_check"]

NewOptions(class) ==
  [ home_dir |-> NoPath, ext_func_name |-> NoPath, casts |-> "strict",
    action |-> DefaultAction[class], help_ext_func |-> FALSE,
    argv |-> 0, argc |-> 0,          (* inputs: where in the array, how many *)
    ext_argv |-> 0, ext_argc |-> 0 ] (* the extension's command line         *)

\* slip: an action is taken only as long as it is the default one
ParseOpt_slip(class, obj, opt) ==
  [obj EXCEPT
    !.action = IF opt.key = "F" THEN "ext_func"
               ELSE IF opt.key \in DOMAIN Actions[class] /\ @ = DefaultAction[class]
                 THEN Actions[class][opt.key] ELSE @,
    !.ext_func_name = IF opt.key = "F" THEN opt.path ELSE @,
    !.casts = IF class = "typelib" /\ opt.key \in DOMAIN Casts THEN Casts[opt.key] ELSE @,
    !.help_ext_func = @ \/ opt.key = "help_ext_func"]

(* One turn of the loop over getopt_long, and parse_opt.                   *)
ParseOpt(class, obj, opt) ==
  [obj EXCEPT
    !.action = IF opt.key = "F" THEN "ext_func"
               ELSE IF opt.key \in DOMAIN Actions[class] THEN Actions[class][opt.key] ELSE @,
    !.ext_func_name = IF opt.key = "F" THEN opt.path ELSE @,
    !.casts = IF class = "typelib" /\ opt.key \in DOMAIN Casts THEN Casts[opt.key] ELSE @,
    !.help_ext_func = @ \/ opt.key = "help_ext_func"]

(* The loop: the object after k turns.                                     *)
Turns(class, obj, opts, set, k) == IF k = 0 THEN obj ELSE ParseOpt(class, set[k - 1], opts[k])

ParseOpts(class, obj, opts) ==
  LET set[k \in 0 .. Len(opts)] == Turns(class, obj, opts, set, k) IN set[Len(opts)]

-----------------------------------------------------------------------------
(* parse(argc, argv), on the argc elements of the array `args' from `at'.  *)
IsOpt(arg) == arg.is = "opt"
NoOpt      == {"dashes", "text", "null"}

(* The elements of s of these kinds, in order: a SelectSeq, written as the *)
(* function of how many of s were looked at.                               *)
Select(s, kinds, selected, k) ==
  CASE k = 0 -> <<>>
    [] k > 0 /\ s[k].is \in kinds    -> Append(selected[k - 1], s[k])
    [] k > 0 /\ s[k].is \notin kinds -> selected[k - 1]

Those(s, kinds) ==
  LET selected[k \in 0 .. Len(s)] == Select(s, kinds, selected, k) IN selected[Len(s)]

Opts(s)   == Those(s, {"opt"})
Inputs(s) == Those(s, NoOpt)

(* getopt_long moves the options to the front.                             *)
Permuted(s) == Opts(s) \o Inputs(s)

Region(at, n) == at .. at + n - 1

(* The place of the first `--', where the search of std::find_if stops.    *)
HasDashes(args, at, n) == \E i \in Region(at, n) : args[i] = Dashes
FirstDashes(args, at, n) ==
  CHOOSE i \in Region(at, n) : args[i] = Dashes /\ \A j \in at .. i - 1 : args[j] # Dashes

(* The search compares the strings: with a null pointer on its way what    *)
(* happens is undefined.                                                   *)
ReadsNull(args, at, n) ==
  LET end == IF HasDashes(args, at, n) THEN FirstDashes(args, at, n) ELSE at + n
  IN  \E i \in at .. end - 1 : args[i] = NullArg

\* slip: argc still counts the extension's command line
Own_slip(args, at, n) == n

(* How much of the region is of this object: up to any `--'.               *)
Own(args, at, n) == IF HasDashes(args, at, n) THEN FirstDashes(args, at, n) - at ELSE n

OwnArgs(args, at, n) == SubSeq(args, at + 1, at + Own(args, at, n) - 1)
OwnOpts(args, at, n) == Opts(OwnArgs(args, at, n))

(* How the call ends: it returns, throws an error, ends the program with   *)
(* success after it has told something, or reads a null pointer.           *)
ParseEnds(class, args, at, n) ==
  LET keys == {o.key : o \in ToSet(OwnOpts(args, at, n))}
  IN  CASE ReadsNull(args, at, n)       -> "undefined"
        [] ~ReadsNull(args, at, n) /\ ~(keys \subseteq Keys[class]) -> "error"
        [] ~ReadsNull(args, at, n) /\ keys \subseteq Keys[class]    ->
             IF "info" \in keys THEN "exit" ELSE "return"

(* The object after a call that returns, given what it was before: what no *)
(* option sets, and where an extension's command line was, stays as it was.*)
Parsed(class, obj, args, at, n) ==
  LET opts == OwnOpts(args, at, n)
      set  == ParseOpts(class, obj, opts)
      ext  == IF HasDashes(args, at, n) THEN FirstDashes(args, at, n) ELSE obj.ext_argv
  IN  [set EXCEPT
        !.home_dir = IF n = 0 THEN NoPath ELSE DirName(args[at].path),
        !.argv = IF n = 0 THEN 0 ELSE at + 1 + Len(opts),
        !.argc = IF n = 0 THEN 0 ELSE Own(args, at, n) - 1 - Len(opts),
        !.ext_argv = ext,
        !.ext_argc = IF HasDashes(args, at, n) THEN at + n - ext ELSE @,
        !.ext_func_name = IF set.action = "ext_func" THEN @ ELSE ExtFuncName(class, set.action)]

NameArg(path) == IF path = NoPath THEN NullArg ELSE Text(path)

(* The array after that call, obj being the object after it: argv[0] cut by*)
(* dirname, the options in front of the inputs, and the name of the        *)
(* extension where its command line begins.                                *)
ParsedArgs(obj, args, at, n) ==
  LET own  == Own(args, at, n)
      read == IF n = 0 THEN args
              ELSE SubSeq(args, 1, at - 1) \o <<Text(Cut(args[at].path))>>
                   \o Permuted(OwnArgs(args, at, n)) \o SubSeq(args, at + own, Len(args))
  IN  IF obj.ext_argc > 0
        THEN [read EXCEPT ![obj.ext_argv] = NameArg(obj.ext_func_name)]
        ELSE read
=============================================================================
