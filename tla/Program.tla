------------------------------ MODULE Program -------------------------------
(***************************************************************************)
(* The program: main (tree.cpp), the loader of extension functions         *)
(* (run_ext_func, sys.hpp and sys.cpp), and what the extensions in the     *)
(* source tree do when they are called: the tree printer (printer.cpp),    *)
(* the AST type libraries (eval-impl.hpp) and their own printers           *)
(* (ext-printer-impl.hpp).  Parsing, printing and evaluation are modelled  *)
(* elsewhere; here an input is good, bad, or ill typed under some casts.   *)
(*                                                                         *)
(* For each input main parses the text and calls the extension.  The       *)
(* extension parses its part of the command line anew on each call, into   *)
(* an object that is static, as is the function that was loaded.           *)
(*                                                                         *)
(* (A _slip definition is the next one with a mistake: see PoolAllocator.) *)
(***************************************************************************)
EXTENDS Options

CONSTANTS
  CommandLines,  \* the values of argv to start the program with
  Modules,       \* the functions that can be loaded: from their path to what they are
  BadInputs,     \* inputs that do not parse
  IllTyped       \* pairs of an input and casts under which it does not evaluate

(* Functions are printers of trees, type libraries, printers of the nodes  *)
(* of a type library, or others.  Those with the name of a printer's       *)
(* function are what the source tree has under that name.                  *)
ASSUME ModulesAssumption ==
  \A f \in DOMAIN Modules :
    /\ f \in Paths /\ Modules[f].class \in {"printer", "typelib", "nodes", "user"}
    /\ Modules[f].class = "printer" =>
         Modules[f].act \in {"printer", "print", "dump", "pretty_print", "terse_print"}
    /\ \A a \in DOMAIN ProgramFuncs \ {"none"} :
         f[Len(f)] = ProgramFuncs[a][1] =>
           \/ Modules[f].class = "printer" /\ Modules[f].act = a
           \/ Modules[f].class = "nodes"

VARIABLES
  cmd,        \* argv when the program starts
  argv,       \* argv as it is now
  main,       \* the options of the program
  lib,        \* the options of the extension it calls, static
  mainFunc,   \* the function loaded by the program, static: its path or NoPath
  nodeFunc,   \* the function loaded by the type library, static
  i,          \* the calls of run_ext_func begun by main
  runs,       \* what was done, in order
  pc, code    \* where the program is, and its exit code, -1 before it ends

vars == <<cmd, argv, main, lib, mainFunc, nodeFunc, i, runs, pc, code>>

Init ==
  /\ cmd \in CommandLines
  /\ argv = cmd
  /\ main = NewOptions("program")
  /\ lib = NewOptions("printer")
  /\ mainFunc = NoPath /\ nodeFunc = NoPath
  /\ i = 0 /\ runs = <<>> /\ pc = "start" /\ code = -1

Exit(c) == pc' = "ended" /\ code' = c

-----------------------------------------------------------------------------
(* main                                                                    *)

HasAst == ~main.help_ext_func /\ main.argc > 0
Calls  == IF HasAst THEN main.argc ELSE 1
Input(k) == IF HasAst THEN argv[main.argv + k - 1].path[1] ELSE "none"

ParseMain ==
  /\ pc = "start"
  /\ \/ /\ ParseEnds("program", argv, 1, Len(argv)) = "return"
        /\ main' = Parsed("program", main, argv, 1, Len(argv))
        /\ argv' = ParsedArgs(main', argv, 1, Len(argv))
        /\ pc' = "loop" /\ UNCHANGED code
     \/ /\ ParseEnds("program", argv, 1, Len(argv)) = "error"
        /\ Exit(1) /\ UNCHANGED <<main, argv>>
     \/ /\ ParseEnds("program", argv, 1, Len(argv)) = "exit"
        /\ Exit(0) /\ UNCHANGED <<main, argv>>
  /\ UNCHANGED <<cmd, lib, mainFunc, nodeFunc, i, runs>>

NextInput ==
  /\ pc = "loop"
  /\ \/ /\ i < Calls /\ Input(i + 1) \notin BadInputs
        /\ i' = i + 1 /\ pc' = "run" /\ UNCHANGED code
     \/ /\ i < Calls /\ Input(i + 1) \in BadInputs
        /\ Exit(1) /\ UNCHANGED i
     \/ /\ i = Calls
        /\ Exit(0) /\ UNCHANGED i
  /\ UNCHANGED <<cmd, argv, main, lib, mainFunc, nodeFunc, runs>>

-----------------------------------------------------------------------------
(* run_ext_func, called by main                                            *)

(* load: a name without directory is looked for in home_dir.               *)
FileOf(home, name) == IF Len(name) = 1 THEN home \o name ELSE name

(* What is called: what was loaded by an earlier call, if something was.   *)
Loaded(func, obj) == IF func # NoPath THEN func ELSE FileOf(obj.home_dir, obj.ext_func_name)

Run ==
  /\ pc = "run"
  /\ LET func == Loaded(mainFunc, main)
     IN  \/ /\ main.ext_func_name = NoPath
            /\ pc' = "loop" /\ UNCHANGED <<mainFunc, lib, code>>
         \/ /\ main.ext_func_name # NoPath /\ func \in DOMAIN Modules
            /\ mainFunc' = func
            /\ lib' = IF mainFunc = NoPath /\ Modules[func].class # "user"
                      THEN NewOptions(Modules[func].class) ELSE lib
            /\ pc' = IF Modules[func].class = "user" THEN "user" ELSE "parse"
            /\ UNCHANGED code
         \/ /\ main.ext_func_name # NoPath /\ func \notin DOMAIN Modules
            /\ Exit(1) /\ UNCHANGED <<mainFunc, lib>>
  /\ UNCHANGED <<cmd, argv, main, nodeFunc, i, runs>>

-----------------------------------------------------------------------------
(* What is done: by which function, doing what, on which input, under      *)
(* which casts, and with which command line of its own.                    *)
Entry(func, act, input, casts, args) ==
  [func |-> func, act |-> act, input |-> input, casts |-> casts, args |-> args]

Done(func, act, casts, args) ==
  /\ runs' = Append(runs, Entry(func, act, Input(i), casts, args))
  /\ pc' = "loop"
  /\ UNCHANGED code

ExtArgs(obj) == SubSeq(argv, obj.ext_argv + 1, obj.ext_argv + obj.ext_argc - 1)

(* A function that is not in the source tree.  It may fail.                *)
UserFunc ==
  /\ pc = "user"
  /\ \/ Done(mainFunc, "user", "", ExtArgs(main))
     \/ Exit(1) /\ UNCHANGED runs
  /\ UNCHANGED <<cmd, argv, main, lib, mainFunc, nodeFunc, i>>

(* The first step of the tree printer and of the type libraries: options.  *)
LibParse ==
  LET class == Modules[mainFunc].class
      how   == ParseEnds(class, argv, main.ext_argv, main.ext_argc)
  IN  /\ pc = "parse"
      /\ \/ /\ how = "return"
            /\ lib' = Parsed(class, lib, argv, main.ext_argv, main.ext_argc)
            /\ argv' = ParsedArgs(lib', argv, main.ext_argv, main.ext_argc)
            /\ main' = [main EXCEPT !.ext_func_name = IF main.ext_argc = 0 THEN @ ELSE Cut(@)]
            /\ IF main.help_ext_func THEN Exit(0) ELSE (pc' = "act" /\ UNCHANGED code)
         \/ /\ how = "error"
            /\ Exit(1) /\ UNCHANGED <<lib, argv, main>>
         \/ /\ how = "exit"
            /\ Exit(0) /\ UNCHANGED <<lib, argv, main>>
         \/ /\ how = "undefined"      (* strcmp of a null pointer *)
            /\ Exit(139) /\ UNCHANGED <<lib, argv, main>>
      /\ UNCHANGED <<cmd, mainFunc, nodeFunc, i, runs>>

(* exec of the tree printer: each of its functions but `printer' prints in *)
(* its own way, whatever the options are.                                  *)
PrinterAct ==
  /\ pc = "act" /\ Modules[mainFunc].class = "printer"
  /\ \/ /\ lib.action = "ext_func" \/ ~HasAst
        /\ Exit(1) /\ UNCHANGED runs
     \/ /\ lib.action # "ext_func" /\ HasAst
        /\ LET own == Modules[mainFunc].act
           IN  Done(mainFunc, IF own = "printer" THEN lib.action ELSE own, "", <<>>)
  /\ UNCHANGED <<cmd, argv, main, lib, mainFunc, nodeFunc, i>>

\* slip: a type library that was given nothing succeeds
TypelibAct_slip ==
  /\ pc = "act" /\ Modules[mainFunc].class = "typelib"
  /\ \/ /\ lib.action = "print_types"
        /\ Done(mainFunc, "print_types", "", <<>>)
     \/ /\ lib.action # "print_types"
        /\ ~HasAst
        /\ pc' = "loop" /\ UNCHANGED <<runs, code>>
     \/ /\ lib.action # "print_types"
        /\ HasAst /\ <<Input(i), lib.casts>> \in IllTyped
        /\ Exit(1) /\ UNCHANGED runs
     \/ /\ lib.action \in {"type_check", "ast_build"}
        /\ HasAst /\ <<Input(i), lib.casts>> \notin IllTyped
        /\ Done(mainFunc, lib.action, lib.casts, <<>>)
     \/ /\ lib.action \in {"print_obj", "ext_func"}
        /\ HasAst /\ <<Input(i), lib.casts>> \notin IllTyped
        /\ pc' = "nested" /\ UNCHANGED <<runs, code>>
  /\ UNCHANGED <<cmd, argv, main, lib, mainFunc, nodeFunc, i>>

(* ext_func_entry of a type library: print_types, or the evaluation of the *)
(* tree, which throws an error if it is ill typed.                         *)
TypelibAct ==
  /\ pc = "act" /\ Modules[mainFunc].class = "typelib"
  /\ \/ /\ lib.action = "print_types"
        /\ Done(mainFunc, "print_types", "", <<>>)
     \/ /\ lib.action # "print_types"
        /\ ~HasAst \/ <<Input(i), lib.casts>> \in IllTyped
        /\ Exit(1) /\ UNCHANGED runs
     \/ /\ lib.action \in {"type_check", "ast_build"}
        /\ HasAst /\ <<Input(i), lib.casts>> \notin IllTyped
        /\ Done(mainFunc, lib.action, lib.casts, <<>>)
     \/ /\ lib.action \in {"print_obj", "ext_func"}
        /\ HasAst /\ <<Input(i), lib.casts>> \notin IllTyped
        /\ pc' = "nested" /\ UNCHANGED <<runs, code>>
  /\ UNCHANGED <<cmd, argv, main, lib, mainFunc, nodeFunc, i>>

(* run_ext_func, called by a type library.  Its actions print_obj and      *)
(* ext_func always come with the name of a function.                       *)
Printer == Loaded(nodeFunc, lib)

(* ... and what the function does: the library's printer, or another one.  *)
RunNested ==
  /\ pc = "nested"
  /\ \/ /\ Printer \notin DOMAIN Modules
        /\ Exit(1) /\ UNCHANGED <<nodeFunc, runs>>
     \/ /\ Printer \in DOMAIN Modules
        /\ nodeFunc' = Printer
        /\ \/ /\ Modules[Printer].class = "user"
              /\ \/ Done(Printer, "user", lib.casts, ExtArgs(lib))
                 \/ Exit(1) /\ UNCHANGED runs
           \/ /\ Modules[Printer].class # "user" /\ lib.action = "ext_func"
              /\ Exit(1) /\ UNCHANGED runs
           \/ /\ Modules[Printer].class # "user" /\ lib.action # "ext_func"
              /\ IF lib.help_ext_func
                   THEN pc' = "loop" /\ UNCHANGED <<runs, code>>
                   ELSE Done(Printer, "print", lib.casts, <<>>)
  /\ UNCHANGED <<cmd, argv, main, lib, mainFunc, i>>

-----------------------------------------------------------------------------
Next ==
  \/ ParseMain \/ NextInput \/ Run \/ UserFunc
  \/ LibParse \/ PrinterAct \/ TypelibAct \/ RunNested

Spec == Init /\ [][Next]_vars
=============================================================================
