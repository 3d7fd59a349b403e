--------------------------- MODULE ProgramAsked ----------------------------
(***************************************************************************)
(* What the program promises for a command line, read in the obvious way:  *)
(* `--' separates the part of the program, that of its extension and that  *)
(* of the extension's extension; in each part the last action counts; each *)
(* input, in order, is treated the same.                                   *)
(***************************************************************************)
EXTENDS Program

IsDashes(arg) == arg = Dashes
Part(s) == LET k == SelectInSeq(s, IsDashes) IN IF k = 0 THEN s ELSE SubSeq(s, 1, k - 1)
Rest(s) == LET k == SelectInSeq(s, IsDashes) IN IF k = 0 THEN <<>> ELSE SubSeq(s, k + 1, Len(s))

KeysOf(s) == {s[k].key : k \in {j \in DOMAIN s : IsOpt(s[j])}}

(* The last option of s with one of the keys, or `default' if none is.     *)
LastOpt(s, keys, default) ==
  LET k == SelectLastInSeq(s, LAMBDA arg : IsOpt(arg) /\ arg.key \in keys)
  IN  IF k = 0 THEN default ELSE s[k]

ActionAsked(class, s) ==
  LET opt == LastOpt(s, DOMAIN Actions[class] \cup {"F"}, NullArg)
  IN  CASE opt = NullArg  -> DefaultAction[class]
        [] IsOpt(opt)     -> IF opt.key = "F" THEN "ext_func" ELSE Actions[class][opt.key]

CastsAsked(s) == Casts[LastOpt(s, DOMAIN Casts, Opt("s")).key]
FuncAsked(s)  == LastOpt(s, {"F"}, NullArg).path

(* The function that the program is asked to call, if it is to call one.   *)
Function(line) ==
  LET act == ActionAsked("program", Part(line))
  IN  FileOf(DirName(line[1].path),
             IF act = "ext_func" THEN FuncAsked(Part(line)) ELSE ExtFuncName("program", act))

(* Lines as a shell can give them: argv[0] is a text, and `-F' comes with a*)
(* path.  What it names may not be a function that prints the nodes of a   *)
(* type library: its type is another, and the loader does not find it.     *)
ASSUME LinesAssumption ==
  \A line \in CommandLines :
    /\ line \in Seq(Args \ {NullArg}) /\ line # <<>> /\ line[1].is = "text"
    /\ Function(line) \in DOMAIN Modules => Modules[Function(line)].class # "nodes"

(* What a type library is asked to do with an input, by the parts after    *)
(* the first `--'.  Its extension is looked for in `dir'.                  *)
TypelibAsked(func, dir, input, parts) ==
  LET own == Part(parts)
      act == ActionAsked("typelib", own)
  IN  CASE act = "print_types" -> <<Entry(func, act, input, "", <<>>)>>
        [] act = "print_obj" ->
             IF "help_ext_func" \in KeysOf(own) THEN <<>>
             ELSE <<Entry(FileOf(dir, ExtFuncName("typelib", act)), "print", input,
                          CastsAsked(own), <<>>)>>
        [] act = "ext_func" ->
             <<Entry(FileOf(dir, FuncAsked(own)), "user", input, CastsAsked(own), Rest(parts))>>
        [] OTHER -> <<Entry(func, act, input, CastsAsked(own), <<>>)>>

(* What the program is asked to do with an input.  The directory of a type *)
(* library is the one it was named with.                                   *)
InputAsked(input, line) ==
  LET act  == ActionAsked("program", Part(line))
      func == Function(line)
      rest == Rest(line)
  IN  CASE act = "none" -> <<>>
        [] act \notin {"none", "ext_func"} -> <<Entry(func, act, input, "", <<>>)>>
        [] act = "ext_func" /\ func \notin DOMAIN Modules -> <<Entry(func, act, input, "", <<>>)>>
        [] act = "ext_func" /\ func \in DOMAIN Modules ->
             CASE Modules[func].class = "typelib" ->
                    TypelibAsked(func, DirName(FuncAsked(Part(line))), input, rest)
               [] Modules[func].class = "user"    -> <<Entry(func, "user", input, "", rest)>>
               [] Modules[func].class = "printer" ->
                    LET own == Modules[func].act
                    IN  <<Entry(func, IF own = "printer" THEN ActionAsked("printer", Part(rest))
                                      ELSE own, input, "", <<>>)>>

InputsAsked(line) ==
  LET given == Inputs(Tail(Part(line)))
  IN  IF given = <<>> \/ "help_ext_func" \in KeysOf(Part(line))
      THEN <<"none">> ELSE [k \in DOMAIN given |-> given[k].path[1]]

Asked(line) ==
  LET inputs == InputsAsked(line)
  IN  FlattenSeq([k \in DOMAIN inputs |-> InputAsked(inputs[k], line)])

(* The command line asks for information, and for nothing else.            *)
Informs(line) ==
  \/ KeysOf(Part(line)) \cap {"info", "help_ext_func"} # {}
  \/ "info" \in KeysOf(Part(Rest(line)))

(* Lines that are not read otherwise the second time, after the first time *)
(* has put a name, or a null pointer, in the place of the second `--'.     *)
IsPlain(line) ==
  \/ \A k \in DOMAIN Rest(line) : Rest(line)[k] # Dashes
  \/ Len(InputsAsked(line)) = 1
  \/ ActionAsked("typelib", Part(Rest(line))) \notin {"print_obj", "ext_func"}

-----------------------------------------------------------------------------
(* The inputs of the program lie before the command line of its extension, *)
(* which ends with argv, and the counts that tell where are those of parts *)
(* of argv: main passes the one to the parser and the other to extensions. *)
TypeOK ==
  /\ Len(argv) = Len(cmd)
  /\ main.argc >= 0 /\ main.ext_argc >= 0
  /\ main.ext_argc > 0 =>
       /\ main.argv + main.argc = main.ext_argv
       /\ main.ext_argv + main.ext_argc = Len(argv) + 1
  /\ i <= Calls
  /\ (pc = "ended") = (code # -1)

(* However many times the command line is parsed, and rewritten in place   *)
(* by getopt_long, dirname and parse itself, what is done is what was      *)
(* asked for, for each input in order.                                     *)
ActsAsAsked == IsPrefix(runs, Asked(cmd))

(* The program ends with success only if everything that was asked for was *)
(* done: an input that does not parse, does not evaluate, or for which an  *)
(* extension fails, is not passed over.                                    *)
ZeroMeansAll == code = 0 => Informs(cmd) \/ runs = Asked(cmd)

(* An extension is called with the options of its own part of the command  *)
(* line, the second, and not with those of its extension.                  *)
OptionsAreOwn ==
  pc = "act" /\ Modules[mainFunc].class = "typelib" =>
    /\ lib.action = ActionAsked("typelib", Part(Rest(cmd)))
    /\ lib.casts = CastsAsked(Part(Rest(cmd)))
=============================================================================
