----------------------------- MODULE MCProgram ------------------------------
(* Command lines: the program's part up to three arguments, the extension's*)
(* up to two, and for a type library one more part.                        *)
EXTENDS ProgramAsked

Line(own, ext)          == <<Text(<<".", "tree">>)>> \o own \o ext
Ext(part)               == <<Dashes>> \o part

Good == Text(<<"good">>)
Bad  == Text(<<"bad">>)       \* does not parse
Poly == Text(<<"poly">>)      \* needs relaxed casts
Abc  == OptF(<<"abc", "abc.so">>)

OwnArg == {Good, Bad, Poly, Abc, Opt("n"), Opt("p"), OptF(<<"printer">>), OptF(<<"lib", "mine">>)}
Odd    == {Opt("help_ext_func"), Opt("info"), Opt("o"), OptF(<<"none">>)}
ExtArg == {Opt("c"), Opt("o"), Opt("t"), Opt("r"), Opt("T"), Opt("help_ext_func"), Opt("info"),
           OptF(<<"abc", "mine">>), OptF(<<"abc", "printer::print">>), OptF(<<"abc", "none">>)}

AllWords ==
  {".", "tree", "lib", "abc", "good", "bad", "poly", "abc.so", "mine", "none"}
  \cup {"printer", "printer::print", "printer::dump", "printer::pretty_print", "printer::terse_print"}
  \cup {"n", "p", "c", "o", "t", "r", "T", "x", "help_ext_func", "info"}

Upto(n, S) == UNION {[1 .. m -> S] : m \in 0 .. n}

OwnParts ==
  Upto(2, OwnArg)
  \cup {InsertAt(<<x, y>>, k, a) : k \in 1 .. 3, a \in OwnArg, x \in {Good, Poly}, y \in {Good, Bad}}
  \cup {<<a>> \o s : a \in Odd, s \in Upto(2, {Good, Abc, Opt("p")})}
ExtParts == {<<>>} \cup {Ext(s) : s \in Upto(2, ExtArg)}
OneInput == {<<Abc>>, <<Abc, Good>>, <<Abc, Poly>>}
TwoInputs == {<<Abc, Good, Poly>>, <<Poly, Abc, Good>>}
NestedParts == {Ext(s) \o Ext(t) : s \in Upto(2, ExtArg), t \in Upto(2, {Opt("c"), Opt("x"), Good})}

\* At most one `--', or at most one input; or two and two, of which the library
\* reads a null pointer when it calls no extension itself.
PlainLines == {Line(own, ext) : own \in OwnParts, ext \in ExtParts}
              \cup {Line(own, ext) : own \in OneInput, ext \in NestedParts}
              \cup {Line(own, Ext(<<Opt("c")>>) \o Ext(s)) : own \in TwoInputs, s \in Upto(2, {Opt("x")})}

ASSUME \A line \in PlainLines : IsPlain(line)

\* Two of them, and two inputs.
NestedLines == {Line(own, ext) : own \in TwoInputs, ext \in NestedParts}

InSourceTree ==
  [x \in {<<".", "printer">>} |-> [class |-> "printer", act |-> "printer"]]
  @@ [x \in {<<".", ProgramFuncs[a][1]>> : a \in DOMAIN ProgramFuncs \ {"none"}} |->
        [class |-> "printer",
         act |-> CHOOSE a \in DOMAIN ProgramFuncs \ {"none"} : <<x[2]>> = ProgramFuncs[a]]]
  @@ [x \in {<<"abc", "abc.so">>} |-> [class |-> "typelib"]]
  @@ [x \in {<<"abc", "printer::print">>} |-> [class |-> "nodes"]]
  @@ [x \in {<<"lib", "mine">>, <<"abc", "mine">>} |-> [class |-> "user"]]

NotParsed   == {"bad"}
IllTypedAbc == {<<"poly", "strict">>}
=============================================================================
