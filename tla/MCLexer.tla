------------------------------ MODULE MCLexer -------------------------------
(* What the lexer reads: short texts of a character of each kind, of both  *)
(* quotes and of two that are not printable, one of them a space; longer   *)
(* ones of lines, comments and literals; and trees of every form, printed, *)
(* over the literals that short texts make.                                *)
EXTENDS LexerTokens, SourcePrinter

MCBlanks   == {"tab", "_"}
MCMarks    == {"(", ")", "<", ">", "[", "]", ".", "="}
MCUppers   == {"A"}
MCLowers   == {"l"}
MCDigits   == {"1"}
MCQuotes   == {"'", "\""}
MCControls == {"tab", "nul"}
MCListWord == <<"l", "l">>
MCIndentSteps == [d \in BOOLEAN |-> IF d THEN <<".", "_">> ELSE <<"_", "_">>]

TextsOf(cs, max) == UNION {[1 .. n -> cs] : n \in 0 .. max}

LineChars == {"tab", "newline", "A", "'", "#", "backslash"}
AnyChars  == LineChars \cup {"nul", "(", "l", "1", "\""}
MCTexts   == TextsOf(AnyChars, 4) \cup TextsOf(LineChars, 5)

Strs == LiteralStrs(TextsOf({"'", "\"", "backslash", "#", "nul", ")"}, 3))
ShortStrs == {s \in Strs : Len(s) <= 1}

A == <<"A">>

(* A(..) and A(.ll = ..), of a literal or a list with two elements;        *)
(* A(.l = A(..) .ll = '..').                                               *)
MCTrees ==
  {Of(A, <<>>), Of(A, <<ArgOf(MCListWord, ListV(A, <<>>))>>)}
  \cup {OfLit(A, s) : s \in Strs}
  \cup {Of(A, <<ArgOf(MCListWord, LitV(s))>>) : s \in Strs}
  \cup {Of(A, <<ArgOf(<<"l">>, ListV(A, <<El(<<"1">>, OfLit(A, s)),
                                         El(<<"1", "1">>, Of(A, <<>>))>>))>>) : s \in Strs}
  \cup {Of(A, <<ArgOf(<<"l">>, NodeV(Of(A, <<ArgOf(<<"l">>, LitV(s))>>))),
                ArgOf(MCListWord, LitV(t))>>) : s \in ShortStrs, t \in ShortStrs}

(* Nothing typed, and only A('..') or A(".."): what the printer says of it.*)
NoTexts     == {}
QuotedTrees == {OfLit(A, s) : s \in LiteralStrs(TextsOf({"'", "\"", "l"}, 3))}
=============================================================================
