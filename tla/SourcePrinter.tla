--------------------------- MODULE SourcePrinter ----------------------------
(***************************************************************************)
(* The source printer of tree expressions (class SourcePrinter of          *)
(* src/tree/printer.cpp, functions pretty_print and terse_print), and the  *)
(* lexer that reads again what was printed: `tree -P | tree'; it reads what*)
(* was typed as well, by its own specification.                            *)
(*                                                                         *)
(* A tree is the AST of the parser (see TreeExprs), with sequences of      *)
(* characters for names, literals and indices.                             *)
(*                                                                         *)
(* (A _slip definition is the next one with a mistake: see PoolAllocator.) *)
(***************************************************************************)
EXTENDS Lexer, TreeExprs, SequencesExt

CONSTANTS
  Trees,    (* the trees that are printed                                  *)
  Nul,      (* the character that ends a C string                          *)
  Space,    (* the blank that is printed                                   *)
  IndentSteps  (* what a level of indentation is, without and with dots    *)

ASSUME PrinterAssumption ==
  /\ {"(", ")", "<", ">", "[", "]", ".", "="} = Marks
  /\ "'" \in Quotes /\ Nul \in Controls /\ Space \in Blanks
  /\ IndentSteps \in [BOOLEAN -> Seq(Blanks \cup {"."})]

VARIABLES
  tree,     (* the tree that was printed; NoTree when the text was typed   *)
  pretty,   (* the argument of the constructor: pretty or terse            *)
  dots      (* the option indent_dots                                      *)

sourceVars == <<vars, tree, pretty, dots>>

NoTree  == [is |-> "none"]
Printed == tree # NoTree

-----------------------------------------------------------------------------
(* What scan_literal accepts between two quotes q.                         *)
IsRaw(s, q) ==
  LET escaped[i \in 1 .. Len(s) + 1] ==
        i > 1 /\ s[i - 1] = Backslash /\ ~escaped[i - 1]
  IN  /\ ~escaped[Len(s) + 1]
      /\ \A i \in DOMAIN s :
           IF escaped[i] THEN s[i] # NL ELSE s[i] \notin NonPlain \cup {q}

(* prev_tok.lex is a copy of a C string: it ends before a NUL.             *)
CString(s) == SubSeq(s, 1, Min({i - 1 : i \in {j \in DOMAIN s : s[j] = Nul}} \cup {Len(s)}))

(* The strs of the Literals that the parser makes, of texts from `raws'.   *)
LiteralStrs(raws) == {CString(s) : s \in {r \in raws : \E q \in Quotes : IsRaw(r, q)}}

-----------------------------------------------------------------------------
RECURSIVE PrintNode(_, _)

Mark(c)       == <<c>>
Wide(c)       == IF pretty THEN <<Space, c, Space>> ELSE <<c>>
Endl(level)   == <<NL>> \o FlattenSeq([i \in 1 .. level |-> IndentSteps[dots]])

\* slip: the last line break is at the level of the list
Lines_slip(texts, level) ==
  IF ~pretty \/ texts = <<>> THEN FlattenSeq(texts)
  ELSE FlattenSeq([i \in DOMAIN texts |-> Endl(level + 1) \o texts[i]]) \o Endl(level + 1)

(* SourcePrinter::print of a list: each on a line of its own, one level in.*)
Lines(texts, level) ==
  IF ~pretty \/ texts = <<>> THEN FlattenSeq(texts)
  ELSE FlattenSeq([i \in DOMAIN texts |-> Endl(level + 1) \o texts[i]]) \o Endl(level)

\* slip: the second apostrophe is missing
PrintLiteral_slip(literal) == Mark("'") \o literal.str

PrintLiteral(literal) == Mark("'") \o literal.str \o Mark("'")

PrintElem(elem, level) ==
  Mark("[") \o elem.index \o Mark("]") \o Wide("=") \o PrintNode(elem.node, level)

PrintElems(list, level) ==
  ListWord \o Mark("<") \o list.base
    \o (IF pretty THEN <<">", Space, "[">> ELSE <<">", "[">>)
    \o Lines([k \in DOMAIN list.elems |-> PrintElem(list.elems[k], level + 1)], level)
    \o Mark("]")

PrintArg(arg, level) ==
  Mark(".") \o arg.name \o Wide("=")
    \o CASE arg.value.is = "NodeValue"    -> PrintNode(arg.value.node, level)
         [] arg.value.is = "ListValue"    -> PrintElems(arg.value.list, level)
         [] arg.value.is = "LiteralValue" -> PrintLiteral(arg.value.literal)

PrintArgs(args, level) ==
  CASE args.is = "LiteralArgs" -> PrintLiteral(args.literal)
    [] args.is = "ListArgs" ->
         Lines([k \in DOMAIN args.list |-> PrintArg(args.list[k], level + 1)], level)

(* The visits of class SourcePrinter, for the node and what is below it.   *)
PrintNode(node, level) ==
  node.name \o Mark("(") \o PrintArgs(node.args, level) \o Mark(")")

-----------------------------------------------------------------------------
PrintInit ==
  /\ tree \in Trees /\ pretty \in BOOLEAN /\ dots \in BOOLEAN
  /\ input = <<>> /\ nle = FALSE /\ debug = FALSE
  /\ ptr = 1 /\ pos = Start /\ toks = <<>> /\ scan = 0
  /\ error = NoError /\ shown = NoLine /\ phase = "print"

TypedInit == Init /\ tree = NoTree /\ pretty = FALSE /\ dots = FALSE

(* print(ast) ends the line; the parser that reads it takes that off.      *)
PrintAst ==
  /\ phase = "print"
  /\ input' = PrintNode(tree, 0) /\ nle' = TRUE
  /\ phase' = "parser"
  /\ UNCHANGED <<debug, ptr, pos, toks, scan, error, shown, tree, pretty, dots>>

(* The parser asks for the tokens; what was printed it asks for all of.    *)
ReadText ==
  /\ Next
  /\ Printed => error'.why # "token"
  /\ UNCHANGED <<tree, pretty, dots>>

SourceNext == PrintAst \/ ReadText

SourceSpec == (PrintInit \/ TypedInit) /\ [][SourceNext]_sourceVars /\ WF_sourceVars(SourceNext)

-----------------------------------------------------------------------------
(* The lexemes of a tree, whatever way it is written.                      *)
RECURSIVE NodeLexemes(_)
Marked(cs) == [i \in DOMAIN cs |-> <<"mark", <<cs[i]>>>>]
LiteralLexemes(literal) == <<<<"str", literal.str>>>>
ValueLexemes(value) ==
  CASE value.is = "NodeValue"    -> NodeLexemes(value.node)
    [] value.is = "LiteralValue" -> LiteralLexemes(value.literal)
    [] value.is = "ListValue"    ->
         <<<<"word", ListWord>>>> \o Marked(<<"<">>) \o <<<<"word", value.list.base>>>>
           \o Marked(<<">", "[">>)
           \o FlattenSeq([k \in DOMAIN value.list.elems |->
                Marked(<<"[">>) \o <<<<"num", value.list.elems[k].index>>>>
                  \o Marked(<<"]", "=">>) \o NodeLexemes(value.list.elems[k].node)])
           \o Marked(<<"]">>)
NodeLexemes(node) ==
  <<<<"word", node.name>>>> \o Marked(<<"(">>)
    \o (IF node.args.is = "LiteralArgs" THEN LiteralLexemes(node.args.literal)
        ELSE FlattenSeq([k \in DOMAIN node.args.list |->
               Marked(<<".">>) \o <<<<"word", node.args.list[k].name>>>>
                 \o Marked(<<"=">>) \o ValueLexemes(node.args.list[k].value)]))
    \o Marked(<<")">>)

(* Those of the tokens read.                                               *)
KindOf(type) == IF type \in {"ident", "name", "kw_list"} THEN "word" ELSE type
LexemesRead ==
  [k \in 1 .. Len(toks) - 1 |->
     <<KindOf(toks[k].type), SubSeq(input, toks[k].beg, toks[k].end - 1)>>]

Ended    == phase \in {"done", "thrown", "aborted"}
SaysTree == phase = "done" /\ LexemesRead = NodeLexemes(tree)

(* The literals that scan_literal would not take between apostrophes.      *)
Unquotable ==
  {k \in DOMAIN NodeLexemes(tree) :
     NodeLexemes(tree)[k][1] = "str" /\ ~IsRaw(NodeLexemes(tree)[k][2], "'")}

(* Only the arguments and the elements of a tree are on lines of their own.*)
IsBroken == tree.args.is = "ListArgs" /\ tree.args.list # <<>>

(* What is printed, pretty or terse, is read as the lexemes of the tree, so*)
(* `tree -P' and `tree -T' can be given their own output again, whatever   *)
(* the nesting and the literals; as far as these can stand between         *)
(* apostrophes, and where no line is indented with dots (-i).              *)
ReadsBack ==
  Printed /\ Ended /\ Unquotable = {} /\ ~(pretty /\ dots /\ IsBroken) => SaysTree

(* doc/c++py-tree.txt:708-711 says it of all input: `the class produces an *)
(* output which is identical with the input modulo some indenting          *)
(* whitespace chars'.  This asks less of that: only the same lexemes, by   *)
(* whatever quotes.  But SourcePrinter prints each literal between         *)
(* apostrophes as it is, also one that was written between double quotes   *)
(* around an apostrophe: D("it's") is printed as D('it's').                *)
PrettySaysInput == Printed /\ pretty /\ ~dots /\ Ended => SaysTree

(* The tokens j and k are a bracket and the one that closes it.           *)
Brackets(cs, j, k) == Cardinality({i \in j .. k : input[toks[i].beg] \in cs /\ toks[i].type = "mark"})
Encloses(j, k) ==
  /\ Brackets({"(", "["}, j, j) = 1 /\ Brackets({")", "]"}, k, k) = 1
  /\ Brackets({"(", "["}, j, k) = Brackets({")", "]"}, j, k)
  /\ \A i \in j .. k - 1 : Brackets({"(", "["}, j, i) > Brackets({")", "]"}, j, i)
LineBegin(line) == Min({toks[i].pos.col : i \in {n \in DOMAIN toks : toks[n].pos.line = line}})

(* The levels of nested lists are kept right: terse output has no space    *)
(* between its tokens; in pretty output a bracket that is closed on a later*)
(* line is closed where the line with the bracket begins.                  *)
LayoutFollowsLevels ==
  Printed /\ SaysTree =>
    IF ~pretty THEN \A k \in 2 .. Len(toks) : First(toks[k]) = Behind(toks[k - 1])
    ELSE \A j, k \in 1 .. Len(toks) - 1 :
           Encloses(j, k) /\ toks[j].pos.line < toks[k].pos.line =>
             toks[k].pos.col = LineBegin(toks[j].pos.line)
=============================================================================
