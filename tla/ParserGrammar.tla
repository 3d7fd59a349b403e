---------------------------- MODULE ParserGrammar ---------------------------
(***************************************************************************)
(* What the parser should do: accept the language of the grammar that      *)
(* doc/c++py-tree.txt gives in section 4, and build the tree that the input*)
(* says.  The grammar is data here, and a sentence is derived from it      *)
(* without looking at how the parser works.                                *)
(***************************************************************************)
EXTENDS Parser

(* Each symbol with its alternatives; x_star is any number of x.           *)
Grammar ==
  [ tree       |-> {<<"tree_node">>},
    tree_node  |-> {<<"node_name", "(", "node_args", ")">>},
    node_name  |-> {<<"IDENT">>},
    node_args  |-> {<<"node_arg_star">>, <<"literal">>},
    node_arg_star |-> {<<>>, <<"node_arg", "node_arg_star">>},
    node_arg   |-> {<<".", "arg_name", "=", "arg_value">>},
    arg_name   |-> {<<"NAME">>},
    arg_value  |-> {<<"tree_node">>, <<"literal">>,
                    <<"list", "<", "node_name", ">", "[", "list_elem_star", "]">>},
    list_elem_star |-> {<<>>, <<"list_elem", "list_elem_star">>},
    list_elem  |-> {<<"[", "NUM", "]", "=", "tree_node">>},
    literal    |-> {<<"STR">>} ]

Input == <<"tree", EOS>>

(* The lexemes of each terminal; NAME has the word `list' too.             *)
Lex(terminal) ==
  CASE terminal = "IDENT" -> Idents
    [] terminal = "NAME"  -> Names \cup {"list"}
    [] terminal = "STR"   -> Strs
    [] terminal = "NUM"   -> Nums
    [] OTHER              -> {terminal}

(* What the forms can become when the first symbol of each is replaced, if *)
(* it has alternatives.                                                    *)
Replaced(forms) ==
  UNION {IF form # <<>> /\ Head(form) \in DOMAIN Grammar
           THEN {rhs \o Tail(form) : rhs \in Grammar[Head(form)]}
           ELSE {form} : form \in forms}

(* Three times, and each begins with a terminal or nothing is left of it.  *)
Expand(form) == Replaced(Replaced(Replaced({form})))

(* What may follow when the next lexeme is lex, and before it the forms.   *)
Follow(forms, lex) ==
  UNION {Expand(Tail(form)) : form \in {f \in forms : f # <<>> /\ lex \in Lex(Head(f))}}

(* What may still follow s, as forms: none if no sentence begins with s,   *)
(* the empty one among them if s is a sentence.                            *)
Rest(s) ==
  LET after[i \in 0 .. Len(s)] ==
        IF i = 0 THEN Expand(Input) ELSE Follow(after[i - 1], s[i])
  IN  after[Len(s)]

IsSentence(s) == <<>> \in Rest(s)
BeginsSentence(s) == Rest(s) # {}

(* The lexemes a part of a node stands for, when said[i] are those of the  *)
(* node i, and those of parts one after another.                           *)
PartSaid(said, part) == IF IsNode(part) THEN said[part.node] ELSE <<part.text>>

AllSaid(said, parts) == FlattenSeq([k \in DOMAIN parts |-> PartSaid(said, parts[k])])

NodeSaid(said, x) ==
  LET part(k) == PartSaid(said, x.parts[k])
  IN  CASE x.kind = "TreeNode" -> part(1) \o <<"(">> \o part(2) \o <<")">>
        [] x.kind = "NodeArg"  -> <<".">> \o part(1) \o <<"=">> \o part(2)
        [] x.kind = "ListElem" -> <<"[">> \o part(1) \o <<"]", "=">> \o part(2)
        [] x.kind = "NodeList" -> <<"list", "<">> \o part(1) \o <<">", "[">>
                                  \o AllSaid(said, Tail(x.parts)) \o <<"]">>
        [] OTHER -> AllSaid(said, x.parts)

(* The lexemes the first n nodes of the AST stand for; a node has only     *)
(* older ones for its parts.                                               *)
Spelled(n) == LET spell[i \in 1 .. n] == NodeSaid(spell, nodes[i]) IN spell

-----------------------------------------------------------------------------
(* The parser accepts nothing but sentences of the documented grammar,     *)
(* read to their end (Parser::parse).                                      *)
AcceptsGrammar == outcome = "parsed" => IsSentence(read)

(* A syntax error is only reported for an input that is no sentence, and at*)
(* the first lexeme that no sentence goes on with: up to the lookahead     *)
(* everything read is right.  So the one token of lookahead and the context*)
(* of the word `list' are enough, and the position of an error is exact.   *)
ErrorsAreExact ==
  /\ outcome = "syntax" => ~BeginsSentence(read)
  /\ read # <<>> => BeginsSentence(Front(read))

(* The AST says all of the input and nothing else, in its order: texts are *)
(* taken from prev_tok before next_token overwrites it, and the elements of*)
(* loops stay in order.                                                    *)
AstSaysInput ==
  outcome = "parsed" => Spelled(Len(nodes))[root] \o <<EOS>> = read

=============================================================================
