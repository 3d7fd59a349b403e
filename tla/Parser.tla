------------------------------- MODULE Parser -------------------------------
(***************************************************************************)
(* The parser of tree expressions (src/tree/parser.cpp and parser.hpp, on  *)
(* src/grammar/parser-base): recursive descent with one token of           *)
(* lookahead, which makes the nodes of the tree AST as it goes.            *)
(*                                                                         *)
(* The call stack of the parse_<symbol> functions is the sequence `todo' of*)
(* what they have still to do, the next first; the nodes and the texts that*)
(* are in their local variables are `vals', the newest last.               *)
(* The input is a sequence of lexemes, chosen one by one as next_token     *)
(* reads them; how characters make lexemes is left out, except for the word*)
(* `list', whose token depends on what the parser is doing.                *)
(*                                                                         *)
(* (A _slip definition is the next one with a mistake: see PoolAllocator.) *)
(***************************************************************************)
EXTENDS Integers, SequencesExt

CONSTANTS
  Idents, Names, Strs, Nums,  (* lexemes that make a token of each type    *)
  BigNums,    (* those of Nums that are no list_elem_idx_t                 *)
  MaxLexemes, (* the longest input                                         *)
  MaxNodes    (* nodes that fit the AST                                    *)

Marks == {"(", ")", "[", "]", "<", ">", ".", "="}
EOS == "EOS"   \* the end of the input
Bad == "bad"   \* characters that make no token: a stray one, an open literal

Lexemes == Marks \cup Idents \cup Names \cup Strs \cup Nums \cup {"list", EOS, Bad}

ASSUME LexemeAssumption ==
  /\ Idents \cap (Names \cup Strs \cup Nums) = {}
  /\ Names \cap (Strs \cup Nums) = {}
  /\ Strs \cap Nums = {}
  /\ (Idents \cup Names \cup Strs \cup Nums) \cap (Marks \cup {"list", EOS, Bad}) = {}
  /\ BigNums \subseteq Nums
  /\ MaxLexemes \in Nat /\ MaxNodes \in Nat

VARIABLES
  read,      (* the lexemes next_token has taken from the input            *)
  tok, prev, (* tok and prev_tok: [type, lex]                              *)
  arg_ctxt,  (* whether `list' is read as a name                           *)
  todo, vals,
  nodes,     (* the nodes of the AST, oldest first: [kind, parts]          *)
  root,      (* the node given to root_node; 0 before                      *)
  outcome    (* "running", "parsed", or the error thrown                   *)

vars == <<read, tok, prev, arg_ctxt, todo, vals, nodes, root, outcome>>

Errors == {"syntax", "index", "alloc"}

-----------------------------------------------------------------------------
(* Work items.                                                             *)
Do(what, arg, n) == [do |-> what, arg |-> arg, n |-> n]

Parse(symbol) == Do("parse", symbol, 0)  \* call parse_<symbol>
Need(type)    == Do("need", type, 0)     \* need_token
New(class, n) == Do("new", class, n)     \* new_<class> of the last n vals
Loop(sym, n)  == Do("loop", sym, n)      \* a while loop; n turns made
Text          == Do("text", "", 0)       \* take prev_tok.lex
Index         == Do("index", "", 0)      \* list_elem_idx of it
LeaveCtxt     == Do("leave", "", 0)      \* arg_ctxt = false
Begin         == Do("begin", "", 0)      \* the first next_token
Root          == Do("root", "", 0)       \* root_node
Finish        == Do("finish", "", 0)     \* need_token(eos, false)

(* The values: a node by its place in `nodes', or a text.                  *)
NodeAt(i)  == [node |-> i]
TextOf(l)  == [text |-> l]
IsNode(v)  == "node" \in DOMAIN v

Running(what) == outcome = "running" /\ todo # <<>> /\ Head(todo).do = what
Calling(symbol) == Running("parse") /\ Head(todo).arg = symbol
Peek(types) == tok.type \in types   \* peek_token

Go(items) == todo' = items \o Tail(todo)

(* An exception leaves every function; each guard of arg_ctxt resets it.   *)
Throw(error) ==
  /\ outcome' = error
  /\ todo' = <<>>
  /\ arg_ctxt' = FALSE

-----------------------------------------------------------------------------
(* next_token: after the end of the input there is only its end again.     *)
Offered ==
  CASE EOS \in {read[i] : i \in DOMAIN read} -> {EOS}
    [] EOS \notin {read[i] : i \in DOMAIN read} /\ Len(read) >= MaxLexemes -> {EOS}
    [] OTHER -> Lexemes

TypeOf(lex) ==
  CASE lex \in Marks  -> lex
    [] lex \in Idents -> "ident"
    [] lex \in Names  -> "name"
    [] lex \in Strs   -> "str"
    [] lex \in Nums   -> "num"
    [] lex = "list"   -> IF arg_ctxt THEN "name" ELSE "kw_list"
    [] lex = EOS      -> "eos"

(* Takes a lexeme and, if it makes a token, goes on with `items'.          *)
NextToken(items) ==
  \E lex \in Offered :
    /\ read' = Append(read, lex)
    /\ IF lex = Bad
         THEN /\ Throw("syntax")
              /\ UNCHANGED tok
         ELSE /\ tok' = [type |-> TypeOf(lex), lex |-> lex]
              /\ Go(items)
              /\ UNCHANGED <<arg_ctxt, outcome>>

Bos == [type |-> "bos", lex |-> "none"]

Init ==
  /\ read = <<>> /\ tok = Bos /\ prev = Bos /\ arg_ctxt = FALSE
  /\ todo = <<Begin, Parse("tree"), Root, Finish>>
  /\ vals = <<>> /\ nodes = <<>> /\ root = 0 /\ outcome = "running"

BeginParse ==
  /\ Running("begin")
  /\ NextToken(<<>>)
  /\ UNCHANGED <<prev, vals, nodes, root>>

NeedToken ==
  /\ Running("need")
  /\ IF Peek({Head(todo).arg})
       THEN prev' = tok /\ NextToken(<<>>)
       ELSE Throw("syntax") /\ UNCHANGED <<read, tok, prev>>
  /\ UNCHANGED <<vals, nodes, root>>

-----------------------------------------------------------------------------
(* The functions without a choice: what each does, in order.               *)
Body(symbol) ==
  CASE symbol = "tree"      -> <<Parse("tree_node"), New("Tree", 1)>>
    [] symbol = "tree_node" -> <<Parse("node_name"), Need("("), Parse("node_args"),
                                 Need(")"), New("TreeNode", 2)>>
    [] symbol = "node_name" -> <<Need("ident"), Text, New("NodeName", 1)>>
    [] symbol = "node_arg"  -> <<Need("."), LeaveCtxt, Parse("arg_name"), Need("="),
                                 Parse("arg_value"), New("NodeArg", 2), LeaveCtxt>>
    [] symbol = "arg_name"  -> <<Need("name"), Text, New("ArgName", 1)>>
    [] symbol = "list_elem" -> <<Need("["), Need("num"), Index, Need("]"), Need("="),
                                 Parse("tree_node"), New("ListElem", 2)>>
    [] symbol = "literal"   -> <<Need("str"), Text, New("Literal", 1)>>

(* parse_node_arg reads its name with arg_ctxt set, by a guard.            *)
Call ==
  /\ Running("parse")
  /\ ~Calling("node_args") /\ ~Calling("arg_value")
  /\ Go(Body(Head(todo).arg))
  /\ arg_ctxt' = (arg_ctxt \/ Calling("node_arg"))
  /\ UNCHANGED <<read, tok, prev, vals, nodes, root, outcome>>

(* parse_node_args: the lookahead decides.                                 *)
NodeArgs ==
  /\ Calling("node_args")
  /\ \/ /\ Peek({")", "."})
        /\ Go(<<Loop("node_arg", 0)>>)
        /\ UNCHANGED <<arg_ctxt, outcome>>
     \/ /\ Peek({"str"})
        /\ Go(<<Parse("literal"), New("LiteralArgs", 1)>>)
        /\ UNCHANGED <<arg_ctxt, outcome>>
     \/ /\ ~Peek({")", ".", "str"})
        /\ Throw("syntax")
  /\ UNCHANGED <<read, tok, prev, vals, nodes, root>>

(* parse_arg_value; try_token(kw_list) is a look and then a need_token.    *)
ArgValue ==
  /\ Calling("arg_value")
  /\ \/ /\ Peek({"ident"})
        /\ Go(<<Parse("tree_node"), New("NodeValue", 1)>>)
        /\ UNCHANGED <<arg_ctxt, outcome>>
     \/ /\ Peek({"kw_list"})
        /\ Go(<<Need("kw_list"), Need("<"), Parse("node_name"), Need(">"),
                Need("["), Loop("list_elem", 0)>>)
        /\ UNCHANGED <<arg_ctxt, outcome>>
     \/ /\ Peek({"str"})
        /\ Go(<<Parse("literal"), New("LiteralValue", 1)>>)
        /\ UNCHANGED <<arg_ctxt, outcome>>
     \/ /\ ~Peek({"ident", "kw_list", "str"})
        /\ Throw("syntax")
  /\ UNCHANGED <<read, tok, prev, vals, nodes, root>>

Opens(symbol) == IF symbol = "node_arg" THEN "." ELSE "["

AfterLoop(symbol, n) ==
  IF symbol = "node_arg"
    THEN <<New("ListArgs", n)>>
    ELSE <<Need("]"), New("NodeList", n + 1), New("ListValue", 1)>>

\* slip: the last turn is not counted
TurnLoop_slip ==
  /\ Running("loop")
  /\ LET symbol == Head(todo).arg
         n == Head(todo).n
     IN  Go(IF Peek({Opens(symbol)})
              THEN <<Parse(symbol), Loop(symbol, IF n = 0 THEN 1 ELSE n)>>
              ELSE AfterLoop(symbol, n))
  /\ UNCHANGED <<read, tok, prev, arg_ctxt, vals, nodes, root, outcome>>

\* slip: the end of the input does not end the loop
TurnLoop_forever_slip ==
  /\ Running("loop")
  /\ LET symbol == Head(todo).arg
         n == Head(todo).n
     IN  Go(IF Peek({Opens(symbol)})
              THEN <<Parse(symbol), Loop(symbol, n + 1)>>
              ELSE IF Peek({"eos"}) THEN <<Loop(symbol, n)>>
              ELSE AfterLoop(symbol, n))
  /\ UNCHANGED <<read, tok, prev, arg_ctxt, vals, nodes, root, outcome>>

(* The loops of parse_node_args and parse_arg_value, a turn at a time.     *)
TurnLoop ==
  /\ Running("loop")
  /\ LET symbol == Head(todo).arg
         n == Head(todo).n
     IN  Go(IF Peek({Opens(symbol)})
              THEN <<Parse(symbol), Loop(symbol, n + 1)>>
              ELSE AfterLoop(symbol, n))
  /\ UNCHANGED <<read, tok, prev, arg_ctxt, vals, nodes, root, outcome>>

\* slip: the guard ends with the function only
LeaveArgCtxt_slip ==
  /\ Running("leave")
  /\ arg_ctxt' = (todo[2] = Parse("arg_name"))
  /\ Go(<<>>)
  /\ UNCHANGED <<read, tok, prev, vals, nodes, root, outcome>>

(* `arg_ctxt = false' as soon as the name is the lookahead, and the        *)
(* destructor of the guard.                                                *)
LeaveArgCtxt ==
  /\ Running("leave")
  /\ arg_ctxt' = FALSE
  /\ Go(<<>>)
  /\ UNCHANGED <<read, tok, prev, vals, nodes, root, outcome>>

-----------------------------------------------------------------------------
\* slip: the text of the lookahead
TakeText_slip ==
  /\ Running("text")
  /\ vals' = Append(vals, TextOf(tok.lex))
  /\ Go(<<>>)
  /\ UNCHANGED <<read, tok, prev, arg_ctxt, nodes, root, outcome>>

TakeText ==
  /\ Running("text")
  /\ vals' = Append(vals, TextOf(prev.lex))
  /\ Go(<<>>)
  /\ UNCHANGED <<read, tok, prev, arg_ctxt, nodes, root, outcome>>

TakeIndex ==
  /\ Running("index")
  /\ IF prev.lex \in BigNums
       THEN Throw("index") /\ UNCHANGED vals
       ELSE /\ vals' = Append(vals, TextOf(prev.lex))
            /\ Go(<<>>)
            /\ UNCHANGED <<arg_ctxt, outcome>>
  /\ UNCHANGED <<read, tok, prev, nodes, root>>

(* new_<class>: the newest values become parts of a new node, or the pools *)
(* of the AST are full.                                                    *)
NewNode ==
  /\ Running("new")
  /\ LET n == Head(todo).n
     IN  IF Len(nodes) >= MaxNodes
           THEN Throw("alloc") /\ UNCHANGED <<nodes, vals>>
           ELSE /\ nodes' = Append(nodes,
                     [kind |-> Head(todo).arg,
                      parts |-> SubSeq(vals, Len(vals) - n + 1, Len(vals))])
                /\ vals' = Append(SubSeq(vals, 1, Len(vals) - n), NodeAt(Len(nodes) + 1))
                /\ Go(<<>>)
                /\ UNCHANGED <<arg_ctxt, outcome>>
  /\ UNCHANGED <<read, tok, prev, root>>

SetRoot ==
  /\ Running("root")
  /\ root' = vals[Len(vals)].node
  /\ vals' = SubSeq(vals, 1, Len(vals) - 1)
  /\ Go(<<>>)
  /\ UNCHANGED <<read, tok, prev, arg_ctxt, nodes, outcome>>

\* slip: whatever follows the tree is ignored
FinishParse_slip ==
  /\ Running("finish")
  /\ outcome' = "parsed" /\ todo' = <<>> /\ UNCHANGED arg_ctxt
  /\ UNCHANGED <<read, tok, prev, vals, nodes, root>>

\* slip: the end of the input is eaten
FinishParse_eat_slip ==
  /\ Running("finish")
  /\ IF Peek({"eos"})
       THEN /\ prev' = tok /\ read' = Append(read, EOS)
            /\ outcome' = "parsed" /\ todo' = <<>> /\ UNCHANGED <<tok, arg_ctxt>>
       ELSE Throw("syntax") /\ UNCHANGED <<read, tok, prev>>
  /\ UNCHANGED <<vals, nodes, root>>

(* The end of the input must be next; it is not eaten.                     *)
FinishParse ==
  /\ Running("finish")
  /\ IF Peek({"eos"})
       THEN outcome' = "parsed" /\ todo' = <<>> /\ UNCHANGED arg_ctxt
       ELSE Throw("syntax")
  /\ UNCHANGED <<read, tok, prev, vals, nodes, root>>

Next ==
  \/ BeginParse \/ NeedToken \/ Call \/ NodeArgs \/ ArgValue \/ TurnLoop
  \/ LeaveArgCtxt \/ TakeText \/ TakeIndex \/ NewNode \/ SetRoot \/ FinishParse

(* One thread runs the parser, and nothing makes it wait.                  *)
Spec == Init /\ [][Next]_vars /\ WF_vars(Next)

-----------------------------------------------------------------------------
Values == [node : 1 .. Len(nodes)] \cup [text : Lexemes]

(* Type invariant; arg_ctxt is reset however the parse ends.               *)
TypeOK ==
  /\ read \in Seq(Lexemes)
  /\ tok.lex \in Lexemes \cup {"none"} /\ prev.lex \in Lexemes \cup {"none"}
  /\ arg_ctxt \in BOOLEAN
  /\ arg_ctxt => outcome = "running"
  /\ vals \in Seq(Values)
  /\ \A i \in DOMAIN nodes : nodes[i].parts \in Seq(Values)
  /\ root \in 0 .. Len(nodes)
  /\ outcome \in {"running", "parsed"} \cup Errors

(* Where the i-th node is a part of another: that node, and which part.    *)
PlacesOf(i) ==
  {p \in UNION {{j} \X DOMAIN nodes[j].parts : j \in DOMAIN nodes} :
     nodes[p[1]].parts[p[2]] = NodeAt(i)}

(* No node is lost and none is shared: when the parser is done every node  *)
(* but the root is part of exactly one other, and nothing is left over in  *)
(* the functions' variables.                                               *)
AstIsTree ==
  outcome = "parsed" =>
    /\ vals = <<>>
    /\ \A i \in DOMAIN nodes : Cardinality(PlacesOf(i)) = IF i = root THEN 0 ELSE 1

(* next_token is never called again once it has met the end of the input:  *)
(* the debug build leaves input_ptr beyond the end there (skip_spaces), and*)
(* a further call would search from it.                                    *)
StopsAtEnd == \A i \in 1 .. Len(read) - 1 : read[i] # EOS

(* The parser's own state is right at every step: typed, the flag reset    *)
(* however the parse ends, and no token asked for after the end.           *)
StateIsSound == TypeOK /\ StopsAtEnd

(* Every parse ends, accepted or refused.                                  *)
Terminates == <>(outcome # "running")
=============================================================================
