---------------------------- MODULE CxxpyLibrary ----------------------------
(***************************************************************************)
(* The AST type library cxxpy (src/tree/cxxpy), the subset of Python that  *)
(* the program is named for.  Its node classes are written down four times,*)
(* in tables that nothing compares: as C++ classes, as the type definitions*)
(* that the evaluator checks a tree with, as the makers that call the C++  *)
(* constructors on what the evaluator has checked, and as the visits that  *)
(* print an AST.                                                           *)
(* (A _slip definition is the next one with a mistake: see PoolAllocator.) *)
(***************************************************************************)
EXTENDS NodeClasses, TLC

-----------------------------------------------------------------------------
(* ast.hpp: the C++ classes, with the base and the fields of each.  The    *)
(* constructor, and the new_<class> function that calls it, take the fields*)
(* in this order.                                                          *)
AtomClasses ==
  [ Node        |-> Class("none", <<>>),
    Ident       |-> Class("Node", <<StrField("ident")>>),
    Str         |-> Class("Node", <<StrField("str")>>),
    Expr        |-> Class("Node", <<>>),
    PrimaryExpr |-> Class("Expr", <<>>),
    IdentExpr   |-> Class("PrimaryExpr", <<NodeField("ident", "Ident")>>),
    StrExpr     |-> Class("PrimaryExpr", <<NodeField("str", "Str")>>),
    ParenExpr   |-> Class("PrimaryExpr", <<NodeField("expr", "Expr")>>),
    DictExpr    |-> Class("PrimaryExpr", <<>>) ]

TrailerClasses ==
  [ EmptyDictExpr    |-> Class("DictExpr", <<>>),
    KeyDatumDictExpr |-> Class("DictExpr", <<NodeField("key_datums", "KeyDatumList")>>),
    KeyDatum         |-> Class("Node", <<NodeField("expr1", "Expr"),
                                         NodeField("expr2", "Expr")>>),
    KeyDatumList     |-> Class("Node", <<ListField("list", "KeyDatum")>>),
    AttrRef          |-> Class("PrimaryExpr", <<NodeField("expr", "PrimaryExpr"),
                                                NodeField("ident", "IdentExpr")>>),
    CallArg          |-> Class("Node", <<NodeField("expr", "Expr")>>),
    CallArgList      |-> Class("Node", <<ListField("list", "CallArg")>>),
    CallExpr         |-> Class("PrimaryExpr", <<>>),
    EmptyCallExpr    |-> Class("CallExpr", <<NodeField("expr", "PrimaryExpr")>>),
    ArgsCallExpr     |-> Class("CallExpr", <<NodeField("expr", "PrimaryExpr"),
                                             NodeField("args", "CallArgList")>>) ]

TestClasses ==
  [ OrTest      |-> Class("Expr", <<NodeField("expr1", "Expr"),
                                    NodeField("expr2", "Expr")>>),
    AndTest     |-> Class("Expr", <<NodeField("expr1", "Expr"),
                                    NodeField("expr2", "Expr")>>),
    NotTest     |-> Class("Expr", <<NodeField("expr", "Expr")>>),
    Comp        |-> Class("Node", <<ValField("op", "comp_op_t"),
                                    NodeField("prim", "PrimaryExpr")>>),
    CompExpr    |-> Class("Expr", <<NodeField("prim", "PrimaryExpr"),
                                    ListField("comps", "Comp")>>),
    Stmt        |-> Class("Node", <<>>),
    SimpleStmt  |-> Class("Stmt", <<>>),
    ExprStmt    |-> Class("SimpleStmt", <<NodeField("expr", "Expr")>>),
    AssertStmt  |-> Class("SimpleStmt", <<>>),
    AssertStmt1 |-> Class("AssertStmt", <<NodeField("expr1", "Expr")>>) ]

TargetClasses ==
  [ AssertStmt2   |-> Class("AssertStmt", <<NodeField("expr1", "Expr"),
                                            NodeField("expr2", "Expr")>>),
    Target        |-> Class("Node", <<>>),
    IdentTarget   |-> Class("Target", <<NodeField("ident", "IdentExpr")>>),
    AttrRefTarget |-> Class("Target", <<NodeField("attr", "AttrRef")>>),
    TargetList    |-> Class("Node", <<ListField("list", "Target")>>),
    AssignStmt    |-> Class("SimpleStmt", <<NodeField("targets", "TargetList"),
                                            NodeField("expr", "Expr")>>),
    DelStmt       |-> Class("SimpleStmt", <<NodeField("targets", "TargetList")>>),
    ExprList      |-> Class("Node", <<ListField("list", "Expr")>>),
    PrintStmt     |-> Class("SimpleStmt", <<NodeField("exprs", "ExprList"),
                                            ValField("trail_comma", "bool")>>) ]

InputClasses ==
  [ SimpleStmtList |-> Class("Stmt", <<ListField("list", "SimpleStmt")>>),
    StmtList       |-> Class("Stmt", <<ListField("list", "Stmt")>>),
    FileInput      |-> Class("Node", <<NodeField("stmts", "StmtList")>>),
    InteractInput  |-> Class("Node", <<NodeField("stmts", "SimpleStmtList")>>),
    EvalInput      |-> Class("Node", <<NodeField("expr", "Expr")>>),
    InputInput     |-> Class("Node", <<NodeField("expr", "Expr")>>) ]

CxxpyClasses == AtomClasses @@ TrailerClasses @@ TestClasses @@ TargetClasses @@ InputClasses

-----------------------------------------------------------------------------
(* cxxpy.cpp: the type definitions ast_def_t<class>, that the evaluator    *)
(* checks the arguments with: the base and the named arguments.            *)
AtomTypes ==
  [ Node        |-> Class("none", <<>>),
    Ident       |-> Class("Node", <<StrField("ident")>>),
    Str         |-> Class("Node", <<StrField("str")>>),
    Expr        |-> Class("Node", <<>>),
    PrimaryExpr |-> Class("Expr", <<>>),
    IdentExpr   |-> Class("PrimaryExpr", <<NodeField("ident", "Ident")>>),
    StrExpr     |-> Class("PrimaryExpr", <<NodeField("str", "Str")>>),
    ParenExpr   |-> Class("PrimaryExpr", <<NodeField("expr", "Expr")>>),
    DictExpr    |-> Class("PrimaryExpr", <<>>) ]

TrailerTypes ==
  [ EmptyDictExpr    |-> Class("DictExpr", <<>>),
    KeyDatumDictExpr |-> Class("DictExpr", <<NodeField("key_datums", "KeyDatumList")>>),
    KeyDatum         |-> Class("Node", <<NodeField("expr1", "Expr"),
                                         NodeField("expr2", "Expr")>>),
    KeyDatumList     |-> Class("Node", <<ListField("list", "KeyDatum")>>),
    AttrRef          |-> Class("PrimaryExpr", <<NodeField("expr", "PrimaryExpr"),
                                                NodeField("ident", "IdentExpr")>>),
    CallArg          |-> Class("Node", <<NodeField("expr", "Expr")>>),
    CallArgList      |-> Class("Node", <<ListField("list", "CallArg")>>),
    CallExpr         |-> Class("PrimaryExpr", <<>>),
    EmptyCallExpr    |-> Class("CallExpr", <<NodeField("expr", "PrimaryExpr")>>),
    ArgsCallExpr     |-> Class("CallExpr", <<NodeField("expr", "PrimaryExpr"),
                                             NodeField("args", "CallArgList")>>) ]

TestTypes ==
  [ OrTest      |-> Class("Expr", <<NodeField("expr1", "Expr"),
                                    NodeField("expr2", "Expr")>>),
    AndTest     |-> Class("Expr", <<NodeField("expr1", "Expr"),
                                    NodeField("expr2", "Expr")>>),
    NotTest     |-> Class("Expr", <<NodeField("expr", "Expr")>>),
    Comp        |-> Class("Node", <<ValField("op", "comp_op_t"),
                                    NodeField("prim", "PrimaryExpr")>>),
    CompExpr    |-> Class("Expr", <<NodeField("prim", "PrimaryExpr"),
                                    ListField("comps", "Comp")>>),
    Stmt        |-> Class("Node", <<>>),
    SimpleStmt  |-> Class("Stmt", <<>>),
    ExprStmt    |-> Class("SimpleStmt", <<NodeField("expr", "Expr")>>),
    AssertStmt  |-> Class("SimpleStmt", <<>>),
    AssertStmt1 |-> Class("AssertStmt", <<NodeField("expr1", "Expr")>>) ]

TargetTypes ==
  [ AssertStmt2   |-> Class("AssertStmt", <<NodeField("expr1", "Expr"),
                                            NodeField("expr2", "Expr")>>),
    Target        |-> Class("Node", <<>>),
    IdentTarget   |-> Class("Target", <<NodeField("ident", "IdentExpr")>>),
    AttrRefTarget |-> Class("Target", <<NodeField("attr", "AttrRef")>>),
    TargetList    |-> Class("Node", <<ListField("list", "Target")>>),
    AssignStmt    |-> Class("SimpleStmt", <<NodeField("targets", "TargetList"),
                                            NodeField("expr", "Expr")>>),
    DelStmt       |-> Class("SimpleStmt", <<NodeField("targets", "TargetList")>>),
    ExprList      |-> Class("Node", <<ListField("list", "Expr")>>),
    PrintStmt     |-> Class("SimpleStmt", <<NodeField("exprs", "ExprList"),
                                            ValField("trail_comma", "bool")>>) ]

InputTypes ==
  [ SimpleStmtList |-> Class("Stmt", <<ListField("list", "SimpleStmt")>>),
    StmtList       |-> Class("Stmt", <<ListField("list", "Stmt")>>),
    FileInput      |-> Class("Node", <<NodeField("stmts", "StmtList")>>),
    InteractInput  |-> Class("Node", <<NodeField("stmts", "SimpleStmtList")>>),
    EvalInput      |-> Class("Node", <<NodeField("expr", "Expr")>>),
    InputInput     |-> Class("Node", <<NodeField("expr", "Expr")>>) ]

CxxpyTypes == AtomTypes @@ TrailerTypes @@ TestTypes @@ TargetTypes @@ InputTypes

-----------------------------------------------------------------------------
(* cxxpy.cpp: NodeMaker::new_node<class>, that casts each argument found on*)
(* the stack to what is here, with no check, and calls new_<class>.        *)
AtomMakers ==
  [ Node        |-> <<>>,
    Ident       |-> <<StrParam>>,
    Str         |-> <<StrParam>>,
    Expr        |-> <<>>,
    PrimaryExpr |-> <<>>,
    IdentExpr   |-> <<NodeParam("Ident")>>,
    StrExpr     |-> <<NodeParam("Str")>>,
    ParenExpr   |-> <<NodeParam("Expr")>>,
    DictExpr    |-> <<>> ]

TrailerMakers ==
  [ EmptyDictExpr    |-> <<>>,
    KeyDatumDictExpr |-> <<NodeParam("KeyDatumList")>>,
    KeyDatum         |-> <<NodeParam("Expr"), NodeParam("Expr")>>,
    KeyDatumList     |-> <<ListParam("KeyDatum")>>,
    AttrRef          |-> <<NodeParam("PrimaryExpr"), NodeParam("IdentExpr")>>,
    CallArg          |-> <<NodeParam("Expr")>>,
    CallArgList      |-> <<ListParam("CallArg")>>,
    CallExpr         |-> <<>>,
    EmptyCallExpr    |-> <<NodeParam("PrimaryExpr")>>,
    ArgsCallExpr     |-> <<NodeParam("PrimaryExpr"),
                           NodeParam("CallArgList")>> ]

TestMakers ==
  [ OrTest      |-> <<NodeParam("Expr"), NodeParam("Expr")>>,
    AndTest     |-> <<NodeParam("Expr"), NodeParam("Expr")>>,
    NotTest     |-> <<NodeParam("Expr")>>,
    Comp        |-> <<ValParam("comp_op_t"), NodeParam("PrimaryExpr")>>,
    CompExpr    |-> <<NodeParam("PrimaryExpr"), ListParam("Comp")>>,
    Stmt        |-> <<>>,
    SimpleStmt  |-> <<>>,
    ExprStmt    |-> <<NodeParam("Expr")>>,
    AssertStmt  |-> <<>>,
    AssertStmt1 |-> <<NodeParam("Expr")>> ]

TargetMakers ==
  [ AssertStmt2   |-> <<NodeParam("Expr"), NodeParam("Expr")>>,
    Target        |-> <<>>,
    IdentTarget   |-> <<NodeParam("IdentExpr")>>,
    AttrRefTarget |-> <<NodeParam("AttrRef")>>,
    TargetList    |-> <<ListParam("Target")>>,
    AssignStmt    |-> <<NodeParam("TargetList"), NodeParam("Expr")>>,
    DelStmt       |-> <<NodeParam("TargetList")>>,
    ExprList      |-> <<ListParam("Expr")>>,
    PrintStmt     |-> <<NodeParam("ExprList"), ValParam("bool")>> ]

InputMakers ==
  [ SimpleStmtList |-> <<ListParam("SimpleStmt")>>,
    StmtList       |-> <<ListParam("Stmt")>>,
    FileInput      |-> <<NodeParam("StmtList")>>,
    InteractInput  |-> <<NodeParam("SimpleStmtList")>>,
    EvalInput      |-> <<NodeParam("Expr")>>,
    InputInput     |-> <<NodeParam("Expr")>> ]

CxxpyMakers == AtomMakers @@ TrailerMakers @@ TestMakers @@ TargetMakers @@ InputMakers

-----------------------------------------------------------------------------
(* printer.cpp: what Printer::visit prints of each class.                  *)
AtomPrints ==
  [ Node        |-> <<>>,
    Ident       |-> <<PrintRepr("ident")>>,
    Str         |-> <<PrintRepr("str")>>,
    Expr        |-> <<>>,
    PrimaryExpr |-> <<>>,
    IdentExpr   |-> <<PrintNode("ident")>>,
    StrExpr     |-> <<PrintNode("str")>>,
    ParenExpr   |-> <<PrintNode("expr")>>,
    DictExpr    |-> <<>> ]

TrailerPrints ==
  [ EmptyDictExpr    |-> <<>>,
    KeyDatumDictExpr |-> <<PrintNode("key_datums")>>,
    KeyDatum         |-> <<PrintNode("expr1"), PrintNode("expr2")>>,
    KeyDatumList     |-> <<PrintList("list")>>,
    AttrRef          |-> <<PrintNode("expr"), PrintNode("ident")>>,
    CallArg          |-> <<PrintNode("expr")>>,
    CallArgList      |-> <<PrintList("list")>>,
    CallExpr         |-> <<>>,
    EmptyCallExpr    |-> <<PrintNode("expr")>>,
    ArgsCallExpr     |-> <<PrintNode("expr"), PrintNode("args")>> ]

TestPrints ==
  [ OrTest      |-> <<PrintNode("expr1"), PrintNode("expr2")>>,
    AndTest     |-> <<PrintNode("expr1"), PrintNode("expr2")>>,
    NotTest     |-> <<PrintNode("expr")>>,
    Comp        |-> <<PrintVal("op"), PrintNode("prim")>>,
    CompExpr    |-> <<PrintNode("prim"), PrintList("comps")>>,
    Stmt        |-> <<>>,
    SimpleStmt  |-> <<>>,
    ExprStmt    |-> <<PrintNode("expr")>>,
    AssertStmt  |-> <<>>,
    AssertStmt1 |-> <<PrintNode("expr1")>> ]

\* slip: the comma at the end is left out
TargetPrints_slip ==
  [ AssertStmt2   |-> <<PrintNode("expr1"), PrintNode("expr2")>>,
    Target        |-> <<>>,
    IdentTarget   |-> <<PrintNode("ident")>>,
    AttrRefTarget |-> <<PrintNode("attr")>>,
    TargetList    |-> <<PrintList("list")>>,
    AssignStmt    |-> <<PrintNode("targets"), PrintNode("expr")>>,
    DelStmt       |-> <<PrintNode("targets")>>,
    ExprList      |-> <<PrintList("list")>>,
    PrintStmt     |-> <<PrintNode("exprs")>> ]

TargetPrints ==
  [ AssertStmt2   |-> <<PrintNode("expr1"), PrintNode("expr2")>>,
    Target        |-> <<>>,
    IdentTarget   |-> <<PrintNode("ident")>>,
    AttrRefTarget |-> <<PrintNode("attr")>>,
    TargetList    |-> <<PrintList("list")>>,
    AssignStmt    |-> <<PrintNode("targets"), PrintNode("expr")>>,
    DelStmt       |-> <<PrintNode("targets")>>,
    ExprList      |-> <<PrintList("list")>>,
    PrintStmt     |-> <<PrintNode("exprs"), PrintVal("trail_comma")>> ]

InputPrints ==
  [ SimpleStmtList |-> <<PrintList("list")>>,
    StmtList       |-> <<PrintList("list")>>,
    FileInput      |-> <<PrintNode("stmts")>>,
    InteractInput  |-> <<PrintNode("stmts")>>,
    EvalInput      |-> <<PrintNode("expr")>>,
    InputInput     |-> <<PrintNode("expr")>> ]

CxxpyPrints == AtomPrints @@ TrailerPrints @@ TestPrints @@ TargetPrints @@ InputPrints

(* cxxpy.cpp: the names of the tables new_funcs, of both makers, in order. *)
CxxpyNewFuncs ==
  <<"AndTest", "ArgsCallExpr", "AssertStmt", "AssertStmt1", "AssertStmt2",
    "AssignStmt", "AttrRef", "AttrRefTarget", "CallArg", "CallArgList",
    "CallExpr", "Comp", "CompExpr", "DelStmt", "DictExpr", "EmptyCallExpr",
    "EmptyDictExpr", "EvalInput", "Expr", "ExprList", "ExprStmt",
    "FileInput", "Ident", "IdentExpr", "IdentTarget", "InputInput",
    "InteractInput", "KeyDatum", "KeyDatumDictExpr", "KeyDatumList", "Node",
    "NotTest", "OrTest", "ParenExpr", "PrimaryExpr", "PrintStmt",
    "SimpleStmt", "SimpleStmtList", "Stmt", "StmtList", "Str", "StrExpr",
    "Target", "TargetList">>
=============================================================================
