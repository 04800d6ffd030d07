-------------------------------- MODULE Ast --------------------------------
(***************************************************************************)
(* The nodes of the syntax tree: one operator per class of ast/ast.h and   *)
(* ast/ast-class-inl.h.  A node has its class, its form (the flags and     *)
(* kinds the class keeps), for a name, a literal, an operator or a word of *)
(* a command the place of its token, which stands for its value, and its   *)
(* children, in the order of the class's fields.  A pointer that is not    *)
(* set is Null.  Lines and columns are left out.                           *)
(***************************************************************************)
EXTENDS Naturals, Sequences

LOCAL Node(type, form, token, kids) ==
  [type |-> type, form |-> form, token |-> token, kids |-> kids]
LOCAL Kids(type, kids) == Node(type, "", 0, kids)
LOCAL Form(type, form, kids) == Node(type, form, 0, kids)
LOCAL Word(type, token, kids) == Node(type, "", token, kids)

Null == Kids("Null", <<>>)
IsNull(n) == n.type = "Null"

---------------------------------------------------------------------------
(* Lists                                                                   *)

StatementList(stmts)      == Kids("StatementList", stmts)
ExpressionList(exps)      == Kids("ExpressionList", exps)
AssignableList(nodes)     == Kids("AssignableList", nodes)
ArgumentsList(args)       == Kids("ArgumentsList", args)
ClassDeclList(decls)      == Kids("ClassDeclList", decls)
InterfaceDeclList(decls)  == Kids("InterfaceDeclList", decls)

---------------------------------------------------------------------------
(* Expressions                                                             *)

Identifier(token)         == Word("Identifier", token, <<>>)
VarEnvId(token)           == Word("VarEnvId", token, <<>>)
Literal(token)            == Word("Literal", token, <<>>)
NullExpression            == Kids("NullExpression", <<>>)
LiteralStringsGroup(token, id, parts) == Word("LiteralStringsGroup", token, <<id>> \o parts)
Glob(pieces)              == Kids("Glob", pieces)
KeyValue(key, value)      == Kids("KeyValue", <<key, value>>)
DictionaryInstantiation(pairs) == Kids("DictionaryInstantiation", pairs)
ArrayInstantiation(list)  == Kids("ArrayInstantiation", <<list>>)
TupleInstantiation(list)  == Kids("TupleInstantiation", <<list>>)
AssignableValue(value)    == Kids("AssignableValue", <<value>>)
EllipsisExpression(exp)   == Kids("EllipsisExpression", <<exp>>)
CmdExpression(cmd)        == Kids("CmdExpression", <<cmd>>)
LetExpression(assign)     == Kids("LetExpression", <<assign>>)
BinaryOperation(op, left, right) == Word("BinaryOperation", op, <<left, right>>)
UnaryOperation(op, exp)   == Word("UnaryOperation", op, <<exp>>)
NotExpression(exp)        == Kids("NotExpression", <<exp>>)
IfElseExpression(cond, then, else) == Kids("IfElseExpression", <<cond, then, else>>)
Slice(start, end)         == Kids("Slice", <<start, end>>)
CompIf(exp)               == Kids("CompIf", <<exp>>)
CompFor(exps, tests)      == Kids("CompFor", <<exps, tests>>)
ListComprehension(value, comps) == Kids("ListComprehension", <<value>> \o comps)
Array(exp, index)         == Kids("Array", <<exp, index>>)
Attribute(exp, id)        == Kids("Attribute", <<exp, id>>)
Argument(key, value, form) == Form("Argument", form, <<key, value>>)
FunctionCall(func, args)  == Kids("FunctionCall", <<func, args>>)
FunctionParam(id, value, form) == Form("FunctionParam", form, <<id, value>>)
FunctionExpression(params, block) == Kids("FunctionExpression", Append(params, block))

---------------------------------------------------------------------------
(* Commands                                                                *)

CmdPiece(token)           == Word("CmdPiece", token, <<>>)
CmdValueExpr(exp, iterator) == Form("CmdValueExpr", IF iterator THEN "each" ELSE "one", <<exp>>)
SimpleCmd(pieces)         == Kids("SimpleCmd", pieces)
FilePathCmd(pieces)       == Kids("FilePathCmd", pieces)
CmdIoRedirect(int, path, kind) == Form("CmdIoRedirect", kind, <<int, path>>)
CmdIoRedirectList(cmd, redirs) == Kids("CmdIoRedirectList", <<cmd>> \o redirs)
CmdPipeSequence(cmds)     == Kids("CmdPipeSequence", cmds)
CmdAndOr(op, left, right) == Word("CmdAndOr", op, <<left, right>>)
CmdFull(cmd, background)  == Form("CmdFull", IF background THEN "bg" ELSE "fg", <<cmd>>)
SubShell(block, self)     == Form("SubShell", IF self THEN "self" ELSE "forked", <<block>>)

---------------------------------------------------------------------------
(* Statements                                                              *)

Block(list)               == Kids("Block", <<list>>)
ReturnStatement(list)     == Kids("ReturnStatement", <<list>>)
ImportStatement(from, ids) == Word("ImportStatement", from, ids)
ForInStatement(exps, tests, block) == Kids("ForInStatement", <<exps, tests, block>>)
SwitchStatement(exp, cases, default) ==
  Kids("SwitchStatement", <<exp>> \o cases \o <<default>>)
CaseStatement(exps, block) == Kids("CaseStatement", <<exps, block>>)
DefaultStatement(block)   == Kids("DefaultStatement", <<block>>)
DelStatement(exps)        == Kids("DelStatement", <<exps>>)
IfStatement(exp, then, else) == Kids("IfStatement", <<exp, then, else>>)
WhileStatement(exp, block) == Kids("WhileStatement", <<exp, block>>)
AssignmentStatement(op, lexps, rvalues) ==
  Form("AssignmentStatement", op, <<lexps, rvalues>>)
GlobalAssignmentStatement(assign) == Kids("GlobalAssignmentStatement", <<assign>>)
ExpressionStatement(exp)  == Kids("ExpressionStatement", <<exp>>)
VarEnvStatement(id, exp)  == Kids("VarEnvStatement", <<id, exp>>)
BreakStatement            == Kids("BreakStatement", <<>>)
ContinueStatement         == Kids("ContinueStatement", <<>>)
DeferStatement(stmt)      == Kids("DeferStatement", <<stmt>>)
ThrowStatement(exp)       == Kids("ThrowStatement", <<exp>>)
CatchStatement(exps, block, var) == Kids("CatchStatement", <<exps, block, var>>)
FinallyStatement(block)   == Kids("FinallyStatement", <<block>>)
TryCatchStatement(try, catches, finally) ==
  Kids("TryCatchStatement", <<try>> \o catches \o <<finally>>)

---------------------------------------------------------------------------
(* Declarations                                                            *)

CmdDeclaration(id, block) == Kids("CmdDeclaration", <<id, block>>)
AliasDeclaration(cmd, id) == Kids("AliasDeclaration", <<id, cmd>>)
FunctionDeclaration(params, id, block) ==
  Kids("FunctionDeclaration", <<id>> \o Append(params, block))
ClassBlock(list)          == Kids("ClassBlock", <<list>>)
ClassDeclaration(id, parent, interfaces, block) ==
  Kids("ClassDeclaration", <<id, parent, interfaces, block>>)
InterfaceBlock(list)      == Kids("InterfaceBlock", <<list>>)
InterfaceDeclaration(id, interfaces, block) ==
  Kids("InterfaceDeclaration", <<id, interfaces, block>>)
VariableDeclaration(id, value) == Kids("VariableDeclaration", <<id, value>>)
AnnotationDeclaration(exp, decl) == Kids("AnnotationDeclaration", <<exp, decl>>)

---------------------------------------------------------------------------
(* What the classes leave out: the children that has_exp(), has_else(),    *)
(* has_value() and their like are asked about before they are used.        *)
MayBeNull(n) ==
  CASE n.type \in {"ReturnStatement", "ArrayInstantiation", "TupleInstantiation",
                   "CmdIoRedirect", "Argument", "LiteralStringsGroup"} -> {1}
    [] n.type = "Slice" -> {1, 2}
    [] n.type = "FunctionParam" -> {2}
    [] n.type = "InterfaceDeclaration" -> {2}
    [] n.type = "ClassDeclaration" -> {2, 3}
    [] n.type \in {"IfStatement", "CatchStatement"} -> {3}
    [] n.type \in {"TryCatchStatement", "FunctionDeclaration"} -> {Len(n.kids)}
    [] n.type = "SwitchStatement" -> {1, Len(n.kids)}
    [] OTHER -> {}
=============================================================================
