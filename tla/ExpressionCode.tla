--------------------------- MODULE ExpressionCode ---------------------------
(***************************************************************************)
(* FileMaker's translation of an expression to C++ and the type it infers  *)
(* for it (InferExpressionType and GenerateExpressionCode of               *)
(* backend/src/processors/visitors/file_maker.cc).  The code is a sequence *)
(* of tokens: whether C++ groups them as the script does is a question     *)
(* about them.                                                             *)
(***************************************************************************)
EXTENDS ConcreteFiScriptVisitor, CppTokens

RelationalOps == {">", "<", ">=", "<="}
ComparisonOps == RelationalOps \cup {"==", "!="}
LogicalOps == {"and", "or"}

-----------------------------------------------------------------------------
(***************************************************************************)
(* types is variable_types_.                                               *)
(***************************************************************************)
RECURSIVE InferExpressionType(_, _)
InferExpressionType(expr, types) ==
    CASE expr.node_type = "Literal" ->
            IF expr.is_boolean THEN "Boolean" ELSE IF expr.is_string THEN "String" ELSE "Numeric"
      [] expr.node_type = "VariableRef" ->
            IF expr.var_name \in DOMAIN types THEN types[expr.var_name] ELSE "Numeric"
      [] expr.node_type = "BinaryOp" ->
            LET left_type == InferExpressionType(expr.left, types)
                right_type == InferExpressionType(expr.right, types)
            IN  IF expr.op \in ComparisonOps \cup LogicalOps THEN "Boolean"
                ELSE IF expr.op \in {"+", "-"} /\ "String" \in {left_type, right_type}
                       THEN "String"
                       ELSE left_type
      [] expr.node_type = "Paren" -> InferExpressionType(expr.inner, types)

-----------------------------------------------------------------------------
\* kBoolToStringTernary
BoolToString(code) ==
    Parenthesised(code \o Op("?") \o Token("cstring", "True") \o Op(":") \o Token("cstring", "False"))

LiteralCode(lit, context_type) ==
    CASE lit.is_boolean -> IF context_type = "String"
                             THEN Call("std::string", Token("cstring", lit.value))
                             ELSE Token("bool", IF lit.value = "True" THEN "true" ELSE "false")
      [] lit.is_string  -> IF context_type = "String"
                             THEN Call("std::string", Token("cstring", lit.value))
                             ELSE Token("cstring", lit.value)
      [] OTHER          -> IF context_type = "String"
                             THEN Call("std::to_string", Token("number", lit.value))
                             ELSE Token("number", lit.value)

\* A name that is not declared is taken for an attribute such as quote.price.
AttributeCode(name) == Token("name", name) \o Parenthesised(<<>>)

\* Mutant of VariableCode: a boolean is not converted.
VariableCodeUnconverted(name, types, context_type) ==
    IF name \in DOMAIN types
      THEN IF context_type = "String" /\ types[name] = "Numeric"
             THEN Call("std::to_string", Token("name", name)) ELSE Token("name", name)
      ELSE AttributeCode(name)

VariableCode(name, types, context_type) ==
    LET code == IF name \in DOMAIN types THEN Token("name", name) ELSE AttributeCode(name)
        type == IF name \in DOMAIN types THEN types[name] ELSE "Numeric"
    IN  CASE context_type # "String" \/ type = "String" -> code
          [] type = "Numeric" -> Call("std::to_string", code)
          [] type = "Boolean" -> BoolToString(code)

\* The context in which the operands of a binary operator are generated, left and right.
OperandContexts(expr, types, context_type) ==
    LET left_type == InferExpressionType(expr.left, types)
        right_type == InferExpressionType(expr.right, types)
    IN  CASE expr.op \in LogicalOps -> <<"Boolean", "Boolean">>
          [] expr.op \in ComparisonOps -> <<left_type, right_type>>
          [] expr.op = "+" /\ "String" \in {left_type, right_type} -> <<"String", "String">>
          [] expr.op \in {"*", "/"} -> <<"Numeric", "Numeric">>
          [] OTHER -> <<context_type, context_type>>

CppOp(op) == CASE op = "and" -> "&&" [] op = "or" -> "||" [] OTHER -> op

RECURSIVE GenerateExpressionCode(_, _, _)

BinaryOpCode(expr, types, context_type) ==
    LET contexts == OperandContexts(expr, types, context_type)
        result == GenerateExpressionCode(expr.left, types, contexts[1])
                    \o Op(CppOp(expr.op))
                    \o GenerateExpressionCode(expr.right, types, contexts[2])
    IN  IF expr.op \in LogicalOps \cup ComparisonOps /\ context_type = "String"
          THEN BoolToString(result)
          ELSE result

\* Mutant of ParenCode: the parentheses of the script are dropped.
ParenCodeDropped(expr, types, context_type) ==
    GenerateExpressionCode(expr.inner, types, context_type)

ParenCode(expr, types, context_type) ==
    LET paren_result_type == InferExpressionType(expr.inner, types)
        paren_expr == Parenthesised(GenerateExpressionCode(expr.inner, types, paren_result_type))
    IN  CASE context_type # "String" -> paren_expr
          [] paren_result_type = "Numeric" -> Op("std::to_string") \o paren_expr
          [] paren_result_type = "String" -> Op("std::string") \o paren_expr
          [] paren_result_type = "Boolean" -> BoolToString(paren_expr)

GenerateExpressionCode(expr, types, context_type) ==
    CASE expr.node_type = "Literal" -> LiteralCode(expr, context_type)
      [] expr.node_type = "VariableRef" -> VariableCode(expr.var_name, types, context_type)
      [] expr.node_type = "BinaryOp" -> BinaryOpCode(expr, types, context_type)
      [] expr.node_type = "Paren" -> ParenCode(expr, types, context_type)
=============================================================================
