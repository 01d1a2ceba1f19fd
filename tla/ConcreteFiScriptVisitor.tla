----------------------- MODULE ConcreteFiScriptVisitor -----------------------
(***************************************************************************)
(* From the parse tree of a script to the list of Commands FileMaker reads *)
(* (backend/src/processors/visitors/concrete_fiscript_visitor.cc).  A      *)
(* parse tree is what the parser ANTLR generates from FiScript.g4 hands    *)
(* over: a statement is a record whose "rule" is the grammar's rule,       *)
(* with its children of each kind in a sequence, in the order of the text; *)
(* an expression is a record whose "label" is that of the alternative.     *)
(***************************************************************************)
EXTENDS ScriptCommand

BinaryLabels == {"MulDiv", "AddSub", "Comparison", "LogicalOp"}

-----------------------------------------------------------------------------
RECURSIVE visitExpression(_)
visitExpression(ctx) ==
    CASE ctx.label = "ParenExpression" -> ParenExprNode(visitExpression(ctx.expression[1]))
      [] ctx.label \in BinaryLabels ->
            BinaryOpNode(ctx.op, visitExpression(ctx.expression[1]),
                         visitExpression(ctx.expression[2]))
      [] ctx.label = "VariableRef" -> VariableRefNode(ctx.text)
      [] ctx.label = "NumericLiteral" -> LiteralNode(ctx.text, FALSE, FALSE)
      [] ctx.label = "StringLiteral" -> LiteralNode(ctx.text, TRUE, FALSE)
      [] ctx.label = "BooleanLiteral" -> LiteralNode(ctx.text, FALSE, TRUE)

\* visitPrint and visitAlert.
visitOutput(type, ctx) ==
    [NewCommand(type) EXCEPT !.expression = visitExpression(ctx.expression[1])]

visitSendorder(ctx) ==
    [NewCommand("SendOrder") EXCEPT
        !.arguments_expr = [i \in 1..Len(ctx.expression) |-> visitExpression(ctx.expression[i])]]

visitVariableDeclaration(ctx) ==
    [NewCommand("VariableDeclaration") EXCEPT
        !.variable_name = ctx.identifier,
        !.expression = visitExpression(ctx.expression[1])]

visitVariableAssignment(ctx) ==
    [NewCommand("VariableAssignment") EXCEPT
        !.variable_name = ctx.identifier,
        !.compound_op = ctx.compound_op,
        !.expression = visitExpression(ctx.expression[1])]

RECURSIVE visitStatement(_)

visitBlock(ctx) == [i \in 1..Len(ctx) |-> visitStatement(ctx[i])]

\* visitSchedule and visitReacton.
visitTimed(type, ctx) ==
    [NewCommand(type) EXCEPT !.arguments = ctx.argument,
                             !.in_scope = visitBlock(ctx.block[1])]

\* The first condition and block are the if's, the next ones the else ifs', and a block
\* without a condition is the else's.
visitIf(ctx) ==
    LET num_else_ifs == Len(ctx.expression) - 1
        total_blocks == Len(ctx.block)
    IN  [NewCommand("If") EXCEPT
            !.expression = visitExpression(ctx.expression[1]),
            !.in_scope = visitBlock(ctx.block[1]),
            !.else_if_branches =
                [i \in 1..num_else_ifs |-> <<visitExpression(ctx.expression[i + 1]),
                                             visitBlock(ctx.block[i + 1])>>],
            !.else_block = IF total_blocks > 1 + num_else_ifs
                             THEN visitBlock(ctx.block[total_blocks])
                             ELSE <<>>]

visitStatement(ctx) ==
    CASE ctx.rule = "alert" -> visitOutput("Alert", ctx)
      [] ctx.rule = "reacton" -> visitTimed("ReactOn", ctx)
      [] ctx.rule = "schedule" -> visitTimed("Schedule", ctx)
      [] ctx.rule = "print" -> visitOutput("Print", ctx)
      [] ctx.rule = "sendorder" -> visitSendorder(ctx)
      [] ctx.rule = "if" -> visitIf(ctx)
      [] ctx.rule = "variableDeclaration" -> visitVariableDeclaration(ctx)
      [] ctx.rule = "variableAssignment" -> visitVariableAssignment(ctx)

\* commands_list_ once Compile has parsed the text.
visitScript(ctx) == visitBlock(ctx)
=============================================================================
