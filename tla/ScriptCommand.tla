---------------------------- MODULE ScriptCommand ----------------------------
(***************************************************************************)
(* Commands and expression nodes (backend/includes/command.h), what the    *)
(* visitor of a script hands over to FileMaker.                            *)
(***************************************************************************)
EXTENDS Naturals, Sequences

NoExpression == [node_type |-> "nullptr"]

LiteralNode(value, is_string, is_boolean) ==
    [node_type |-> "Literal", value |-> value, is_string |-> is_string,
     is_boolean |-> is_boolean]

VariableRefNode(name) == [node_type |-> "VariableRef", var_name |-> name]

BinaryOpNode(op, left, right) ==
    [node_type |-> "BinaryOp", op |-> op, left |-> left, right |-> right]

ParenExprNode(inner) == [node_type |-> "Paren", inner |-> inner]

NewCommand(type) ==
    [type |-> type, arguments |-> <<>>, arguments_expr |-> <<>>, in_scope |-> <<>>,
     variable_name |-> "", compound_op |-> "", expression |-> NoExpression,
     else_if_branches |-> <<>>, else_block |-> <<>>]
=============================================================================
