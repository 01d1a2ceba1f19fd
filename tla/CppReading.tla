----------------------------- MODULE CppReading -----------------------------
(***************************************************************************)
(* How a C++ compiler reads the expressions FileMaker generates, and how   *)
(* FiScript.g4 means them: the reference that the generated code is        *)
(* compared with.  C++ groups the tokens by the precedence of its          *)
(* operators; the script's grouping is its parse tree.                     *)
(***************************************************************************)
EXTENDS ExpressionCode, FiniteSetsExt

-----------------------------------------------------------------------------
(***************************************************************************)
(* The C++ side.                                                           *)
(***************************************************************************)
CppLevels ==
    <<{"*", "/"}, {"+", "-"}, RelationalOps, {"==", "!="}, {"&&"}, {"||"}, {"?"}>>

Level(text) == CHOOSE l \in DOMAIN CppLevels : text \in CppLevels[l]

IsOp(token, texts) == token.kind = "op" /\ token.text \in texts

Depth(code, i) == Cardinality({j \in 1..i : IsOp(code[j], {"("})})
                    - Cardinality({j \in 1..i : IsOp(code[j], {")"})})

\* The operators of code that no parenthesis encloses.
Outer(code) == {i \in DOMAIN code : IsOp(code[i], UNION {CppLevels[l] : l \in DOMAIN CppLevels})
                                      /\ Depth(code, i) = 0}

\* The tree C++ makes of code.  An operator that binds less is nearer to the root, and the
\* last one of a level, for all of them group to the left.  Parentheses leave no trace.
RECURSIVE Read(_)
Read(code) ==
    IF Outer(code) # {}
      THEN LET lowest == Max({Level(code[i].text) : i \in Outer(code)})
               at == Max({i \in Outer(code) : Level(code[i].text) = lowest})
               left == Read(SubSeq(code, 1, at - 1))
           IN  IF code[at].text = "?"
                 THEN [kind |-> "ternary", text |-> "?", args |-> <<left>>]
                 ELSE [kind |-> "op", text |-> code[at].text,
                       args |-> <<left, Read(SubSeq(code, at + 1, Len(code)))>>]
    ELSE IF Len(code) = 1 THEN [kind |-> code[1].kind, text |-> code[1].text, args |-> <<>>]
    ELSE IF code[1].kind = "name" THEN [kind |-> "attribute", text |-> code[1].text, args |-> <<>>]
    ELSE IF IsOp(code[1], {"("}) THEN Read(SubSeq(code, 2, Len(code) - 1))
    ELSE [kind |-> "call", text |-> code[1].text,
          args |-> <<Read(SubSeq(code, 3, Len(code) - 1))>>]

\* Which operator is applied to what, without the conversions to a string.
RECURSIVE CppShape(_)
CppShape(tree) ==
    CASE tree.kind \in {"call", "ternary"} -> CppShape(tree.args[1])
      [] tree.kind = "op" -> <<tree.text, CppShape(tree.args[1]), CppShape(tree.args[2])>>
      [] tree.kind = "bool" -> <<IF tree.text = "true" THEN "True" ELSE "False">>
      [] OTHER -> <<tree.text>>

Arithmetic == {"number", "bool"}
Strings == {"std::string", "const char*"}

CppNames == [Numeric |-> "number", Boolean |-> "bool", String |-> "std::string"]

\* The C++ type of an operation; "error" when there is none, or when it is one of pointers.
OpType(op, left, right) ==
    CASE {left, right} \subseteq Arithmetic ->
            IF op \in {"+", "-", "*", "/"} THEN "number" ELSE "bool"
      [] {left, right} \subseteq Strings /\ "std::string" \in {left, right} ->
            IF op = "+" THEN "std::string" ELSE IF op \in ComparisonOps THEN "bool" ELSE "error"
      [] OTHER -> "error"

RECURSIVE CppType(_, _)
CppType(tree, types) ==
    CASE tree.kind = "op" ->
            OpType(tree.text, CppType(tree.args[1], types), CppType(tree.args[2], types))
      [] tree.kind = "ternary" ->
            IF CppType(tree.args[1], types) \in Arithmetic THEN "const char*" ELSE "error"
      [] tree.kind = "call" ->
            IF CppType(tree.args[1], types)
                 \in (IF tree.text = "std::string" THEN Strings ELSE Arithmetic)
              THEN "std::string" ELSE "error"
      [] tree.kind = "cstring" -> "const char*"
      [] tree.kind = "attribute" -> "number"
      [] tree.kind = "name" -> CppNames[types[tree.text]]
      [] OTHER -> tree.kind

-----------------------------------------------------------------------------
(***************************************************************************)
(* The script's side, on the parse tree of an expression.                  *)
(***************************************************************************)
RECURSIVE Shape(_)
Shape(ctx) ==
    CASE ctx.label = "ParenExpression" -> Shape(ctx.expression[1])
      [] ctx.label \in BinaryLabels ->
            <<CppOp(ctx.op), Shape(ctx.expression[1]), Shape(ctx.expression[2])>>
      [] OTHER -> <<ctx.text>>

\* The type a reader of the script gives it, "none" if its operands do not fit.
RECURSIVE TypeOf(_, _)
TypeOf(ctx, types) ==
    LET operands == {TypeOf(ctx.expression[i], types) : i \in DOMAIN ctx.expression}
    IN  CASE ctx.label = "NumericLiteral" -> "Numeric"
          [] ctx.label = "StringLiteral" -> "String"
          [] ctx.label = "BooleanLiteral" -> "Boolean"
          [] ctx.label = "VariableRef" ->
                IF ctx.text \in DOMAIN types THEN types[ctx.text] ELSE "Numeric"
          [] ctx.label = "ParenExpression" -> TypeOf(ctx.expression[1], types)
          [] ctx.label = "LogicalOp" -> IF operands = {"Boolean"} THEN "Boolean" ELSE "none"
          [] ctx.label = "Comparison" ->
                IF Cardinality(operands) = 1 /\ "none" \notin operands THEN "Boolean" ELSE "none"
          [] operands = {"Numeric"} -> "Numeric"
          [] ctx.op = "+" /\ "String" \in operands /\ "none" \notin operands -> "String"
          [] OTHER -> "none"

\* and and or bind alike in the script, as do == and <; C++ tells them apart.  No operator
\* of ctx that binds more in C++ stands to the right of one that binds less.
RECURSIVE GroupsAsCpp(_)
GroupsAsCpp(ctx) ==
    /\ \A i \in DOMAIN ctx.expression : GroupsAsCpp(ctx.expression[i])
    /\ ctx.label \in {"LogicalOp", "Comparison"} =>
          LET left == ctx.expression[1]
          IN  left.label = ctx.label => Level(CppOp(left.op)) <= Level(CppOp(ctx.op))

\* No sum or difference is the right operand of another without parentheses around it.
RECURSIVE SumsToTheLeft(_)
SumsToTheLeft(ctx) ==
    /\ \A i \in DOMAIN ctx.expression : SumsToTheLeft(ctx.expression[i])
    /\ ctx.label = "AddSub" => ctx.expression[2].label # "AddSub"

\* No sum, difference, product or quotient of numbers is converted to a string unless it
\* is in parentheses: 1 + 2 in a context of strings is "1" and "2" put together.
RECURSIVE KeepsArithmetic(_, _, _)
KeepsArithmetic(ctx, types, context) ==
    LET KeptIn(c) == \A i \in DOMAIN ctx.expression : KeepsArithmetic(ctx.expression[i], types, c)
        own == TypeOf(ctx.expression[1], types)
    IN  CASE ctx.label \in {"ParenExpression", "Comparison"} -> KeptIn(own)
          [] ctx.label = "LogicalOp" -> KeptIn("Boolean")
          [] ctx.label \in {"MulDiv", "AddSub"} ->
                IF TypeOf(ctx, types) = "String" THEN KeptIn("String")
                ELSE context # "String" /\ KeptIn("Numeric")
          [] OTHER -> TRUE
=============================================================================
