---------------------------- MODULE GeneratedCode ----------------------------
(***************************************************************************)
(* What the generated main owes to the script it was generated from: the   *)
(* properties of FileMaker, read off the lines and the parse tree.         *)
(***************************************************************************)
EXTENDS GeneratedMain, CppReading

(***************************************************************************)
(* The lines a script asks for, read off its parse tree alone.  exprs are  *)
(* parse trees of expressions.                                             *)
(***************************************************************************)
Asked(code, exprs, name, op) == <<[code |-> code, exprs |-> exprs, name |-> name, op |-> op]>>

\* What an order says: its arguments, each behind its label.
OrderText(arguments) ==
    LET Label(i) == [label |-> "StringLiteral", text |-> OrderLabels[i], op |-> "",
                     expression |-> <<>>]
        Plus(left, right) == [label |-> "AddSub", text |-> "", op |-> "+",
                              expression |-> <<left, right>>]
        Labelled(i) == Plus(Label(i), arguments[i])
    IN  Plus(Plus(Plus(Plus(Labelled(1), Label(2)), arguments[2]), Label(3)), arguments[3])

RECURSIVE AskedBy(_)

AskedByIf(ctx) ==
    LET Condition(i) == IF i \in DOMAIN ctx.expression THEN <<ctx.expression[i]>> ELSE <<>>
        Branch(i) == IF i = 1 THEN "if" ELSE IF Condition(i) = <<>> THEN "else" ELSE "else if"
    IN  FlattenSeq([i \in 1..Len(ctx.block) |->
            IF Branch(i) = "else" /\ ctx.block[i] = <<>> THEN <<>>
            ELSE Asked(Branch(i), Condition(i), None, None) \o AskedBy(ctx.block[i])])

AskedByStatement(ctx) ==
    CASE ctx.rule = "schedule" -> Asked("CreateTimer", <<>>, None, None) \o AskedBy(ctx.block[1])
                                    \o Asked("}", <<>>, None, None)
      [] ctx.rule = "reacton" -> Asked("RegisterReaction", <<>>, ctx.argument[1], None)
                                   \o AskedBy(ctx.block[1]) \o Asked("}", <<>>, None, None)
      [] ctx.rule = "if" -> AskedByIf(ctx) \o Asked("}", <<>>, None, None)
      [] ctx.rule = "print" -> Asked("cout", ctx.expression, None, None)
      [] ctx.rule = "alert" -> Asked("SendAlert", ctx.expression, None, None)
      [] ctx.rule = "sendorder" -> Asked("SendAlert", <<OrderText(ctx.expression)>>, None, None)
      [] ctx.rule = "variableDeclaration" -> Asked("set", ctx.expression, ctx.identifier, "=")
      [] ctx.rule = "variableAssignment" ->
            Asked("set", ctx.expression, ctx.identifier, ctx.compound_op)

AskedBy(statements) ==
    FlattenSeq([i \in 1..Len(statements) |-> AskedByStatement(statements[i])])

Body == SelectSeq(file.before, LAMBDA line : line.code # "declare")

AllGenerated == outcome = "built" /\ ignored = 0

\* The code of a statement reads as the statement: C++ applies the same operators to the
\* same operands.
ReadsAs(line, asked) ==
    /\ line.code = asked.code
    /\ line.name = asked.name
    /\ \/ line.op = asked.op
       \/ line.type # "Numeric" /\ line.op = "="
    /\ Len(line.exprs) = Len(asked.exprs)
    /\ \A e \in DOMAIN line.exprs :
          GroupsAsCpp(asked.exprs[e]) /\ SumsToTheLeft(asked.exprs[e])
            => CppShape(Read(line.exprs[e])) = Shape(asked.exprs[e])

\* A script none of whose commands was ignored generates the statements it is written with,
\* in their order and nested as they are, every branch of an if with its own condition and
\* block, and every expression with its operators applied as written; an operator of an
\* assignment that is not one of numbers may have become =.  The expressions that C++ groups
\* in another way (GroupsAsCpp) are left out, and so are orders with a sum or a difference
\* that is not in parentheses for an argument: the + in front of it, which joins the text of
\* the arguments (file_maker.cc:411-414), takes its first operand.
CodeReadsAsScript ==
    AllGenerated =>
        LET asked == AskedBy(script)
        IN  /\ Len(Body) = Len(asked)
            /\ \A i \in DOMAIN asked : ReadsAs(Body[i], asked[i])

\* The type a line wants its expressions to have.
Wanted(line, visible) ==
    CASE line.code \in {"if", "else if"} -> "Boolean"
      [] line.code \in {"cout", "SendAlert"} -> "String"
      [] OTHER -> visible[line.name]

\* The types C++ converts to it.
Accepted == [Numeric |-> Arithmetic, Boolean |-> Arithmetic, String |-> Strings]

\* An expression whose operands fit each other, and fit where it is used, becomes C++ that
\* has a type and the one wanted there: numbers and booleans are converted to strings where
\* they meet one, and nowhere else.  Two kinds of expressions are left out: those C++ groups
\* in another way, and those that convert a sum, difference, product or quotient without
\* parentheses (KeepsArithmetic), which GenerateExpressionCode gets wrong; and so is what
\* follows an assignment that gave a variable another type.  An order is one expression of
\* its labels and arguments.
CodeIsTyped ==
    AllGenerated =>
        LET asked == AskedBy(script)
        IN  \A i \in DOMAIN asked : LET types == Visible(Body, i)
                                        wanted == Wanted(Body[i], types)
                                    IN  \A e \in DOMAIN asked[i].exprs :
                LET ctx == asked[i].exprs[e]
                    type == TypeOf(ctx, types)
                IN  /\ Retyped(Body, i) = {}
                    /\ \/ type = wanted
                       \/ type # "none" /\ Body[i].code \in {"cout", "SendAlert"}
                    /\ GroupsAsCpp(ctx)
                    /\ KeepsArithmetic(ctx, types, wanted)
                    => CppType(Read(Body[i].exprs[e]), types) \in Accepted[wanted]

=============================================================================
