----------------------------- MODULE MCFileMaker -----------------------------
(***************************************************************************)
(* The scripts TLC has FileMaker generate: parse trees FiScript.g4 has.    *)
(* One family nests statements, one uses every expression up to a size in  *)
(* every place that takes one, one gives Schedule and ReactOn arguments.   *)
(***************************************************************************)
EXTENDS GeneratedCode

Texts(S, n) == UNION {[1..k -> S] : k \in 1..n}

-----------------------------------------------------------------------------
Leaf(label, text) == [label |-> label, text |-> text, op |-> "", expression |-> <<>>]
Num == Leaf("NumericLiteral", "1")
Str == Leaf("StringLiteral", "t")
True == Leaf("BooleanLiteral", "True")
Var(x) == Leaf("VariableRef", x)

Node(label, op, expression) ==
    [label |-> label, text |-> "", op |-> op, expression |-> expression]

Alternatives == <<"MulDiv", "AddSub", "Comparison", "LogicalOp">>
Ops == <<{"*"}, {"+", "-"}, {"<", "=="}, {"and", "or"}>>

\* A binary expression has operators of its own level on the left only, and none that binds
\* less outside parentheses.
LevelOf(e) == IF e.label \in BinaryLabels
                THEN CHOOSE l \in DOMAIN Alternatives : Alternatives[l] = e.label ELSE 0
Binary(S) ==
    UNION {{Node(Alternatives[l], op, <<left, right>>) :
               op \in Ops[l], left \in {e \in S : LevelOf(e) <= l},
               right \in {e \in S : LevelOf(e) < l}} : l \in DOMAIN Alternatives}
Paren(S) == {Node("ParenExpression", "", <<e>>) : e \in S}

Known == [n |-> "Numeric", s |-> "String", b |-> "Boolean"]
Typed(S) == {e \in S : TypeOf(e, Known) # "none"}

\* Every expression of one operator, parenthesised or not, and those of up to three
\* operators whose operands fit.
Leaves == {Num, Str, True, Var("n"), Var("s"), Var("b"), Var("quote.price")}
Small == Leaves \cup Binary(Leaves) \cup Paren(Leaves \cup Binary(Leaves))
Operands == Typed(Binary({Num, Var("s"), Var("b")}))
Large == Typed(Binary({Num, Var("s"), Var("b")} \cup Operands \cup Paren(Operands)))

-----------------------------------------------------------------------------
Statement(rule) == [rule |-> rule, argument |-> <<>>, identifier |-> "", compound_op |-> "",
                    expression |-> <<>>, block |-> <<>>]

Shows(e) == [Statement("print") EXCEPT !.expression = <<e>>]
Alert(e) == [Statement("alert") EXCEPT !.expression = <<e>>]
Order(e) == [Statement("sendorder") EXCEPT !.expression = <<e, Num, e>>]
Declare(x, e) == [Statement("variableDeclaration") EXCEPT !.identifier = x, !.expression = <<e>>]
Assign(x, op, e) == [Statement("variableAssignment") EXCEPT
                        !.identifier = x, !.compound_op = op, !.expression = <<e>>]
ScheduleWith(argument, b) == [Statement("schedule") EXCEPT !.argument = argument, !.block = <<b>>]
ReactOnWith(argument, b) == [Statement("reacton") EXCEPT !.argument = argument, !.block = <<b>>]
Schedule(b) == ScheduleWith(<< <<"f">>, <<"5", "s">>, <<"2">> >>, b)
ReactOn(b) == ReactOnWith(<< <<"\"", "i", "\"">>, <<"2">> >>, b)
If(conditions, blocks) == [Statement("if") EXCEPT !.expression = conditions, !.block = blocks]

Uses(e) == <<Declare("n", Num), Declare("s", Str), Declare("b", True), Shows(e), Alert(e),
             Declare("x", e), If(<<True, e>>, << <<Order(e)>>, <<>>, <<Assign("n", "*=", e)>> >>)>>

-----------------------------------------------------------------------------
Simple == {Shows(Num), Alert(Str), Order(Num), Declare("x", Num), Declare("x", Str),
           Declare("y", Var("x")), Assign("x", "+=", Num), Assign("x", "-=", Var("x"))}
Bodies == {<<>>, <<Alert(Str)>>, <<Declare("x", Num)>>, <<Assign("x", "+=", Num)>>,
           <<Declare("y", Var("x")), Order(Var("y"))>>}
Few == {<<>>, <<Order(Num)>>, <<Declare("x", Str), Shows(Var("x"))>>}

\* A statement around blocks.
Around(S) == {Schedule(b) : b \in S} \cup {ReactOn(b) : b \in S} \cup {If(<<True>>, <<b>>) : b \in S}
Branching(S, T) == {If(<<True>>, <<b, c>>) : b \in S, c \in T}
                     \cup {If(<<True, Var("x")>>, <<b, c, c>>) : b \in T, c \in S}
                     \cup {If(<<Var("x"), True, Num>>, <<b, c, b>>) : b \in S, c \in T}
One == Around(Bodies) \cup Branching(Bodies, Few)
Two == Around({<<t>> : t \in One} \cup {<<t, Declare("x", Num)>> : t \in Around(Bodies)})
         \cup Branching({<<t>> : t \in Around(Bodies)}, Few)
Three == Around({<<t>> : t \in Around({<<t>> : t \in Around(Bodies)})})

Nested == {<<t>> : t \in Two \cup Three}
            \cup {<<s, t>> : s \in Simple, t \in One \cup Around({<<t>> : t \in Around(Bodies)})}
            \cup {<<s, t>> : s \in Around(Bodies), t \in One}
            \cup {<<s, t>> : s \in One, t \in Simple}

\* Every text of up to three of these characters is a token of the grammar; MinusOne is not.
Arguments == Texts({"0", "2", "x", "s"}, 3)
Argued == {<<ScheduleWith(<< <<"f">>, time, repeat>>, <<>>)>> : time, repeat \in Arguments}
            \cup {<<If(<<True>>, << <<s, Alert(Str)>> >>)>> :
                     s \in {ReactOnWith(<<i, repeat>>, <<>>) :
                               i \in {<<"\"", "i", "\"">>, <<"s">>}, repeat \in Arguments \cup {MinusOne}}
                           \cup {Schedule(<<>>), ScheduleWith(<< <<"2", "s">>, <<"2">> >>, <<>>)}}

\* The commands of a list and those of the blocks below.
RECURSIVE CommandsBelow(_)
CommandsBelow(commands) ==
    ToSet(commands)
      \cup UNION {CommandsBelow(b) : b \in UNION {ToSet(Blocks(c)) : c \in ToSet(commands)}}

MCCommandsIn(s) == CommandsBelow(CommandsOf(s))

MCScripts == {Uses(e) : e \in Small \cup Large} \cup Nested \cup Argued
=============================================================================
