------------------------------ MODULE FileMaker ------------------------------
(***************************************************************************)
(* The generator of a script's main.cc (backend/src/processors/visitors/   *)
(* file_maker.cc): the constructor walks the Commands of the script and    *)
(* inserts lines before code_it_, which stays in front of the calls that   *)
(* wait for the managers and of main's return.                             *)
(*                                                                         *)
(* code_ is file.before, the lines of main up to code_it_, and file.after, *)
(* the lines from it on.  work is the C++ stack: a frame for the loop of   *)
(* the constructor and one for each MakeBlock that has not returned.       *)
(* CollectRequiredManagers goes through one command per step, and so does  *)
(* MakeLine; the Make functions that make blocks take one step per block.  *)
(* Indentation, the fixed head of the file and the names are left out.     *)
(***************************************************************************)
EXTENDS ScriptCommand, CppTokens, Integers, FiniteSets, SequencesExt

CONSTANTS
    Scripts,               \* parse trees of scripts
    CommandsOf(_),         \* commands_list_ of a parse tree: visitScript
    CommandsIn(_),         \* the commands of that list and of all blocks in it
    ExpressionType(_, _),  \* InferExpressionType and
    ExpressionText(_, _, _),  \* GenerateExpressionCode, as module ExpressionCode has them
    MaxInt                 \* the largest int

VARIABLES
    script,           \* the parse tree that was visited
    work,             \* the loops over commands, the innermost last
    collecting,       \* the lists CollectRequiredManagers has still to go through
    file,             \* the lines, the headers and what was added before (history_)
    active_managers_, \* the managers that captures may name
    variable_types_,
    ignored,          \* how many commands of blocks MakeLine refused
    outcome           \* of the constructor: compiled_, or an exception

vars == <<script, work, collecting, file, active_managers_, variable_types_, ignored, outcome>>

-----------------------------------------------------------------------------
(***************************************************************************)
(* The blocks of a command, in the order they are made.                    *)
(***************************************************************************)
CommandTypes == {"Schedule", "ReactOn", "If", "Print", "Alert", "SendOrder",
                 "VariableDeclaration", "VariableAssignment"}

Blocks(c) ==
    <<c.in_scope>> \o [i \in 1..Len(c.else_if_branches) |-> c.else_if_branches[i][2]]
      \o IF c.else_block = <<>> THEN <<>> ELSE <<c.else_block>>

\* Only an if has more than one block, and arguments are sequences of characters.
FileMakerAssumption ==
    /\ MaxInt \in Nat
    /\ \A s \in Scripts :
          /\ CommandsOf(s) \in Seq(CommandsIn(s))
          /\ \A c \in CommandsIn(s) :
                /\ c.type \in CommandTypes
                /\ Blocks(c) \in Seq(Seq(CommandsIn(s))) /\ Blocks(c) # <<>>
                /\ c.type # "If" => Len(Blocks(c)) = 1
                /\ c.arguments \in Seq(Seq(STRING))

ASSUME FileMakerAssumption

-----------------------------------------------------------------------------
(***************************************************************************)
(* Arguments.  The text of one is the sequence of its characters.          *)
(***************************************************************************)
Digits == <<"0", "1", "2", "3", "4", "5", "6", "7", "8", "9">>

IsDigit(char) == \E d \in DOMAIN Digits : Digits[d] = char

\* Mutant of ValidInteger: a leading zero passes.
ValidWithZero(str) == str # <<>> /\ \A i \in 1..Len(str) - 1 : IsDigit(str[i])

ValidInteger(str) ==
    /\ str # <<>>
    /\ \A i \in 1..Len(str) - 1 : IsDigit(str[i])
    /\ Head(str) # "0"

LeadingDigits(str) ==
    CHOOSE n \in 0..Len(str) : /\ \A i \in 1..n : IsDigit(str[i])
                               /\ n = Len(str) \/ ~IsDigit(str[n + 1])

DigitValue(char) == CHOOSE v \in 0..9 : Digits[v + 1] = char

\* The number str starts with, 0 if it starts with none.
Value(str) ==
    LET value[n \in 0..Len(str)] ==
            IF n = 0 THEN 0 ELSE 10 * value[n - 1] + DigitValue(str[n])
    IN  value[LeadingDigits(str)]

Negative(str) == str # <<>> /\ Head(str) = "-"

Unsigned(str) == IF Negative(str) THEN Tail(str) ELSE str

\* std::stoi.  The other signs and blanks it skips cannot be in front of a digit here.
Stoi(str) == IF Negative(str) THEN 0 - Value(Tail(str)) ELSE Value(str)

StoiThrows(str) ==
    LeadingDigits(Unsigned(str)) = 0 \/ Stoi(str) \notin (0 - MaxInt - 1)..MaxInt

TimeInSecondToIntegerThrows(str) ==
    \/ ~ValidInteger(Front(str))
    \/ Last(str) # "s"
    \/ StoiThrows(str)

ScheduleArgsValid(args) ==
    /\ Len(args) = 3
    /\ ~TimeInSecondToIntegerThrows(args[2])
    /\ ValidInteger(args[3])

Quoted(str) == Len(str) >= 2 /\ Head(str) = "\"" /\ Last(str) = "\""

\* For a reaction without end.  The grammar has no such token, but FileMaker takes any list
\* of Commands.
MinusOne == <<"-", "1">>

ReactOnArgsValid(args) ==
    /\ Len(args) = 2
    /\ Quoted(args[1])
    /\ args[2] = MinusOne \/ ValidInteger(args[2])

\* The argument MakeScheduleCommand and MakeReactOnCommand hand to stoi with nobody to
\* catch what it throws.
RepeatArgument(command) == Last(command.arguments)

-----------------------------------------------------------------------------
(***************************************************************************)
(* Lines of main.                                                          *)
(***************************************************************************)
None == "none"

Line(code) ==
    [code |-> code, manager |-> None, captures |-> {}, exprs |-> <<>>, name |-> None,
     op |-> None, type |-> None, declares |-> FALSE, seconds |-> 0, repeat |-> 0]

InsertCode(f, line) == [f EXCEPT !.before = Append(@, line)]

Include(f, type) ==
    IF type \in f.history_ THEN f
    ELSE [f EXCEPT !.includes = @ \cup {type}, !.history_ = @ \cup {type}]

\* Mutant of AddManager: code_it_ stays where it is, after the wait.
AddManagerAndStay(f, type) ==
    LET declared == InsertCode(f, [Line("declare") EXCEPT !.manager = type])
    IN  IF type \in f.history_ THEN f
        ELSE Include(IF type = "Alert" THEN declared
                     ELSE InsertCode(declared, [Line("wait") EXCEPT !.manager = type]), type)

\* AddTimerManager, AddReactOnService and AddAlertService: the declaration, and for the
\* first two the wait, in front of which the next lines go.
AddManager(f, type) ==
    IF type \in f.history_ THEN f
    ELSE [Include(InsertCode(f, [Line("declare") EXCEPT !.manager = type]), type) EXCEPT
            !.after = IF type = "Alert" THEN @
                      ELSE <<[Line("wait") EXCEPT !.manager = type]>> \o @]

\* The manager a command works with, if any; an order is an alert.
ManagerOf(c) ==
    CASE c.type \in {"Schedule", "ReactOn"} -> c.type
      [] c.type \in {"Alert", "SendOrder"} -> "Alert"
      [] OTHER -> None

LambdaCaptures == active_managers_ \cap file.history_

-----------------------------------------------------------------------------
(***************************************************************************)
(* A frame of work goes through the commands of one block: rest is what it *)
(* has left, prev_variable_types what MakeBlock restores at the end.       *)
(***************************************************************************)
Frame(command, block, commands, types) ==
    [command |-> command, block |-> block, rest |-> commands, prev_variable_types |-> types]

Top == work[Len(work)]

\* The command MakeLine is called for.
Command == Head(Top.rest)

\* work once MakeLine has returned for Command.
Advanced == [work EXCEPT ![Len(work)].rest = Tail(@)]

Init ==
    /\ script \in Scripts
    /\ work = <<Frame(NewCommand("constructor"), 1, CommandsOf(script), <<>>)>>
    /\ collecting = <<>>
    /\ file = [before |-> <<>>, after |-> <<Line("return")>>, history_ |-> {}, includes |-> {}]
    /\ active_managers_ = {}
    /\ variable_types_ = <<>>
    /\ ignored = 0
    /\ outcome = "making"

\* MakeLine is called for a command.
MakesLine == outcome = "making" /\ Top.rest # <<>>

\* The functions that return false at once.
Refused(c) ==
    CASE c.type = "Schedule" -> ~ScheduleArgsValid(c.arguments)
      [] c.type = "ReactOn" -> ~ReactOnArgsValid(c.arguments)
      [] c.type \in {"Print", "Alert", "If"} -> c.expression = NoExpression
      [] c.type = "SendOrder" -> Len(c.arguments_expr) # 3
      [] c.type = "VariableAssignment" -> c.variable_name \notin DOMAIN variable_types_
      [] c.type = "VariableDeclaration" -> FALSE

Accepts(types) == MakesLine /\ Command.type \in types /\ ~Refused(Command)

-----------------------------------------------------------------------------
(***************************************************************************)
(* The commands with blocks: their manager and those of the commands in    *)
(* their blocks, a line that opens the first block, the blocks with a line *)
(* between two of them, and a line that closes the last.                   *)
(***************************************************************************)
\* Mutant of CollectRequiredManagers: the branches of an if are forgotten.
CollectFromScope(c) == <<c.in_scope>>

\* The lists of commands it hands to ProcessCommandsForManagers.
CollectRequiredManagers(c) == Blocks(c)

CollectsManagers == collecting' = CollectRequiredManagers(Command) /\ outcome' = "collecting"

\* Schedule and ReactOn up to there.
MakeTimedCommand ==
    /\ Accepts({"Schedule", "ReactOn"})
    /\ ~StoiThrows(RepeatArgument(Command))
    /\ file' = AddManager(file, Command.type)
    /\ CollectsManagers
    /\ UNCHANGED <<script, work, active_managers_, variable_types_, ignored>>

\* stoi throws, and nothing catches it in the constructor.
RepeatThrows ==
    /\ Accepts({"Schedule", "ReactOn"})
    /\ StoiThrows(RepeatArgument(Command))
    /\ outcome' = "thrown"
    /\ UNCHANGED <<script, work, collecting, file, active_managers_, variable_types_, ignored>>

MakeIfCommand ==
    /\ Accepts({"If"})
    /\ CollectsManagers
    /\ UNCHANGED <<script, work, file, active_managers_, variable_types_, ignored>>

\* ProcessCommandsForManagers: the next command, then those of its blocks.
ProcessCommandsForManagers ==
    /\ outcome = "collecting"
    /\ collecting # <<>> /\ Head(collecting) # <<>>
    /\ LET c == Head(Head(collecting))
           manager == ManagerOf(c)
       IN  /\ IF manager = None THEN UNCHANGED <<file, active_managers_>>
              ELSE /\ file' = AddManager(file, manager)
                   /\ active_managers_' = active_managers_ \cup {manager}
           /\ collecting' = CollectRequiredManagers(c) \o <<Tail(Head(collecting))>>
                              \o Tail(collecting)
    /\ UNCHANGED <<script, work, variable_types_, ignored, outcome>>

\* ProcessCommandsForManagers returns.
ProcessedCommands ==
    /\ outcome = "collecting"
    /\ collecting # <<>> /\ Head(collecting) = <<>>
    /\ collecting' = Tail(collecting)
    /\ UNCHANGED <<script, work, file, active_managers_, variable_types_, ignored, outcome>>

\* The line in front of the first block.
OpeningLine(c) ==
    CASE c.type = "Schedule" ->
            [Line("CreateTimer") EXCEPT !.manager = "Schedule", !.captures = LambdaCaptures]
      [] c.type = "ReactOn" ->
            [Line("RegisterReaction") EXCEPT !.manager = "ReactOn", !.captures = LambdaCaptures,
                                             !.name = c.arguments[1],
                                             !.repeat = Stoi(RepeatArgument(c))]
      [] c.type = "If" ->
            [Line("if") EXCEPT
                !.exprs = <<ExpressionText(c.expression, variable_types_, "Boolean")>>]

\* The managers are collected: MakeBlock is called for the first block.
OpenBlock ==
    /\ outcome = "collecting" /\ collecting = <<>>
    /\ file' = InsertCode(file, OpeningLine(Command))
    /\ work' = Append(Advanced, Frame(Command, 1, Blocks(Command)[1], variable_types_))
    /\ outcome' = "making"
    /\ UNCHANGED <<script, collecting, active_managers_, variable_types_, ignored>>

\* Mutant of OuterVariableTypes: what the block declared stays known.
KeptVariableTypes == variable_types_

OuterVariableTypes == Top.prev_variable_types

\* MakeBlock has gone through its commands.
BlockEnds == outcome = "making" /\ Len(work) > 1 /\ Top.rest = <<>>

\* An else if or an else, and MakeBlock is called for its block.
NextBranch ==
    /\ BlockEnds
    /\ Top.block < Len(Blocks(Top.command))
    /\ LET c == Top.command
           line == IF Top.block <= Len(c.else_if_branches)
                     THEN [Line("else if") EXCEPT
                             !.exprs = <<ExpressionText(c.else_if_branches[Top.block][1],
                                                        OuterVariableTypes, "Boolean")>>]
                     ELSE Line("else")
       IN  /\ file' = InsertCode(file, line)
           /\ work' = [work EXCEPT ![Len(work)] =
                          Frame(c, Top.block + 1, Blocks(c)[Top.block + 1], OuterVariableTypes)]
    /\ variable_types_' = OuterVariableTypes
    /\ UNCHANGED <<script, collecting, active_managers_, ignored, outcome>>

\* The line behind the last block.
ClosingLine(c) ==
    IF c.type = "Schedule"
      THEN [Line("}") EXCEPT !.seconds = Stoi(c.arguments[2]), !.repeat = Stoi(RepeatArgument(c))]
      ELSE Line("}")

CloseBlock ==
    /\ BlockEnds
    /\ Top.block = Len(Blocks(Top.command))
    /\ file' = InsertCode(file, ClosingLine(Top.command))
    /\ work' = Front(work)
    /\ variable_types_' = OuterVariableTypes
    /\ UNCHANGED <<script, collecting, active_managers_, ignored, outcome>>

-----------------------------------------------------------------------------
\* The commands that are one line of main.
InsertsLine(f, line) ==
    /\ file' = InsertCode(f, line)
    /\ work' = Advanced
    /\ UNCHANGED <<script, collecting, active_managers_, ignored, outcome>>

MakePrintCommand ==
    /\ Accepts({"Print"})
    /\ InsertsLine(Include(file, "Print"),
                   [Line("cout") EXCEPT !.exprs =
                        <<ExpressionText(Command.expression, variable_types_, "String")>>])
    /\ UNCHANGED variable_types_

SendsAlert(code) ==
    /\ InsertsLine(AddManager(file, "Alert"),
                   [Line("SendAlert") EXCEPT !.manager = "Alert", !.exprs = <<code>>])
    /\ UNCHANGED variable_types_

MakeAlertCommand ==
    /\ Accepts({"Alert"})
    /\ SendsAlert(ExpressionText(Command.expression, variable_types_, "String"))

OrderLabels == <<"Order created: Name : ", ", Quantity : ", ", Price : ">>

\* order_info: the text of the arguments between labels, with + and no parentheses.
OrderInfo(args) ==
    LET Labelled(i) == Call("std::string", Token("cstring", OrderLabels[i])) \o Op("+") \o args[i]
    IN  Labelled(1) \o Op("+") \o Labelled(2) \o Op("+") \o Labelled(3)

MakeSendOrderCommand ==
    /\ Accepts({"SendOrder"})
    /\ SendsAlert(OrderInfo([i \in 1..3 |-> ExpressionText(Command.arguments_expr[i],
                                                           variable_types_, "String")]))

\* A name that is declared again gets an assignment, and the type of the new value.
MakeVariableDeclaration ==
    /\ Accepts({"VariableDeclaration"})
    /\ LET name == Command.variable_name
           var_type == ExpressionType(Command.expression, variable_types_)
           already_declared == name \in DOMAIN variable_types_
       IN  /\ variable_types_' = [x \in DOMAIN variable_types_ \cup {name} |->
                                    IF x = name THEN var_type ELSE variable_types_[x]]
           /\ InsertsLine(IF var_type = "String" /\ ~already_declared
                            THEN Include(file, "VariableDeclaration") ELSE file,
                          [Line("set") EXCEPT
                             !.name = name, !.op = "=", !.type = var_type,
                             !.declares = ~already_declared,
                             !.exprs = <<ExpressionText(Command.expression, variable_types_',
                                                        var_type)>>])

\* Only += is kept for a string, and none of them for a boolean.
MakeVariableAssignment ==
    /\ Accepts({"VariableAssignment"})
    /\ LET name == Command.variable_name
           var_type == variable_types_[name]
           compound_op == Command.compound_op
           op == IF var_type = "Numeric" \/ (var_type = "String" /\ compound_op = "+=")
                   THEN compound_op ELSE "="
       IN  InsertsLine(file, [Line("set") EXCEPT
                                !.name = name, !.op = op, !.type = var_type,
                                !.exprs = <<ExpressionText(Command.expression, variable_types_,
                                                           var_type)>>])
    /\ UNCHANGED variable_types_

-----------------------------------------------------------------------------
\* The constructor gives up on a command of the script; MakeBlock goes on to the next one.
Refuses ==
    /\ MakesLine
    /\ Refused(Command)
    /\ IF Len(work) = 1
         THEN outcome' = "refused" /\ UNCHANGED <<work, ignored>>
         ELSE work' = Advanced /\ ignored' = ignored + 1 /\ UNCHANGED outcome
    /\ UNCHANGED <<script, collecting, file, active_managers_, variable_types_>>

BuildOutput ==
    /\ outcome = "making"
    /\ Len(work) = 1 /\ Top.rest = <<>>
    /\ outcome' = "built"
    /\ UNCHANGED <<script, work, collecting, file, active_managers_, variable_types_, ignored>>

Next ==
    \/ MakeTimedCommand
    \/ RepeatThrows
    \/ MakeIfCommand
    \/ ProcessCommandsForManagers
    \/ ProcessedCommands
    \/ OpenBlock
    \/ NextBranch
    \/ CloseBlock
    \/ MakePrintCommand
    \/ MakeAlertCommand
    \/ MakeSendOrderCommand
    \/ MakeVariableDeclaration
    \/ MakeVariableAssignment
    \/ Refuses
    \/ BuildOutput

Spec == Init /\ [][Next]_vars
=============================================================================
