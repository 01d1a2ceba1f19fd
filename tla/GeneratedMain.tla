---------------------------- MODULE GeneratedMain ----------------------------
(***************************************************************************)
(* What the generated main owes to C++ and to the managers, whatever the   *)
(* script: the properties of FileMaker that are read off the lines alone.  *)
(* The lines of main are taken by their positions.                         *)
(***************************************************************************)
EXTENDS FileMaker

Lines == file.before \o file.after

Opens(line) == line.code \in {"CreateTimer", "RegisterReaction", "if"}
Branches(line) == line.code \in {"else if", "else"}
Closes(line) == line.code = "}"

\* How many blocks of main are open after the first n lines.
Nesting(lines, n) == Cardinality({i \in 1..n : Opens(lines[i])})
                       - Cardinality({i \in 1..n : Closes(lines[i])})

\* The block that line j opens is open from there to line n, or closed by line n.
StaysOpen(lines, j, n) ==
    Opens(lines[j]) /\ \A k \in j..n : Nesting(lines, k) >= Nesting(lines, j)

Encloses(lines, j, i) == j < i /\ StaysOpen(lines, j, i - 1)

Ends(lines, j, i) == Encloses(lines, j, i) /\ Nesting(lines, i) < Nesting(lines, j)

\* What line i declares is in scope in C++ up to line n: its block has neither closed nor
\* gone on to another branch.
InScope(lines, i, n) ==
    /\ lines[i].declares
    /\ \A k \in i..n : /\ Nesting(lines, k) >= Nesting(lines, i)
                       /\ Branches(lines[k]) => Nesting(lines, k) > Nesting(lines, i)

Declarations(lines, n) == {i \in 1..n : InScope(lines, i, n)}

\* The declarations of x that are in scope after n lines, and the one C++ looks up.
Definitions(lines, n, x) == {i \in Declarations(lines, n) : lines[i].name = x}

Latest(lines, n, x) ==
    CHOOSE i \in Definitions(lines, n, x) : \A k \in Definitions(lines, n, x) : k <= i

\* The variables in scope after n lines, with the types they were defined with.
Visible(lines, n) ==
    [x \in {lines[i].name : i \in Declarations(lines, n)} |-> lines[Latest(lines, n, x)].type]

\* The names that were given a value of another type than the one they were defined with.
Retyped(lines, n) ==
    {lines[i].name : i \in {i \in 1..n : /\ lines[i].code = "set"
                                         /\ lines[i].type # Visible(lines, i)[lines[i].name]}}

-----------------------------------------------------------------------------
\* Every use of a manager in a generated main (file_maker.cc:700-821) is one C++ can
\* resolve: the manager is declared once, outside every block and before the use, its header
\* is included, and each lambda around the use captures it by reference - a manager that is
\* not captured so would be copied by [=].
UsesAreBound ==
    outcome = "built" =>
        \A i \in DOMAIN Lines : Lines[i].manager # None =>
            \E d \in 1..i :
                /\ {d} = {j \in DOMAIN Lines : Lines[j].code = "declare"
                                                 /\ Lines[j].manager = Lines[i].manager}
                /\ Nesting(Lines, d) = 0
                /\ Lines[i].manager \in file.includes
                /\ \A j \in DOMAIN Lines :
                      Encloses(Lines, j, i) /\ Lines[j].code # "if"
                        => Lines[i].manager \in Lines[j].captures

\* Main ends with the waits of the managers that have one, each outside every block, after
\* every other use and in the reverse order of their declarations (code_it_ moves in front
\* of each wait, file_maker.cc:711-735); ScriptProcess starts from this.
WaitsCloseMain ==
    outcome = "built" =>
        LET waits == {i \in DOMAIN Lines : Lines[i].code = "wait"}
            awaited == {i \in DOMAIN Lines : Lines[i].code = "declare"
                                               /\ Lines[i].manager # "Alert"}
        IN  /\ \E n \in DOMAIN Lines : waits = n..Len(Lines) - 1
            /\ {Lines[w].manager : w \in waits} = {Lines[d].manager : d \in awaited}
            /\ \A v, w \in waits, c, d \in awaited :
                  Lines[v].manager = Lines[c].manager /\ Lines[w].manager = Lines[d].manager
                    => (v < w <=> d < c)
            /\ Nesting(Lines, Len(Lines)) = 0

\* variable_types_ is what C++ sees at the line that comes next: the same names, however
\* blocks and branches open and close, with the types they were defined with - except a
\* name that was given a value of another type, for which an assignment is generated.
VariablesAgree ==
    outcome = "making" =>
        LET n == Len(file.before)
            visible == Visible(file.before, n)
        IN  /\ DOMAIN visible = DOMAIN variable_types_
            /\ \A x \in DOMAIN visible :
                  visible[x] = variable_types_[x] \/ x \in Retyped(file.before, n)

\* Whatever text the arguments of Schedule and ReactOn are, the main that is generated has
\* timers that wait at least one second and repeat at least once, in the line that ends
\* their block, and reactions that repeat at least once or, with -1, without end, as
\* TimerManager and ReactOnService expect.  Of the numbers that fit an int, stoi throws none
\* out of the constructor but a single character: ValidInteger does not look at the last one
\* (file_maker.cc:200).
ArgumentsAreNumbers ==
    /\ \A i \in DOMAIN file.before :
          LET line == file.before[i]
          IN  /\ line.code = "RegisterReaction" => line.repeat \in 1..MaxInt \cup {-1}
              /\ Closes(line) =>
                    \A j \in 1..i : Ends(file.before, j, i) /\ file.before[j].code = "CreateTimer"
                      => line.seconds \in 1..MaxInt /\ line.repeat \in 1..MaxInt
    /\ outcome = "thrown" =>
          LET repeat == RepeatArgument(Command)
          IN  Len(repeat) = 1 \/ Stoi(repeat) > MaxInt
=============================================================================
