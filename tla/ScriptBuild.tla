----------------------------- MODULE ScriptBuild -----------------------------
(***************************************************************************)
(* From a submitted script to its binary: the backend's ScriptSubmit RPC   *)
(* (backend/src/services/script_submit_service.cc, handlers/,              *)
(* processors/script_submit_processor.cc), which parses the script,        *)
(* generates its main.cc and has it built (FileMaker::GenerateScript and   *)
(* backend/src/system_builder.py).  Each RPC runs on a thread of its own;  *)
(* they share the file system and the current directory of the process.    *)
(*                                                                         *)
(* Granularity.  One program that is run (system_builder.py in two parts,  *)
(* cmake, make) and one call into the file system is one step.  The root   *)
(* of the project is set in the environment and python3 starts.            *)
(***************************************************************************)
EXTENDS Integers, FiniteSets

CONSTANTS
    Submits,   \* the calls of ScriptSubmit
    Dirs,      \* output_bin/<user>/<title>
    DirOf,     \* of each submit: the directory its user and title name
    MaxActive, \* how many calls the server runs at once
    None

ASSUME BuildAssumption ==
    /\ DirOf \in [Submits -> Dirs]
    /\ MaxActive \in Nat
    /\ None \notin Submits \cup Dirs

VARIABLES
    project,    \* is there a CMakeLists.txt, with the sources, in each directory?
    main,       \* the submit whose main.cc is there
    build,      \* is there a subdirectory build?
    configured, \* has cmake written its files into it?
    binary,     \* the submit whose main.cc the binary in it was made of
    epoch,      \* how often each directory lost its build
    cwd,        \* the current directory: build in a directory, and in which epoch
    pc,         \* where each submit is
    outcome,    \* what became of each submit; nobody is told (the reply is always OK)
    thrown      \* the call whose exception met noexcept and ended the backend

files == <<project, main, build, configured, binary, epoch>>
vars == <<files, cwd, pc, outcome, thrown>>

\* Not called, before each step of the pipeline, replied.
PCs == {"out", "parse", "delete", "copy", "write", "mkdir", "chdir", "cmake", "make",
        "replied"}

Outcomes == {"none", "invalid", "failed", "built"}

ThrowingCalls == {"none", "create_directories", "current_path"}

Init ==
    /\ project = [d \in Dirs |-> FALSE]
    /\ main = [d \in Dirs |-> None]
    /\ build = [d \in Dirs |-> FALSE]
    /\ configured = [d \in Dirs |-> FALSE]
    /\ binary = [d \in Dirs |-> None]
    /\ epoch = [d \in Dirs |-> 0]
    /\ cwd = None
    /\ pc = [s \in Submits |-> "out"]
    /\ outcome = [s \in Submits |-> "none"]
    /\ thrown = "none"

Active(s) == pc[s] \notin {"out", "replied"}

\* Submit s is about to take this step, and the backend runs.
At(s, step) == thrown = "none" /\ pc[s] = step

Goto(s, step) == pc' = [pc EXCEPT ![s] = step]

Replies(s, result) == Goto(s, "replied") /\ outcome' = [outcome EXCEPT ![s] = result]

-----------------------------------------------------------------------------
ScriptSubmit(s) ==
    /\ At(s, "out")
    /\ Cardinality({t \in Submits : Active(t)}) < MaxActive
    /\ Goto(s, "parse")
    /\ UNCHANGED <<files, cwd, outcome, thrown>>

\* The visitor and FileMaker accept the script.
Compiles(s) ==
    /\ At(s, "parse")
    /\ Goto(s, "delete")
    /\ UNCHANGED <<files, cwd, outcome, thrown>>

\* They do not, and no file is touched.
Rejects(s) ==
    /\ At(s, "parse")
    /\ Replies(s, "invalid")
    /\ UNCHANGED <<files, cwd, thrown>>

-----------------------------------------------------------------------------
(***************************************************************************)
(* system_builder.py.                                                      *)
(***************************************************************************)

\* Only its subdirectory deleted.
WithoutBuild(d) ==
    /\ build' = [build EXCEPT ![d] = FALSE]
    /\ UNCHANGED <<project, main, configured, binary, epoch>>

\* shutil.rmtree
Emptied(d) ==
    /\ project' = [project EXCEPT ![d] = FALSE]
    /\ main' = [main EXCEPT ![d] = None]
    /\ build' = [build EXCEPT ![d] = FALSE]
    /\ configured' = [configured EXCEPT ![d] = FALSE]
    /\ binary' = [binary EXCEPT ![d] = None]
    /\ epoch' = [epoch EXCEPT ![d] = @ + 1]

Deletes(s) ==
    /\ At(s, "delete")
    /\ Emptied(DirOf[s])
    /\ Goto(s, "copy")
    /\ UNCHANGED <<cwd, outcome, thrown>>

\* What an rmtree has deleted that met an error, or that was never reached: any part.
PartlyEmptied(d) ==
    \E left \in SUBSET {"project", "main", "build", "configured", "binary"} :
        /\ left \cap {"configured", "binary"} # {} => "build" \in left
        /\ project' = [project EXCEPT ![d] = @ /\ "project" \in left]
        /\ main' = [main EXCEPT ![d] = IF "main" \in left THEN @ ELSE None]
        /\ build' = [build EXCEPT ![d] = @ /\ "build" \in left]
        /\ configured' = [configured EXCEPT ![d] = @ /\ "configured" \in left]
        /\ binary' = [binary EXCEPT ![d] = IF "binary" \in left THEN @ ELSE None]
        /\ epoch' = [epoch EXCEPT ![d] = IF "build" \in left THEN @ ELSE @ + 1]

\* The program ends with an exception, before it copies anything.  GenerateScript does not
\* look at the result of system().
DeleteFails(s) ==
    /\ At(s, "delete")
    /\ PartlyEmptied(DirOf[s])
    /\ Goto(s, "write")
    /\ UNCHANGED <<cwd, outcome, thrown>>

Copies(s) ==
    /\ At(s, "copy")
    /\ project' = [project EXCEPT ![DirOf[s]] = TRUE]
    /\ Goto(s, "write")
    /\ UNCHANGED <<main, build, configured, binary, epoch, cwd, outcome, thrown>>

\* A file cannot be copied, which nobody looks at either.
CopyFails(s) ==
    /\ At(s, "copy")
    /\ Goto(s, "write")
    /\ UNCHANGED <<files, cwd, outcome, thrown>>

-----------------------------------------------------------------------------
(***************************************************************************)
(* The rest of GenerateScript.                                             *)
(***************************************************************************)

\* main.cc written where the process is.
WrittenHere(s) ==
    main' = IF cwd = None THEN main ELSE [main EXCEPT ![cwd[1]] = s]

\* main.cc written to its absolute path.
Written(s) == main' = [main EXCEPT ![DirOf[s]] = s]

Writes(s) ==
    /\ At(s, "write")
    /\ Written(s)
    /\ Goto(s, "mkdir")
    /\ UNCHANGED <<project, build, configured, binary, epoch, cwd, outcome, thrown>>

\* A directory that is expected to be there.
NotMade(d) == UNCHANGED build

\* create_directories
Made(d) == build' = [build EXCEPT ![d] = TRUE]

MakesDirectory(s) ==
    /\ At(s, "mkdir")
    /\ Made(DirOf[s])
    /\ Goto(s, "chdir")
    /\ UNCHANGED <<project, main, configured, binary, epoch, cwd, outcome, thrown>>

\* A current directory that is set for the first build only.
MovesOnce(s) == cwd' = IF cwd = None THEN <<DirOf[s], epoch[DirOf[s]]>> ELSE cwd

\* create_directories throws when the directory cannot be made (a title that is no file
\* name, a full disk), and GenerateScript is noexcept.
CannotCreate(s) ==
    /\ At(s, "write") \/ At(s, "mkdir")
    /\ thrown' = "create_directories"
    /\ UNCHANGED <<files, cwd, pc, outcome>>

\* current_path(build) is the current directory of the whole process.
Moves(s) == cwd' = <<DirOf[s], epoch[DirOf[s]]>>

ChangesDirectory(s) ==
    /\ At(s, "chdir")
    /\ build[DirOf[s]]
    /\ Moves(s)
    /\ Goto(s, "cmake")
    /\ UNCHANGED <<files, outcome, thrown>>

\* It throws when the directory is gone.
Terminates(s) ==
    /\ At(s, "chdir")
    /\ ~build[DirOf[s]]
    /\ thrown' = "current_path"
    /\ UNCHANGED <<files, cwd, pc, outcome>>

\* Is the current directory still the one that was entered?
Attached == cwd # None /\ cwd[2] = epoch[cwd[1]]

\* cmake .. in the current directory.
Configures(s) ==
    /\ At(s, "cmake")
    /\ Attached /\ project[cwd[1]] /\ main[cwd[1]] # None
    /\ configured' = [configured EXCEPT ![cwd[1]] = TRUE]
    /\ Goto(s, "make")
    /\ UNCHANGED <<project, main, build, binary, epoch, cwd, outcome, thrown>>

\* make in the current directory, which may be another one by now.
Builds(s) ==
    /\ At(s, "make")
    /\ Attached /\ configured[cwd[1]] /\ main[cwd[1]] # None
    /\ binary' = [binary EXCEPT ![cwd[1]] = main[cwd[1]]]
    /\ Replies(s, "built")
    /\ UNCHANGED <<project, main, build, configured, epoch, cwd, thrown>>

\* main.cc cannot be opened, a file that cmake or make needs is missing, or one of them
\* finds an error.
BuildFails(s) ==
    /\ At(s, "write") \/ At(s, "cmake") \/ At(s, "make")
    /\ Replies(s, "failed")
    /\ UNCHANGED <<files, cwd, thrown>>

Next == \E s \in Submits :
    \/ ScriptSubmit(s)
    \/ Compiles(s) \/ Rejects(s)
    \/ Deletes(s) \/ DeleteFails(s) \/ Copies(s) \/ CopyFails(s)
    \/ Writes(s) \/ MakesDirectory(s) \/ CannotCreate(s)
    \/ ChangesDirectory(s) \/ Terminates(s)
    \/ Configures(s) \/ Builds(s) \/ BuildFails(s)

Spec == Init /\ [][Next]_vars

-----------------------------------------------------------------------------
(***************************************************************************)
(* Properties.                                                             *)
(***************************************************************************)

TypeOK ==
    /\ project \in [Dirs -> BOOLEAN]
    /\ main \in [Dirs -> Submits \cup {None}]
    /\ build \in [Dirs -> BOOLEAN]
    /\ configured \in [Dirs -> BOOLEAN]
    /\ binary \in [Dirs -> Submits \cup {None}]
    /\ epoch \in [Dirs -> Nat]
    /\ cwd = None \/ cwd \in Dirs \X Nat
    /\ pc \in [Submits -> PCs]
    /\ outcome \in [Submits -> Outcomes]
    /\ \A d \in Dirs : configured[d] \/ binary[d] # None => build[d]
    /\ thrown \in ThrowingCalls

\* Whatever is built where and when, the binary of a script is made of a main.cc that
\* was submitted for that script.
BinaryOfItsScript == \A d \in Dirs : binary[d] # None => DirOf[binary[d]] = d
=============================================================================
