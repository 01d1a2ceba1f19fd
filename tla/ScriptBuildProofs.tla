-------------------------- MODULE ScriptBuildProofs --------------------------
(***************************************************************************)
(* What holds of ScriptBuild for every set of submits, of directories and  *)
(* every number of submits that are served at once; and, in the second     *)
(* half, of the submits that are alone (ScriptBuildAlone).                 *)
(***************************************************************************)
EXTENDS ScriptBuildAlone, TLAPS

\* A current directory that has not been deleted since it was entered still has the
\* subdirectory build that was entered.
CwdIsThere ==
    cwd # None =>
        /\ cwd[2] <= epoch[cwd[1]]
        /\ cwd[2] = epoch[cwd[1]] => build[cwd[1]]

\* The source in a directory was submitted for it.
SourceOfItsScript == \A d \in Dirs : main[d] # None => DirOf[main[d]] = d

IInv == TypeOK /\ CwdIsThere /\ SourceOfItsScript /\ BinaryOfItsScript

\* The invariant holds at the start, when there are no files.
LEMMA InitIInv == Init => IInv
<1> SUFFICES ASSUME Init
             PROVE  IInv
    OBVIOUS
<1> USE DEF Init
<1>1. TypeOK
    <2>1. project \in [Dirs -> BOOLEAN] /\ build \in [Dirs -> BOOLEAN]
        OBVIOUS
    <2>2. configured \in [Dirs -> BOOLEAN] /\ thrown \in ThrowingCalls
        BY DEF ThrowingCalls
    <2>3. main \in [Dirs -> Submits \cup {None}] /\ binary \in [Dirs -> Submits \cup {None}]
        OBVIOUS
    <2>4. epoch \in [Dirs -> Nat] /\ cwd = None
        OBVIOUS
    <2>5. pc \in [Submits -> PCs] /\ outcome \in [Submits -> Outcomes]
        BY DEF PCs, Outcomes
    <2>6. \A d \in Dirs : ~configured[d] /\ binary[d] = None
        OBVIOUS
    <2> QED
        BY <2>1, <2>2, <2>3, <2>4, <2>5, <2>6 DEF TypeOK
<1>2. CwdIsThere
    BY DEF CwdIsThere
<1>3. SourceOfItsScript /\ BinaryOfItsScript
    BY DEF SourceOfItsScript, BinaryOfItsScript
<1> QED
    BY <1>1, <1>2, <1>3 DEF IInv

\* Every step of the pipeline of every submit preserves it.
LEMMA StepIInv == IInv /\ [Next]_vars => IInv'
<1> SUFFICES ASSUME IInv, [Next]_vars
             PROVE  IInv'
    OBVIOUS
<1> USE BuildAssumption DEF IInv, TypeOK, CwdIsThere, SourceOfItsScript,
        BinaryOfItsScript, PCs, Outcomes, At, Goto, Replies, files
<1>1. ASSUME NEW s \in Submits, ScriptSubmit(s)
      PROVE  IInv'
    BY <1>1 DEF ScriptSubmit
<1>2. ASSUME NEW s \in Submits, Compiles(s)
      PROVE  IInv'
    BY <1>2 DEF Compiles
<1>3. ASSUME NEW s \in Submits, Rejects(s)
      PROVE  IInv'
    BY <1>3 DEF Rejects
<1>4. ASSUME NEW s \in Submits, Deletes(s)
      PROVE  IInv'
    <2>1. TypeOK'
        BY <1>4 DEF Deletes, Emptied
    <2>2. CwdIsThere'
        BY <1>4 DEF Deletes, Emptied
    <2>3. SourceOfItsScript' /\ BinaryOfItsScript'
        BY <1>4 DEF Deletes, Emptied
    <2> QED
        BY <2>1, <2>2, <2>3
<1>4a. ASSUME NEW s \in Submits, DeleteFails(s)
       PROVE  IInv'
    <2>1. PICK left \in SUBSET {"project", "main", "build", "configured", "binary"} :
             /\ left \cap {"configured", "binary"} # {} => "build" \in left
             /\ project' = [project EXCEPT ![DirOf[s]] = @ /\ "project" \in left]
             /\ main' = [main EXCEPT ![DirOf[s]] = IF "main" \in left THEN @ ELSE None]
             /\ build' = [build EXCEPT ![DirOf[s]] = @ /\ "build" \in left]
             /\ configured' = [configured EXCEPT ![DirOf[s]] = @ /\ "configured" \in left]
             /\ binary' = [binary EXCEPT ![DirOf[s]] = IF "binary" \in left THEN @ ELSE None]
             /\ epoch' = [epoch EXCEPT ![DirOf[s]] = IF "build" \in left THEN @ ELSE @ + 1]
        BY <1>4a DEF DeleteFails, PartlyEmptied
    <2>2. /\ pc' = [pc EXCEPT ![s] = "write"]
          /\ UNCHANGED <<cwd, outcome, thrown>>
        BY <1>4a DEF DeleteFails
    <2>3. /\ project' \in [Dirs -> BOOLEAN]
          /\ build' \in [Dirs -> BOOLEAN]
          /\ configured' \in [Dirs -> BOOLEAN]
        BY <2>1
    <2>4. /\ main' \in [Dirs -> Submits \cup {None}]
          /\ binary' \in [Dirs -> Submits \cup {None}]
          /\ epoch' \in [Dirs -> Nat]
          /\ pc' \in [Submits -> PCs]
        BY <2>1, <2>2
    <2>5. \A d \in Dirs : configured'[d] \/ binary'[d] # None => build'[d]
        <3>1. ASSUME NEW d \in Dirs, configured'[d] \/ binary'[d] # None
              PROVE  build'[d]
            <4>1. configured[d] \/ binary[d] # None
                BY <2>1, <3>1
            <4>2. d = DirOf[s] => "build" \in left
                BY <2>1, <3>1
            <4> QED
                BY <2>1, <4>1, <4>2
        <3> QED
            BY <3>1
    <2>6. CwdIsThere'
        BY <2>1, <2>2
    <2>7. SourceOfItsScript' /\ BinaryOfItsScript'
        BY <2>1
    <2> QED
        BY <2>2, <2>3, <2>4, <2>5, <2>6, <2>7
<1>5. ASSUME NEW s \in Submits, Copies(s)
      PROVE  IInv'
    <2>1. project' \in [Dirs -> BOOLEAN] /\ pc' \in [Submits -> PCs]
        BY <1>5 DEF Copies
    <2> QED
        BY <1>5, <2>1 DEF Copies
<1>5a. ASSUME NEW s \in Submits, CopyFails(s)
       PROVE  IInv'
    BY <1>5a DEF CopyFails
<1>6. ASSUME NEW s \in Submits, Writes(s)
      PROVE  IInv'
    BY <1>6 DEF Writes, Written
<1>7. ASSUME NEW s \in Submits, MakesDirectory(s)
      PROVE  IInv'
    BY <1>7 DEF MakesDirectory, Made
<1>7a. ASSUME NEW s \in Submits, CannotCreate(s)
       PROVE  IInv'
    BY <1>7a DEF CannotCreate, ThrowingCalls
<1>8. ASSUME NEW s \in Submits, ChangesDirectory(s)
      PROVE  IInv'
    BY <1>8 DEF ChangesDirectory, Moves
<1>9. ASSUME NEW s \in Submits, Terminates(s)
      PROVE  IInv'
    BY <1>9 DEF Terminates, ThrowingCalls
<1>10. ASSUME NEW s \in Submits, Configures(s)
       PROVE  IInv'
    BY <1>10 DEF Configures, Attached
<1>11. ASSUME NEW s \in Submits, Builds(s)
       PROVE  IInv'
    BY <1>11 DEF Builds, Attached
<1>12. ASSUME NEW s \in Submits, BuildFails(s)
       PROVE  IInv'
    BY <1>12 DEF BuildFails
<1>13. ASSUME UNCHANGED vars
       PROVE  IInv'
    BY <1>13 DEF vars
<1> QED
    BY <1>1, <1>2, <1>3, <1>4, <1>5, <1>6, <1>7, <1>8, <1>9, <1>10, <1>11, <1>12, <1>13,
       <1>4a, <1>5a, <1>7a
    DEF Next

\* Together: the invariant holds in every state of every behaviour.
THEOREM Invariance == Spec => []IInv
BY InitIInv, StepIInv, PTL DEF Spec

\* The types of the state, and the order in which the files of a directory appear: no
\* binary without a build directory, however submits interleave.
THEOREM TypeCorrect == Spec => []TypeOK
<1>1. IInv => TypeOK
    BY DEF IInv
<1> QED
    BY Invariance, <1>1, PTL

\* The binary of a script is made of a main.cc that was submitted for that script,
\* although submits share one current directory and cmake and make run in it.
THEOREM BinariesStayApart == Spec => []BinaryOfItsScript
<1>1. IInv => BinaryOfItsScript
    BY DEF IInv
<1> QED
    BY Invariance, <1>1, PTL

-----------------------------------------------------------------------------
(***************************************************************************)
(* Submits that are alone.  Nobody else is in the pipeline while such a    *)
(* submit is, so each step finds what the one before it has left.          *)
(***************************************************************************)

\* The outcome of a submit is its reply's: until then there is none.
NoOutcomeYet == \A s \in Submits : Active(s) \/ pc[s] = "out" => outcome[s] = "none"

\* Submit s is being served, and has had the backend for itself.
Solo(s) == alone[s] /\ Active(s)

SoloIsOnly == \A s \in Submits : Solo(s) => \A t \in Submits \ {s} : ~Active(t)

\* Nobody has emptied a directory for a submit that has not come that far.
NotYetCleared == \A s \in Submits : pc[s] \in {"out", "parse", "delete"} => s \notin cleared

\* From the deletion to make, its directory has no binary.
SoloHasNoBinary == \A s \in Submits : Solo(s) /\ s \in cleared =>
    (pc[s] \in {"copy", "write", "mkdir", "chdir", "cmake", "make"} => binary[DirOf[s]] = None)

\* Once its main.cc is written, that is the one in its directory.
SoloHasSource == \A s \in Submits :
    Solo(s) /\ pc[s] \in {"mkdir", "chdir", "cmake", "make"} => main[DirOf[s]] = s

\* The directory that it has made is there to be entered, and is the current one then.
SoloIsInPlace == \A s \in Submits : Solo(s) =>
    /\ pc[s] = "chdir" => build[DirOf[s]]
    /\ pc[s] \in {"cmake", "make"} => cwd = <<DirOf[s], epoch[DirOf[s]]>>

AInv ==
    /\ alone \in [Submits -> BOOLEAN]
    /\ NoOutcomeYet
    /\ NotYetCleared
    /\ SoloIsOnly
    /\ SoloHasNoBinary
    /\ SoloHasSource
    /\ SoloIsInPlace
    /\ AloneFindsItsBuild

\* The invariant holds at the start, when no submit is served.
LEMMA InitAInv == AloneInit => AInv
BY DEF AloneInit, Init, AInv, NoOutcomeYet, NotYetCleared, Active, SoloIsOnly, Solo,
    SoloHasNoBinary,
       SoloHasSource, SoloIsInPlace, AloneFindsItsBuild

\* What submit s does next.
StepOf(s) ==
    \/ ScriptSubmit(s)
    \/ Compiles(s) \/ Rejects(s)
    \/ Deletes(s) \/ DeleteFails(s) \/ Copies(s) \/ CopyFails(s)
    \/ Writes(s) \/ MakesDirectory(s) \/ CannotCreate(s)
    \/ ChangesDirectory(s) \/ Terminates(s)
    \/ Configures(s) \/ Builds(s) \/ BuildFails(s)

\* A step of s moves s only, and only while the backend runs and s is not replied to.
LEMMA StepFrame ==
    ASSUME TypeOK, NEW s \in Submits, StepOf(s)
    PROVE  /\ thrown = "none" /\ pc[s] # "replied"
           /\ pc[s] = "out" => pc'[s] = "parse"
           /\ \A u \in Submits \ {s} : pc'[u] = pc[u] /\ outcome'[u] = outcome[u]
BY DEF TypeOK, StepOf, ScriptSubmit, Compiles, Rejects, Deletes, DeleteFails, Copies,
    CopyFails, Writes, MakesDirectory, CannotCreate, ChangesDirectory, Terminates,
    Configures, Builds, BuildFails, At, Goto, Replies, Active

\* After a step of s nobody but s is alone in the pipeline, and s is only if it was
\* before or has just been called.
LEMMA SoloStep ==
    ASSUME TypeOK, AInv, NEW s \in Submits, StepOf(s), AloneNext
    PROVE  /\ \A u \in Submits : Solo(u)' => u = s
           /\ Solo(s)' /\ pc'[s] # "parse" => Solo(s)
<1>1. /\ thrown = "none" /\ pc[s] # "replied"
      /\ pc[s] = "out" => pc'[s] = "parse"
      /\ \A u \in Submits \ {s} : pc'[u] = pc[u]
    BY StepFrame
<1>2. \A u \in Submits : alone'[u] =
          /\ pc[u] = "out" \/ alone[u]
          /\ pc[u] = "replied" \/ \A t \in Submits \ {u} : ~Active(t)'
    BY DEF AloneNext, aloneVars, vars
<1>3. ASSUME NEW u \in Submits, Solo(u)', u # s
      PROVE  FALSE
    <2>1. Active(u) /\ pc[u] # "out" /\ pc[u] # "replied"
        BY <1>1, <1>3 DEF Solo, Active
    <2>2. Solo(u) /\ ~Active(s)'
        BY <1>2, <1>3, <2>1 DEF Solo
    <2>3. ~Active(s)
        BY <2>2, <1>3 DEF AInv, SoloIsOnly
    <2> QED
        BY <1>1, <2>2, <2>3 DEF Active
<1>4. Solo(s)' /\ pc'[s] # "parse" => Solo(s)
    BY <1>1, <1>2 DEF Solo, Active
<1> QED
    BY <1>3, <1>4

\* Every step of every submit preserves the invariant.
LEMMA StepAInv == IInv /\ AInv /\ [AloneNext]_aloneVars => AInv'
<1> SUFFICES ASSUME IInv, AInv, [AloneNext]_aloneVars
             PROVE  AInv'
    OBVIOUS
<1>1. CASE UNCHANGED aloneVars
    BY <1>1 DEF aloneVars, vars, files, AInv, NoOutcomeYet, NotYetCleared, Active,
        SoloIsOnly, Solo, SoloHasNoBinary, SoloHasSource, SoloIsInPlace, AloneFindsItsBuild
<1>2. CASE AloneNext
    <2>0. PICK s \in Submits : StepOf(s)
        BY <1>2 DEF AloneNext, Next, StepOf
    <2> USE BuildAssumption
    <2>1. TypeOK
        BY DEF IInv
    <2>2. /\ thrown = "none" /\ pc[s] # "replied"
          /\ pc[s] = "out" => pc'[s] = "parse"
          /\ \A u \in Submits \ {s} : pc'[u] = pc[u] /\ outcome'[u] = outcome[u]
        BY <2>0, <2>1, StepFrame
    <2>3. /\ \A u \in Submits : Solo(u)' => u = s
          /\ Solo(s)' /\ pc'[s] # "parse" => Solo(s)
        BY <1>2, <2>0, <2>1, SoloStep
    <2>4. alone' = [u \in Submits |->
              /\ pc[u] = "out" \/ alone[u]
              /\ pc[u] = "replied" \/ \A t \in Submits \ {u} : ~Active(t)']
        BY <1>2 DEF AloneNext
    <2>5. alone' \in [Submits -> BOOLEAN]
        BY <2>4
    <2>6. SoloIsOnly'
        BY <2>2, <2>3, <2>4 DEF SoloIsOnly, Solo
    <2>7. NoOutcomeYet'
        <3>1. Active(s)' \/ pc'[s] = "out" => outcome'[s] = "none"
            BY <2>0, <2>1 DEF TypeOK, StepOf, ScriptSubmit, Compiles, Rejects, Deletes,
                DeleteFails, Copies, CopyFails, Writes, MakesDirectory, CannotCreate,
                ChangesDirectory, Terminates, Configures, Builds, BuildFails, At, Goto,
                Replies, Active, AInv, NoOutcomeYet
        <3> QED
            BY <2>2, <3>1 DEF AInv, NoOutcomeYet, Active
    <2>7a. NotYetCleared'
        <3>1. cleared' = cleared \cup {u \in Submits : pc'[u] = "copy"}
            BY <1>2 DEF AloneNext
        <3>2. pc'[s] \in {"out", "parse", "delete"} => pc[s] \in {"out", "parse"}
            BY <2>0, <2>1 DEF TypeOK, StepOf, ScriptSubmit, Compiles, Rejects, Deletes,
                DeleteFails, Copies, CopyFails, Writes, MakesDirectory, CannotCreate,
                ChangesDirectory, Terminates, Configures, Builds, BuildFails, At, Goto,
                Replies
        <3> QED
            BY <2>2, <3>1, <3>2 DEF AInv, NotYetCleared
    <2>8. SoloHasNoBinary'
        <3>1. cleared' = cleared \cup {u \in Submits : pc'[u] = "copy"}
            BY <1>2 DEF AloneNext
        <3>2. ASSUME Solo(s), s \in cleared',
                     pc'[s] \in {"copy", "write", "mkdir", "chdir", "cmake", "make"}
              PROVE  binary'[DirOf[s]] = None
            <4>1. CASE Deletes(s)
                BY <4>1, <2>1 DEF Deletes, Emptied, TypeOK
            <4>2. CASE DeleteFails(s)
                BY <4>2, <3>1, <3>2, <2>1 DEF DeleteFails, At, Goto, TypeOK, AInv,
                    NotYetCleared
            <4>3. ASSUME ~Deletes(s), ~DeleteFails(s)
                  PROVE  binary'[DirOf[s]] = None
                <5>1. s \in cleared
                    BY <2>0, <2>1, <3>1, <3>2, <4>3 DEF TypeOK, StepOf, ScriptSubmit,
                        Compiles, Rejects, Copies, CopyFails, Writes, MakesDirectory,
                        CannotCreate, ChangesDirectory, Terminates, Configures, Builds,
                        BuildFails, At, Goto, Replies
                <5> QED
                    BY <2>0, <2>1, <3>2, <4>3, <5>1 DEF TypeOK, StepOf, ScriptSubmit,
                        Compiles, Rejects, Copies, CopyFails, Writes, MakesDirectory,
                        CannotCreate, ChangesDirectory, Terminates, Configures, Builds,
                        BuildFails, At, Goto, Replies, files, AInv, SoloHasNoBinary,
                        NotYetCleared
            <4> QED
                BY <4>1, <4>2, <4>3
        <3> QED
            BY <2>3, <3>1, <3>2 DEF SoloHasNoBinary
    <2>9. SoloHasSource'
        <3>1. Solo(s) /\ pc'[s] \in {"mkdir", "chdir", "cmake", "make"}
                  => main'[DirOf[s]] = s
            BY <2>0, <2>1 DEF TypeOK, StepOf, ScriptSubmit, Compiles, Rejects, Deletes,
                DeleteFails, Copies, CopyFails, Writes, MakesDirectory, CannotCreate,
                ChangesDirectory, Terminates, Configures, Builds, BuildFails, At, Goto,
                Replies, Active, Emptied, Written, Made, Moves, files, AInv, SoloHasSource
        <3> QED
            BY <2>3, <3>1 DEF SoloHasSource
    <2>10. SoloIsInPlace'
        <3>1. Solo(s) /\ pc'[s] = "chdir" => build'[DirOf[s]]
            <4>1. CASE Terminates(s)
                BY <4>1 DEF Terminates, At, files, AInv, SoloIsInPlace
            <4> QED
                BY <4>1, <2>0, <2>1 DEF TypeOK, StepOf, ScriptSubmit, Compiles, Rejects,
                    Deletes, DeleteFails, Copies, CopyFails, Writes, MakesDirectory,
                    CannotCreate, ChangesDirectory, Configures, Builds, BuildFails, At,
                    Goto, Replies, Made, files
        <3>2. Solo(s) /\ pc'[s] \in {"cmake", "make"} => cwd' = <<DirOf[s], epoch'[DirOf[s]]>>
            BY <2>0, <2>1 DEF TypeOK, StepOf, ScriptSubmit, Compiles, Rejects, Deletes,
                DeleteFails, Copies, CopyFails, Writes, MakesDirectory, CannotCreate,
                ChangesDirectory, Terminates, Configures, Builds, BuildFails, At, Goto,
                Replies, Moves, files, AInv, SoloIsInPlace
        <3> QED
            BY <2>3, <3>1, <3>2 DEF SoloIsInPlace
    <2>11. AloneFindsItsBuild'
        <3>1. thrown' = "current_path" => Terminates(s)
            BY <2>0, <2>2 DEF CannotCreate, StepOf, ScriptSubmit, Compiles, Rejects,
                Deletes, DeleteFails, Copies,
                CopyFails, Writes, MakesDirectory, ChangesDirectory, Configures, Builds,
                BuildFails
        <3>2. Terminates(s) => pc'[s] = "chdir" /\ ~build[DirOf[s]] /\ pc[s] = "chdir"
            BY DEF Terminates, At
        <3>3. Terminates(s) => ~Solo(s)'
            BY <2>3, <3>2 DEF AInv, SoloIsInPlace
        <3> QED
            BY <2>3, <3>1, <3>3 DEF AloneFindsItsBuild, Solo
    <2> QED
        BY <2>5, <2>6, <2>7, <2>7a, <2>8, <2>9, <2>10, <2>11 DEF AInv
<1> QED
    BY <1>1, <1>2

\* Together: both invariants hold in every state of every behaviour.
LEMMA AloneInvariance == AloneSpec => [](IInv /\ AInv)
<1>1. AloneInit => IInv /\ AInv
    BY InitIInv, InitAInv DEF AloneInit
<1>2. IInv /\ AInv /\ [AloneNext]_aloneVars => (IInv /\ AInv)'
    <2>1. [AloneNext]_aloneVars => [Next]_vars
        BY DEF AloneNext, aloneVars, vars
    <2> QED
        BY <2>1, StepIInv, StepAInv
<1> QED
    BY <1>1, <1>2, PTL DEF AloneSpec

\* A submit that no other one overlaps with finds the directory that it has made when it
\* enters it, so current_path does not take the backend down, whatever races there were
\* before it.  create_directories may still do that.
THEOREM LoneSubmitsFindTheirBuild == AloneSpec => []AloneFindsItsBuild
<1>1. AInv => AloneFindsItsBuild
    BY DEF AInv
<1> QED
    BY AloneInvariance, <1>1, PTL

\* Such a submit makes its own main.cc into the binary of its own script, or, when the
\* build fails, leaves no binary in a directory that it could empty.
THEOREM LoneSubmitsBuildTheirOwn == AloneSpec => AloneBuildsOwn
<1> DEFINE BuildsOwn == \A s \in Submits : alone[s] /\ Active(s) =>
               /\ outcome'[s] = "built" => binary'[DirOf[s]] = s
               /\ outcome'[s] = "failed" /\ s \in cleared => binary'[DirOf[s]] = None
<1>1. IInv /\ AInv /\ [AloneNext]_aloneVars => [BuildsOwn]_aloneVars
    <2> SUFFICES ASSUME IInv, AInv, AloneNext, NEW u \in Submits, Solo(u)
                 PROVE  /\ outcome'[u] = "built" => binary'[DirOf[u]] = u
                        /\ outcome'[u] = "failed" /\ u \in cleared => binary'[DirOf[u]] = None
        BY DEF Solo
    <2>1. PICK s \in Submits : StepOf(s)
        BY DEF AloneNext, Next, StepOf
    <2>2. TypeOK /\ outcome[u] = "none"
        BY DEF IInv, AInv, NoOutcomeYet, Solo
    <2>3. CASE u # s
        BY <2>1, <2>2, <2>3, StepFrame
    <2>4. CASE u = s
        <3>1. CASE Builds(s)
            <4>1. cwd[1] = DirOf[s] /\ main[DirOf[s]] = s
                BY <2>4, <3>1 DEF Builds, At, AInv, SoloHasSource, SoloIsInPlace
            <4> QED
                BY <2>2, <2>4, <3>1, <4>1, BuildAssumption DEF Builds, Replies, TypeOK
        <3>2. CASE BuildFails(s)
            BY <2>2, <2>4, <3>2 DEF BuildFails, At, Replies, TypeOK, AInv, SoloHasNoBinary,
                files
        <3>3. ASSUME ~Builds(s), ~BuildFails(s)
              PROVE  outcome'[s] \in {"none", "invalid"}
            BY <2>1, <2>2, <2>4, <3>3 DEF TypeOK, StepOf, ScriptSubmit, Compiles, Rejects,
                Deletes, DeleteFails, Copies, CopyFails, Writes, MakesDirectory,
                CannotCreate, ChangesDirectory, Terminates, Configures, Replies
        <3> QED
            BY <2>4, <3>1, <3>2, <3>3
    <2> QED
        BY <2>3, <2>4
<1>2. AloneSpec => [][BuildsOwn]_aloneVars
    BY AloneInvariance, <1>1, PTL DEF AloneSpec
<1> QED
    BY <1>2 DEF AloneBuildsOwn
=============================================================================
