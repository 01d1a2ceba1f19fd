-------------------------- MODULE ScriptBuildAlone --------------------------
(***************************************************************************)
(* ScriptBuild with two history variables: which submits have been alone   *)
(* from their call to their reply, and for which system_builder.py has     *)
(* emptied the directory.  A submit that is alone still finds what the     *)
(* races before it have left behind.                                       *)
(***************************************************************************)
EXTENDS ScriptBuild

VARIABLES alone, cleared

AloneInit ==
    /\ Init
    /\ alone = [s \in Submits |-> FALSE]
    /\ cleared = {}

AloneNext ==
    /\ Next
    /\ alone' = [s \in Submits |->
           /\ pc[s] = "out" \/ alone[s]
           /\ pc[s] = "replied" \/ \A t \in Submits \ {s} : ~Active(t)']
    /\ cleared' = cleared \cup {s \in Submits : pc'[s] = "copy"}

aloneVars == <<vars, alone, cleared>>

AloneSpec == AloneInit /\ [][AloneNext]_aloneVars

-----------------------------------------------------------------------------
(***************************************************************************)
(* What a submit can rely on when no other one overlaps with it.           *)
(***************************************************************************)

\* "Build completed successfully!" (file_maker.cc:136) is printed for a submit when its
\* own main.cc has been made into the binary of its own script, even over an older build
\* that could not be deleted; and a submit that has compiled and fails to build leaves no
\* older binary to activate, if it could delete it.  Neither failures nor races before it
\* change that.
AloneBuildsOwn ==
    [][\A s \in Submits : alone[s] /\ Active(s) =>
          /\ outcome'[s] = "built" => binary'[DirOf[s]] = s
          /\ outcome'[s] = "failed" /\ s \in cleared => binary'[DirOf[s]] = None]_aloneVars

\* Its current_path finds the directory that it has made: only others can take that away
\* and end the backend (file_maker.cc:124 is in a noexcept function).  What is left is a
\* directory that cannot be made.
AloneFindsItsBuild == thrown = "current_path" => \A s \in Submits : Active(s) => ~alone[s]
=============================================================================
