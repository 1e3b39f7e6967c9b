-------------------------- MODULE WorkbenchFunctions --------------------------
(***************************************************************************)
(* The pure functions the Forge YAML Workbench calls from its handlers.    *)
(* They share no state and the page runs one at a time, so a behaviour is  *)
(* one call of one of them: the diff of a formatting preview, the analysis *)
(* of a text, the index of its trees or the ranges of a highlighted text.  *)
(***************************************************************************)
EXTENDS FormatDiff, Analysis, TreeSearch

functionVars == <<diffVars, analysisVars, searchVars>>

FunctionsInit ==
    \/ DiffInit /\ AnalysisIdle /\ SearchIdle
    \/ DiffIdle /\ AnalysisInit /\ SearchIdle
    \/ DiffIdle /\ AnalysisIdle /\ SearchInit

FunctionsNext ==
    \/ DiffNext /\ UNCHANGED analysisVars /\ UNCHANGED searchVars
    \/ AnalysisNext /\ UNCHANGED diffVars /\ UNCHANGED searchVars
    \/ SearchNext /\ UNCHANGED diffVars /\ UNCHANGED analysisVars

FunctionsSpec == FunctionsInit /\ [][FunctionsNext]_functionVars

=============================================================================
