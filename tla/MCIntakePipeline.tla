------------------------- MODULE MCIntakePipeline -------------------------
(* Small instances side by side, one behaviour in one of them: overlapping  *)
(* requests on a project without files, one request beside one file, and    *)
(* two files with the same content without requests.                        *)
EXTENDS IntakePipeline

Pairs == {ids \in UNION {[1..n -> Suggestions] : n \in 1..2} : Len(ids) = 1 \/ ids[1] # ids[2]}
SameContent == [f \in Files |-> "same"]

Unused(f) == file[f].status = "deleted"
SomeFile == CHOOSE f \in Files : TRUE
SomeNote == CHOOSE n \in Notes : TRUE

Requests == calls = 0 /\ \A f \in Files : Unused(f)
RequestAndFile ==
  /\ calls = MaxCalls - 1 /\ \A f \in Files : Unused(f) <=> f # SomeFile
  /\ ~file[SomeFile].offer /\ project # NoProject
  /\ note = [n \in Notes |-> IF n = SomeNote THEN AbsentNote ELSE DismissedNote]
OnlyFiles ==
  /\ calls = MaxCalls /\ \A f \in Files : ~Unused(f) /\ (file[f].offer <=> file[SomeFile].offer)
  /\ note = [n \in Notes |-> DismissedNote] /\ project = NoProject

Instance ==
  /\ text = MaxVersion
  /\ \/ Requests /\ note = [n \in Notes |-> OpenNote]
     \/ RequestAndFile
     \/ OnlyFiles

MCInit == PipelineInit /\ Instance
MCSpec == MCInit /\ [][PipelineNext]_pipelineVars /\ PipelineFairness
===========================================================================
