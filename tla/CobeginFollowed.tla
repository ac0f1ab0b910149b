---------------------------- MODULE CobeginFollowed ----------------------------
(*****************************************************************************)
(* A parallel run of a block, and the code of its macros that follows it: of *)
(* what nondet may answer the code is given what makes it run the routines in*)
(* the order in which they end.  What the code cannot do, say run a routine  *)
(* once that nondet picks out of turn, it cannot do here either, and so what *)
(* the analysis proves of the code says something of the parallel run only if*)
(* the code keeps up.                                                        *)
(*****************************************************************************)
EXTENDS CobeginRun, Sequences

CONSTANTS N, NondetValues

VARIABLES
  order,                          \* routines that have ended and the code has not run yet
  codeMem, codeLeft, construct, at

code == <<codeMem, codeLeft, construct, at>>

followedVars == <<vars, order, code>>

Code == INSTANCE CobeginCode WITH mem <- codeMem, left <- codeLeft

ASSUME CobeginFollowedAssumption == Code!CobeginCodeAssumption

FollowedInit == ParInit /\ Code!CodeInit /\ codeMem = mem0 /\ order = <<>>

RunStep ==
  /\ \/ (\E r \in Routines : Works(r)) /\ UNCHANGED order
     \/ \E r \in Routines : End(r) /\ order' = Append(order, r)
     \/ Join /\ UNCHANGED order
  /\ UNCHANGED code

\* the code runs the next routine, and passes by the others
CodeCatchesUp ==
  /\ order # <<>>
  /\ \/ /\ \/ at = Head(order) /\ Code!RtnTaken
           \/ Code!ForeachIteration(Head(order))
        /\ order' = Tail(order)
     \/ /\ \/ at # Head(order) /\ Code!RtnSkipped
           \/ Code!CoendRepeats
        /\ UNCHANGED order
  /\ UNCHANGED vars

\* it leaves the block behind the program
CodeLeaves ==
  /\ order = <<>> /\ left
  /\ Code!RtnSkipped \/ Code!CoendBreaks \/ Code!ForeachEnd
  /\ UNCHANGED order /\ UNCHANGED vars

CodeStep == CodeCatchesUp \/ CodeLeaves

-----------------------------------------------------------------------------
\* The code the analysis reads can do what the parallel run does: having run what
\* has ended, it has the memory in which each routine seems to have run at once,
\* and when it leaves the block, after the program does, it has the program's.
CodeAgrees ==
  /\ order = <<>> => codeMem = memBar
  /\ codeLeft => left /\ codeMem = mem
=============================================================================
