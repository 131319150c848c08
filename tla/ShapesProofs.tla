---------------------------- MODULE ShapesProofs ----------------------------
(***************************************************************************)
(* The five shapes of MCShapes are within the hypotheses of the theorems   *)
(* about Scheduler and Reactor, so what TLC finds of them follows.         *)
(***************************************************************************)
EXTENDS MCShapes, TLAPS

\* The constants of each shape are as Scheduler and Reactor assume them
LEMMA CallerConstants ==
  CallerShape!ConstAssumption /\ {anyThread} \subseteq CallerShape!OpenPins
  BY ShapesAssumption, CallerShape!FS_Singleton
     DEF CallerShape!ConstAssumption, CallerShape!OpenPins

LEMMA SoloConstants ==
  /\ SoloShape!ConstAssumption /\ SoloShape!OneThread
  /\ {caller, anyThread} \subseteq SoloShape!OpenPins
<1>1. SoloShape!ConstAssumption
  BY ShapesAssumption, SoloShape!FS_EmptySet DEF SoloShape!ConstAssumption
<1>2. SoloShape!OneThread
  BY DEF SoloShape!OneThread, SoloShape!Threads
<1> QED
  BY <1>1, <1>2 DEF SoloShape!OpenPins, SoloShape!Threads

LEMMA RestartConstants ==
  /\ RestartShape!ConstAssumption /\ RestartShape!OneThread
  /\ {w1, anyThread} \subseteq RestartShape!OpenPins
<1>1. RestartShape!ConstAssumption
  BY ShapesAssumption, RestartShape!FS_Singleton DEF RestartShape!ConstAssumption
<1>2. RestartShape!OneThread
  BY DEF RestartShape!OneThread, RestartShape!Threads
<1> QED
  BY <1>1, <1>2 DEF RestartShape!OpenPins, RestartShape!Threads

LEMMA IomSoloConstants ==
  IomSoloShape!ConstAssumption /\ IomSoloShape!ReactorAssumption /\ IomSoloShape!OneThread
<1>1. IomSoloShape!ConstAssumption
  BY ShapesAssumption, IomSoloShape!FS_EmptySet DEF IomSoloShape!ConstAssumption
<1> QED
  BY <1>1 DEF IomSoloShape!ReactorAssumption, IomSoloShape!OneThread, IomSoloShape!Threads

LEMMA IomPairConstants ==
  IomPairShape!ConstAssumption /\ IomPairShape!ReactorAssumption
<1>1. IomPairShape!ConstAssumption
  BY ShapesAssumption, IomPairShape!FS_Singleton DEF IomPairShape!ConstAssumption
<1> QED
  BY <1>1 DEF IomPairShape!ReactorAssumption

-----------------------------------------------------------------------------
\* The invariant of the shape a behaviour belongs to
ShapesInv ==
  /\ shape = "caller" => CallerShape!WholeInv
  /\ shape = "solo" => SoloShape!WholeInv
  /\ shape = "restart" => RestartShape!WholeInv
  /\ shape = "iomSolo" => IomSoloShape!ReactorInv
  /\ shape = "iomPair" => IomPairShape!ReactorInv

LEMMA ShapesInit == ASSUME Init PROVE ShapesInv
  BY CallerConstants, SoloConstants, RestartConstants, IomSoloConstants, IomPairConstants,
     CallerShape!InitWhole, SoloShape!InitWhole, RestartShape!InitWhole,
     IomSoloShape!InitReactor, IomPairShape!InitReactor DEF Init, ShapesInv

\* A step belongs to the shape the behaviour belongs to, and is one of its
\* instance or changes nothing of it
LEMMA OneShape ==
  ASSUME [Next]_all
  PROVE  /\ shape' = shape
         /\ shape = "caller" => [CallerShape!Next]_(CallerShape!vars)
         /\ shape = "solo" => [SoloShape!Next]_(SoloShape!vars)
         /\ shape = "restart" => [RestartShape!Next]_(RestartShape!vars)
         /\ shape = "iomSolo" => [IomSoloShape!ReactorNext]_(IomSoloShape!reactVars)
         /\ shape = "iomPair" => [IomPairShape!ReactorNext]_(IomPairShape!reactVars)
<1>1. CASE Next
  BY <1>1 DEF Next, Plain, Is
<1>2. CASE UNCHANGED all
  BY <1>2 DEF all, poolVars, pollVars, CallerShape!vars, SoloShape!vars, RestartShape!vars,
     IomSoloShape!vars, IomPairShape!vars, IomSoloShape!pollVars, IomPairShape!pollVars,
     IomSoloShape!reactVars, IomPairShape!reactVars
<1> QED
  BY <1>1, <1>2

LEMMA ShapesNext == ASSUME ShapesInv, [Next]_all PROVE ShapesInv'
<1> USE OneShape DEF ShapesInv
<1>1. (shape = "caller" => CallerShape!WholeInv)'
  BY CallerConstants, CallerShape!NextWhole
<1>2. (shape = "solo" => SoloShape!WholeInv)'
  BY SoloConstants, SoloShape!NextWhole
<1>3. (shape = "restart" => RestartShape!WholeInv)'
  BY RestartConstants, RestartShape!NextWhole
<1>4. (shape = "iomSolo" => IomSoloShape!ReactorInv)'
  BY IomSoloConstants, IomSoloShape!NextReactor
<1>5. (shape = "iomPair" => IomPairShape!ReactorInv)'
  BY IomPairConstants, IomPairShape!NextReactor
<1> QED
  BY <1>1, <1>2, <1>3, <1>4, <1>5

LEMMA ShapesAreSafe ==
  ASSUME ShapesInv, shape \in {"caller", "solo", "restart", "iomSolo", "iomPair"}
  PROVE  NoAbort /\ NothingLeft
<1>1. shape \in {"caller", "solo", "restart"} => fault = "none"
  BY DEF ShapesInv, CallerShape!WholeInv, SoloShape!WholeInv, RestartShape!WholeInv,
     CallerShape!EarlyInv, SoloShape!EarlyInv, RestartShape!EarlyInv,
     CallerShape!NoAbort, SoloShape!NoAbort, RestartShape!NoAbort
<1>2. shape \in {"iomSolo", "iomPair"} => fault = "none"
  BY DEF ShapesInv, IomSoloShape!ReactorInv, IomPairShape!ReactorInv, IomSoloShape!RInv,
     IomPairShape!RInv, IomSoloShape!IInv, IomPairShape!IInv, IomSoloShape!NoAbort,
     IomPairShape!NoAbort
<1>3. NothingLeft
  BY IomSoloConstants, IomPairConstants, IomSoloShape!StoppedLeaves, IomPairShape!StoppedLeaves
     DEF ShapesInv, NothingLeft
<1> QED
  BY <1>1, <1>2, <1>3 DEF NoAbort

Shapes == {"caller", "solo", "restart", "iomSolo", "iomPair"}

\* The five shapes
LEMMA ShapesInvariance == Spec => [](ShapesInv /\ shape \in Shapes)
<1>1. Init => ShapesInv /\ shape \in Shapes
  BY ShapesInit DEF Init, Shapes
<1>2. (ShapesInv /\ shape \in Shapes) /\ [Next]_all => (ShapesInv /\ shape \in Shapes)'
  BY ShapesNext, OneShape
<1> QED
  BY <1>1, <1>2, PTL DEF Spec

-----------------------------------------------------------------------------
\* No assertion of swapIn(), reset(), MainFunc or CallerMainFunc fails in any
\* of the shapes.
THEOREM ShapesNeverAbort == Spec => []NoAbort
<1>1. ShapesInv /\ shape \in Shapes => NoAbort
  BY ShapesAreSafe DEF Shapes
<1> QED
  BY <1>1, ShapesInvariance, PTL

\* A stopped io manager has no timer and no entry left; on the caller's thread
\* alone it has no event and no waiting fiber either.
THEOREM ShapesLeaveNothing == Spec => []NothingLeft
<1>1. ShapesInv /\ shape \in Shapes => NothingLeft
  BY ShapesAreSafe DEF Shapes
<1> QED
  BY <1>1, ShapesInvariance, PTL

\* stop() of the three schedulers returns only when every job has ended, except
\* those whose fiber is in HOLD.
THEOREM ShapesDrain == Spec => StopDrains
<1>1. ASSUME ShapesInv, [Next]_all, main' = "stopped", main # "stopped",
             shape \in {"caller", "solo", "restart"}, NEW j \in submitted \ done
      PROVE  \E f \in DOMAIN m_cb : m_cb[f] = j /\ m_state[f] = "HOLD"
  <2>1. CASE shape = "caller"
    <3>1. DOMAIN m_cb = CallerShape!Fibers
      BY <1>1, <2>1 DEF ShapesInv, CallerShape!WholeInv, CallerShape!EarlyInv, CallerShape!TypeOK
    <3> QED
      BY <1>1, <2>1, <3>1, OneShape, CallerConstants, CallerShape!EndDrains DEF ShapesInv
  <2>2. CASE shape = "solo"
    <3>1. DOMAIN m_cb = SoloShape!Fibers
      BY <1>1, <2>2 DEF ShapesInv, SoloShape!WholeInv, SoloShape!EarlyInv, SoloShape!TypeOK
    <3> QED
      BY <1>1, <2>2, <3>1, OneShape, SoloConstants, SoloShape!EndDrains DEF ShapesInv
  <2>3. CASE shape = "restart"
    <3>1. DOMAIN m_cb = RestartShape!Fibers
      BY <1>1, <2>3 DEF ShapesInv, RestartShape!WholeInv, RestartShape!EarlyInv, RestartShape!TypeOK
    <3> QED
      BY <1>1, <2>3, <3>1, OneShape, RestartConstants, RestartShape!EndDrains DEF ShapesInv
  <2> QED
    BY <1>1, <2>1, <2>2, <2>3
<1>2. ShapesInv /\ [Next]_all =>
        [main' = "stopped" /\ main # "stopped" /\ shape \in {"caller", "solo", "restart"} =>
           \A j \in submitted \ done :
             \E f \in DOMAIN m_cb : m_cb[f] = j /\ m_state[f] = "HOLD"]_all
  BY <1>1
<1> QED
  BY <1>2, ShapesInvariance, PTL DEF Spec, StopDrains
=============================================================================
