------------------------ MODULE EmbeddedPythonProofs ------------------------
(***************************************************************************)
(* Proofs about the embedded Python application, for any number of calls.  *)
(***************************************************************************)
EXTENDS EmbeddedPython, TLAPS

USE DEF Main, Workers, Threads, Interps

\* Where a call is in its subinterpreter, where it has no thread state at
\* all, and where it is known what it returns.
Inside == {"sys", "import", "getattr", "args", "call", "convert", "unwind", "end"}
Outside == {"unborn", "ensure", "over"}
Answered == {"reattach", "unwind", "end", "swap", "release", "over"}

\* The thread states and the GIL of a call, by where it is.
WorkerInv(w) ==
    /\ wpc[w] \in {"new", "release"} => Attached(w, Main)
    /\ wpc[w] \in Inside => Attached(w, w)
    /\ wpc[w] \notin Outside => <<w, Main>> \in tss
    /\ wpc[w] \in Outside => \A i \in Interps : <<w, i>> \notin tss
    /\ \A i \in Interps : <<w, i>> \in tss => i = Main \/ (i = w /\ wpc[w] \in Inside)
    /\ gil[w] \in {w, None}
    /\ w \in alive <=> wpc[w] \in Inside
    /\ refs[w] # {} => wpc[w] \in Inside \ {"sys", "end"}
    /\ result[w] = "pending" <=> wpc[w] \notin Answered

\* No call has begun; every call has been waited for.
NoneBorn == \A w \in Workers : wpc[w] = "unborn"
AllOver == collected = NumCalls

MainInv ==
    /\ mpc \in {"create", "resolve", "release"} => NoneBorn
    /\ mpc = "restore" => AllOver
    /\ mpc \in {"finalize", "return", "end"} => NoneBorn \/ AllOver
    /\ mpc = "collect" => \A w \in Workers : wpc[w] # "unborn"
    /\ mpc \in {"resolve", "release", "finalize"} => Attached(Main, Main)
    /\ mpc \in {"resolve", "release", "spawn", "collect", "restore", "finalize"}
          => Main \in alive /\ <<Main, Main>> \in tss
    /\ \A i \in Interps : <<Main, i>> \in tss => i = Main
    /\ \A w \in Workers : w <= collected =>
          wpc[w] = "over" /\ (Running => result[w] # "thrown")

IInv == TypeOK /\ NeverFatal /\ MainInv /\ \A w \in Workers : WorkerInv(w)

LEMMA TypeInit == Init => TypeOK
<1> SUFFICES ASSUME Init PROVE TypeOK
  OBVIOUS
<1>1. 0 \in 0 .. NumCalls
  BY CallsAssumption
<1>2. wpc \in [Workers -> WorkerPCs] /\ refs \in [Workers -> SUBSET Names]
  BY DEF Init, WorkerPCs
<1>3. gil \in [Interps -> Threads \cup {None}] /\ cur \in [Threads -> Interps \cup {None}]
  BY DEF Init
<1> QED BY <1>1, <1>2, <1>3 DEF Init, TypeOK, MainPCs

LEMMA InvInit == Init => IInv
<1> SUFFICES ASSUME Init PROVE IInv
  OBVIOUS
<1>1. TypeOK
  BY TypeInit
<1>2. MainInv
  BY CallsAssumption DEF Init, MainInv, NoneBorn
<1>3. \A w \in Workers : WorkerInv(w)
  BY DEF Init, WorkerInv, Inside, Outside, Answered
<1> QED BY <1>1, <1>2, <1>3 DEF IInv, NeverFatal, Init

\* A step of main, or of another call, that leaves a call's own part of the
\* state as it is keeps its invariant.
LEMMA Undisturbed ==
  ASSUME NEW w \in Workers, WorkerInv(w),
         wpc'[w] = wpc[w], refs'[w] = refs[w], result'[w] = result[w], cur'[w] = cur[w],
         gil'[w] = gil[w], gil[Main] = w => gil'[Main] = w,
         w \in alive' <=> w \in alive,
         \A i \in Interps : <<w, i>> \in tss' <=> <<w, i>> \in tss
  PROVE  WorkerInv(w)'
BY CallsAssumption DEF WorkerInv, Attached, Inside, Outside, Answered

-----------------------------------------------------------------------------
(***************************************************************************)
(* The steps of a call.                                                    *)
(***************************************************************************)
\* While a call is on its way, main waits, and the main interpreter exists.
LEMMA MainWaits ==
  ASSUME IInv, NEW w \in Workers, wpc[w] \notin {"unborn", "over"}
  PROVE  /\ mpc \in {"spawn", "collect"}
         /\ Main \in alive
         /\ <<Main, Main>> \in tss
         /\ ~ (w <= collected)
<1>1. mpc \in MainPCs /\ w <= NumCalls /\ NumCalls \in Nat
  BY CallsAssumption DEF IInv, TypeOK
<1>2. ~ (w <= collected)
  BY DEF IInv, MainInv
<1>3. ~NoneBorn /\ ~AllOver
  BY <1>1, <1>2 DEF NoneBorn, AllOver
<1>4. mpc \in {"spawn", "collect"}
  BY <1>1, <1>3 DEF IInv, MainInv, MainPCs
<1> QED BY <1>2, <1>4 DEF IInv, MainInv

\* What a step of a call must not touch for the invariant of main.
LEMMA MainUndisturbed ==
  ASSUME IInv, NEW w \in Workers, wpc[w] \notin {"unborn", "over"},
         UNCHANGED <<mpc, collected, exit>>,
         \A v \in Workers : v # w => wpc'[v] = wpc[v] /\ result'[v] = result[v],
         wpc'[w] # "unborn",
         Main \in alive',
         \A i \in Interps : <<Main, i>> \in tss' <=> <<Main, i>> \in tss
  PROVE  MainInv'
<1>1. mpc \in {"spawn", "collect"} /\ Main \in alive /\ <<Main, Main>> \in tss /\ ~ (w <= collected)
  BY MainWaits
<1>2. \A v \in Workers : v <= collected => v # w
  BY <1>1
<1>3. \A v \in Workers : v <= collected =>
          wpc'[v] = "over" /\ (Running => result'[v] # "thrown")
  BY <1>2 DEF IInv, MainInv
<1>4. mpc = "collect" => \A v \in Workers : wpc'[v] # "unborn"
  BY DEF IInv, MainInv
<1>5. \A i \in Interps : <<Main, i>> \in tss' => i = Main
  BY DEF IInv, MainInv
<1> QED BY <1>1, <1>3, <1>4, <1>5, CallsAssumption DEF MainInv, Running

LEMMA WorkerStepType ==
  ASSUME TypeOK, NEW w \in Workers, WorkerStep(w)
  PROVE  TypeOK'
<1> USE DEF TypeOK, WorkerPCs, At, Goto, mainVars, Attach
<1>1. CASE Enter(w)
  <2>1. fatal' \in BOOLEAN
    BY <1>1, Zenon DEF Enter, Ensure
  <2> QED BY <1>1, <2>1, CallsAssumption DEF Enter, Ensure
<1>2. CASE MakeInterpreter(w)
  BY <1>2 DEF MakeInterpreter, NewInterpreter
<1>3. CASE MakeFails(w)
  BY <1>3 DEF MakeFails, Detach
<1>4. CASE MakeFailed(w)
  <2>1. fatal' \in BOOLEAN
    BY <1>4, Zenon DEF MakeFailed, Reattach
  <2> QED BY <1>4, <2>1, CallsAssumption DEF MakeFailed, Reattach
<1>5. CASE PythonStep(w)
  BY <1>5 DEF PythonStep, PythonSteps, After, Made, Names, NeedsState
<1>6. CASE PythonFails(w)
  BY <1>6 DEF PythonFails, PythonSteps, Made, Names, NeedsState
<1>7. CASE Convert(w)
  BY <1>7 DEF Convert, NeedsState
<1>8. CASE Unwind(w)
  BY <1>8 DEF Unwind, NeedsState
<1>9. CASE End(w)
  BY <1>9 DEF End, EndInterpreter
<1>10. CASE SwapBack(w)
  <2>1. fatal' \in BOOLEAN
    BY <1>10, Zenon DEF SwapBack, Reattach
  <2> QED BY <1>10, <2>1, CallsAssumption DEF SwapBack, Reattach
<1>11. CASE LeavePython(w)
  BY <1>11 DEF LeavePython, ReleaseState
<1> QED BY <1>1, <1>2, <1>3, <1>4, <1>5, <1>6, <1>7, <1>8, <1>9, <1>10, <1>11 DEF WorkerStep

LEMMA WorkerStepInv ==
  ASSUME IInv, NEW w \in Workers, WorkerStep(w)
  PROVE  IInv'
<1> USE DEF At, Goto, mainVars, Attached
<1> DEFINE Kept(v) == /\ wpc'[v] = wpc[v] /\ refs'[v] = refs[v]
                      /\ result'[v] = result[v] /\ cur'[v] = cur[v]
                      /\ gil'[v] = gil[v]
                      /\ gil[Main] = v => gil'[Main] = v
                      /\ v \in alive' <=> v \in alive
                      /\ \A i \in Interps : <<v, i>> \in tss' <=> <<v, i>> \in tss
           Good == /\ ~fatal'
                   /\ WorkerInv(w)'
                   /\ \A v \in Workers : v # w => Kept(v)
                   /\ wpc[w] \notin {"unborn", "over"} /\ wpc'[w] # "unborn"
                   /\ UNCHANGED <<mpc, collected, exit>>
                   /\ \A i \in Interps : <<Main, i>> \in tss' <=> <<Main, i>> \in tss
                   /\ Main \in alive'
<1>a. TypeOK /\ TypeOK' /\ ~fatal /\ WorkerInv(w) /\ None \notin Threads /\ w \in Threads
      /\ w # Main /\ Main \in Threads /\ NumCalls \in Nat
  BY WorkerStepType, CallsAssumption, NoneAssumption DEF IInv, NeverFatal
<1>b. wpc[w] \notin {"unborn", "over"} => Main \in alive /\ <<Main, Main>> \in tss
  BY MainWaits
<1>c. \A v \in Workers : gil[v] \in {v, None}
  BY DEF IInv, WorkerInv
<1>1. ASSUME Enter(w) PROVE Good
  <2>1. wpc[w] = "ensure" /\ wpc' = [wpc EXCEPT ![w] = "new"]
    BY <1>1 DEF Enter
  <2>2. ~fatal'
    BY <1>1, <1>a, <1>b, <2>1 DEF Enter, Ensure
  <2>3. WorkerInv(w)'
    BY <1>1, <1>a, <2>1 DEF Enter, Ensure, Attach, WorkerInv, TypeOK, Inside, Outside, Answered
  <2>4. \A v \in Workers : v # w => Kept(v)
    BY <1>1, <1>a DEF Enter, Ensure, Attach, TypeOK
  <2>5. Good
    BY <1>1, <1>a, <1>b, <2>1, <2>2, <2>3, <2>4 DEF Enter, Ensure, TypeOK
  <2> QED BY <2>5
<1>2. ASSUME MakeInterpreter(w) PROVE Good
  <2>1. wpc[w] = "new" /\ wpc' = [wpc EXCEPT ![w] = "sys"] /\ Attached(w, Main)
    BY <1>2, <1>a DEF MakeInterpreter, WorkerInv
  <2>2. ~fatal'
    BY <1>2, <1>a, <2>1 DEF MakeInterpreter, NewInterpreter
  <2>3. WorkerInv(w)'
    BY <1>2, <1>a, <2>1 DEF MakeInterpreter, NewInterpreter, WorkerInv, TypeOK, Inside, Outside, Answered
  <2>4. \A v \in Workers : v # w => Kept(v)
    <3>1. \A v \in Workers : v # w => gil'[v] = gil[v] /\ cur'[v] = cur[v] /\ v # Main
      BY <1>2, <1>a DEF MakeInterpreter, NewInterpreter, TypeOK
    <3>2. gil[Main] = w
      BY <2>1
    <3>3. \A v \in Workers : v # w => (v \in alive' <=> v \in alive)
      BY <1>2 DEF MakeInterpreter, NewInterpreter
    <3>4. \A v \in Workers, i \in Interps : v # w => (<<v, i>> \in tss' <=> <<v, i>> \in tss)
      BY <1>2 DEF MakeInterpreter, NewInterpreter
    <3>5. \A v \in Workers : v # w => wpc'[v] = wpc[v] /\ refs'[v] = refs[v] /\ result'[v] = result[v]
      BY <1>2, <1>a, <2>1 DEF MakeInterpreter, TypeOK
    <3> QED BY <3>1, <3>2, <3>3, <3>4, <3>5
  <2>5. Good
    BY <1>2, <1>a, <1>b, <2>1, <2>2, <2>3, <2>4 DEF MakeInterpreter, NewInterpreter, TypeOK
  <2> QED BY <2>5
<1>3. ASSUME MakeFails(w) PROVE Good
  <2>1. wpc[w] = "new" /\ wpc' = [wpc EXCEPT ![w] = "reattach"] /\ Attached(w, Main)
    BY <1>3, <1>a DEF MakeFails, WorkerInv
  <2>2. ~fatal'
    BY <1>3, <1>a, <2>1 DEF MakeFails, Detach
  <2>3. WorkerInv(w)'
    BY <1>3, <1>a, <2>1 DEF MakeFails, Detach, WorkerInv, TypeOK, Inside, Outside, Answered
  <2>4. \A v \in Workers : v # w => Kept(v)
    BY <1>3, <1>a, <2>1 DEF MakeFails, Detach, TypeOK
  <2>5. Good
    BY <1>3, <1>a, <1>b, <2>1, <2>2, <2>3, <2>4 DEF MakeFails, Detach, TypeOK
  <2> QED BY <2>5
<1>4. ASSUME MakeFailed(w) PROVE Good
  <2>1. wpc[w] = "reattach" /\ wpc' = [wpc EXCEPT ![w] = "release"] /\ <<w, Main>> \in tss
    BY <1>4, <1>a DEF MakeFailed, WorkerInv, Outside
  <2>2. ~fatal'
    BY <1>4, <1>a, <1>b, <2>1 DEF MakeFailed, Reattach
  <2>3. WorkerInv(w)'
    BY <1>4, <1>a, <2>1 DEF MakeFailed, Reattach, Attach, WorkerInv, TypeOK, Inside, Outside, Answered
  <2>4. \A v \in Workers : v # w => Kept(v)
    BY <1>4, <1>a, <2>1 DEF MakeFailed, Reattach, Attach, TypeOK
  <2>5. Good
    BY <1>4, <1>a, <1>b, <2>1, <2>2, <2>3, <2>4 DEF MakeFailed, Reattach, TypeOK
  <2> QED BY <2>5
<1>5. ASSUME PythonStep(w) PROVE Good
  <2>1. wpc[w] \in PythonSteps /\ wpc' = [wpc EXCEPT ![w] = After(wpc[w])] /\ cur[w] = w
    BY <1>5, <1>a DEF PythonStep, WorkerInv, PythonSteps, Inside
  <2>2. ~fatal'
    BY <1>5, <1>a, <2>1 DEF PythonStep, NeedsState
  <2>3. WorkerInv(w)'
    BY <1>5, <1>a, <2>1 DEF PythonStep, PythonSteps, After, WorkerInv, TypeOK, Inside, Outside, Answered
  <2>4. \A v \in Workers : v # w => Kept(v)
    BY <1>5, <1>a, <2>1 DEF PythonStep, TypeOK
  <2>5. Good
    BY <1>5, <1>a, <1>b, <2>1, <2>2, <2>3, <2>4 DEF PythonStep, PythonSteps, After, TypeOK
  <2> QED BY <2>5
<1>6. ASSUME PythonFails(w) PROVE Good
  <2>1. /\ wpc[w] \in PythonSteps /\ wpc' = [wpc EXCEPT ![w] = "unwind"] /\ cur[w] = w
        /\ result'[w] # "pending"
        /\ \A v \in Workers : v # w => result'[v] = result[v] /\ refs'[v] = refs[v]
    BY <1>6, <1>a DEF PythonFails, WorkerInv, PythonSteps, Inside, TypeOK, Made
  <2>2. ~fatal'
    BY <1>6, <1>a, <2>1 DEF PythonFails, NeedsState
  <2>3. WorkerInv(w)'
    BY <1>6, <1>a, <2>1 DEF PythonFails, PythonSteps, WorkerInv, TypeOK, Inside, Outside, Answered
  <2>4. \A v \in Workers : v # w => Kept(v)
    BY <1>6, <1>a, <2>1 DEF PythonFails, TypeOK
  <2>5. Good
    BY <1>6, <1>a, <1>b, <2>1, <2>2, <2>3, <2>4 DEF PythonFails, PythonSteps, TypeOK
  <2> QED BY <2>5
<1>7. ASSUME Convert(w) PROVE Good
  <2>1. /\ wpc[w] = "convert" /\ wpc' = [wpc EXCEPT ![w] = "unwind"] /\ cur[w] = w
        /\ result'[w] # "pending"
        /\ \A v \in Workers : v # w => result'[v] = result[v]
    BY <1>7, <1>a DEF Convert, WorkerInv, Inside, TypeOK
  <2>2. ~fatal'
    BY <1>7, <1>a, <2>1 DEF Convert, NeedsState
  <2>3. WorkerInv(w)'
    BY <1>7, <1>a, <2>1 DEF Convert, WorkerInv, TypeOK, Inside, Outside, Answered
  <2>4. \A v \in Workers : v # w => Kept(v)
    BY <1>7, <1>a, <2>1 DEF Convert, TypeOK
  <2>5. Good
    BY <1>7, <1>a, <1>b, <2>1, <2>2, <2>3, <2>4 DEF Convert, TypeOK
  <2> QED BY <2>5
<1>8. ASSUME Unwind(w) PROVE Good
  <2>1. wpc[w] = "unwind" /\ wpc' = [wpc EXCEPT ![w] = "end"] /\ cur[w] = w
    BY <1>8, <1>a DEF Unwind, WorkerInv, Inside
  <2>2. ~fatal'
    BY <1>8, <1>a, <2>1 DEF Unwind, NeedsState
  <2>3. WorkerInv(w)'
    BY <1>8, <1>a, <2>1 DEF Unwind, WorkerInv, TypeOK, Inside, Outside, Answered
  <2>4. \A v \in Workers : v # w => Kept(v)
    BY <1>8, <1>a, <2>1 DEF Unwind, TypeOK
  <2>5. Good
    BY <1>8, <1>a, <1>b, <2>1, <2>2, <2>3, <2>4 DEF Unwind, TypeOK
  <2> QED BY <2>5
<1>9. ASSUME End(w) PROVE Good
  <2>1. wpc[w] = "end" /\ wpc' = [wpc EXCEPT ![w] = "swap"] /\ Attached(w, w) /\ refs[w] = {}
    BY <1>9, <1>a DEF End, WorkerInv, Inside
  <2>2. ~fatal'
    BY <1>9, <1>a, <2>1 DEF End, EndInterpreter
  <2>3. WorkerInv(w)'
    BY <1>9, <1>a, <2>1 DEF End, EndInterpreter, WorkerInv, TypeOK, Inside, Outside, Answered
  <2>4. \A v \in Workers : v # w => Kept(v)
    BY <1>9, <1>a, <2>1 DEF End, EndInterpreter, TypeOK
  <2>5. Good
    BY <1>9, <1>a, <1>b, <2>1, <2>2, <2>3, <2>4 DEF End, EndInterpreter, TypeOK
  <2> QED BY <2>5
<1>10. ASSUME SwapBack(w) PROVE Good
  <2>1. wpc[w] = "swap" /\ wpc' = [wpc EXCEPT ![w] = "release"] /\ <<w, Main>> \in tss
    BY <1>10, <1>a DEF SwapBack, WorkerInv, Outside
  <2>2. ~fatal'
    BY <1>10, <1>a, <1>b, <2>1 DEF SwapBack, Reattach
  <2>3. WorkerInv(w)'
    BY <1>10, <1>a, <2>1 DEF SwapBack, Reattach, Attach, WorkerInv, TypeOK, Inside, Outside, Answered
  <2>4. \A v \in Workers : v # w => Kept(v)
    BY <1>10, <1>a, <2>1 DEF SwapBack, Reattach, Attach, TypeOK
  <2>5. Good
    BY <1>10, <1>a, <1>b, <2>1, <2>2, <2>3, <2>4 DEF SwapBack, Reattach, TypeOK
  <2> QED BY <2>5
<1>11. ASSUME LeavePython(w) PROVE Good
  <2>1. wpc[w] = "release" /\ wpc' = [wpc EXCEPT ![w] = "over"] /\ Attached(w, Main)
    BY <1>11, <1>a DEF LeavePython, WorkerInv
  <2>2. ~fatal'
    BY <1>11, <1>a, <2>1 DEF LeavePython, ReleaseState
  <2>3. \A i \in Interps : <<w, i>> \notin tss'
    BY <1>11, <1>a, <2>1 DEF LeavePython, ReleaseState, WorkerInv
  <2>4. WorkerInv(w)'
    BY <1>11, <1>a, <2>1, <2>3 DEF LeavePython, ReleaseState, WorkerInv, TypeOK, Inside, Outside, Answered
  <2>5. \A v \in Workers : v # w => Kept(v)
    <3>1. \A i \in Interps : gil'[i] = IF gil[i] = w THEN None ELSE gil[i]
      BY <1>11 DEF LeavePython, ReleaseState
    <3>2. \A v \in Workers : v # w => cur'[v] = cur[v] /\ gil[v] # w
      BY <1>11, <1>a, <1>c DEF LeavePython, ReleaseState, TypeOK
    <3>3. \A v \in Workers, i \in Interps : v # w => (<<v, i>> \in tss' <=> <<v, i>> \in tss)
      BY <1>11 DEF LeavePython, ReleaseState
    <3>4. \A v \in Workers : v # w =>
             /\ wpc'[v] = wpc[v] /\ refs'[v] = refs[v] /\ result'[v] = result[v]
             /\ v \in alive' <=> v \in alive
      BY <1>11, <1>a, <2>1 DEF LeavePython, ReleaseState, TypeOK
    <3>5. \A v \in Workers : v \in Interps /\ Main \in Interps
      BY CallsAssumption DEF Interps, Workers, Threads, Main
    <3>6. \A v \in Workers : v # w => gil'[v] = gil[v] /\ (gil[Main] = v => gil'[Main] = v)
      BY <3>1, <3>2, <3>5
    <3> QED BY <3>2, <3>3, <3>4, <3>6
  <2>6. UNCHANGED <<mpc, collected, exit, alive>> /\ Main \in alive
    BY <1>11, <1>b, <2>1 DEF LeavePython, ReleaseState
  <2>7. \A i \in Interps : <<Main, i>> \in tss' <=> <<Main, i>> \in tss
    BY <1>11, <1>a DEF LeavePython, ReleaseState
  <2>8. wpc'[w] = "over"
    BY <1>a, <2>1 DEF TypeOK
  <2> QED BY <2>1, <2>2, <2>4, <2>5, <2>6, <2>7, <2>8
<1>12. Good
  BY <1>1, <1>2, <1>3, <1>4, <1>5, <1>6, <1>7, <1>8, <1>9, <1>10, <1>11 DEF WorkerStep
<1> HIDE DEF Kept
<1>13. \A v \in Workers : v # w => WorkerInv(v)'
  BY <1>12, Undisturbed DEF Kept, IInv
<1>14. MainInv'
  BY <1>12, MainUndisturbed DEF Kept
<1> QED BY <1>a, <1>12, <1>13, <1>14 DEF IInv, NeverFatal

-----------------------------------------------------------------------------
(***************************************************************************)
(* The steps of main.                                                      *)
(***************************************************************************)
LEMMA MainStepType ==
  ASSUME TypeOK, MainStep
  PROVE  TypeOK'
<1> USE CallsAssumption DEF TypeOK, MainPCs, pyVars
<1>1. CASE Create
  BY <1>1 DEF Create, Toolchain, Places
<1>2. CASE CreateFails
  BY <1>2 DEF CreateFails
<1>3. CASE Resolve
  BY <1>3 DEF Resolve
<1>4. CASE ReleaseGil
  BY <1>4 DEF ReleaseGil, Detach
<1>5. ASSUME NEW w \in Workers, Spawn(w) PROVE TypeOK'
  BY <1>5 DEF Spawn, WorkerPCs
<1>6. CASE SpawnFails
  BY <1>6 DEF SpawnFails, mainVars
<1>7. CASE Collect
  BY <1>7 DEF Collect
<1>8. CASE Leave
  BY <1>8 DEF Leave
<1>9. CASE RestoreGil
  <2>1. fatal' \in BOOLEAN
    BY <1>9, Zenon DEF RestoreGil, Reattach
  <2> QED BY <1>9, <2>1 DEF RestoreGil, Reattach, Attach
<1>10. CASE Finalize
  BY <1>10 DEF Finalize
<1>11. CASE Return
  BY <1>11 DEF Return
<1> QED BY <1>1, <1>2, <1>3, <1>4, <1>5, <1>6, <1>7, <1>8, <1>9, <1>10, <1>11 DEF MainStep

\* Main leaves alone what belongs to the calls, but for the two steps below.
LEMMA CallsUndisturbed ==
  ASSUME IInv, UNCHANGED <<wpc, refs, result>>,
         \A w \in Workers : cur'[w] = cur[w] /\ gil'[w] = gil[w],
         \A w \in Workers : gil[Main] = w => gil'[Main] = w,
         \A w \in Workers : w \in alive' <=> w \in alive,
         \A w \in Workers, i \in Interps : <<w, i>> \in tss' <=> <<w, i>> \in tss
  PROVE  \A w \in Workers : WorkerInv(w)'
BY Undisturbed DEF IInv

LEMMA MainStepInv ==
  ASSUME IInv, MainStep
  PROVE  IInv'
<1> USE DEF pyVars, Attached
<1> DEFINE Good == /\ ~fatal'
                   /\ MainInv'
                   /\ \A w \in Workers : WorkerInv(w)'
<1>a. /\ TypeOK /\ TypeOK' /\ ~fatal /\ MainInv /\ None \notin Threads
      /\ Main \in Threads \cap Interps /\ Main \notin Workers
      /\ NumCalls \in Nat \ {0}
  BY MainStepType, CallsAssumption, NoneAssumption DEF IInv, NeverFatal
<1>b. NoneBorn \/ AllOver => \A w \in Workers : wpc[w] \in Outside
  BY <1>a DEF MainInv, NoneBorn, AllOver, Outside
<1>1. ASSUME Create PROVE Good
  <2>1. mpc = "create" /\ mpc' = "resolve" /\ NoneBorn
    BY <1>1, <1>a DEF Create, MainInv
  <2>2. MainInv'
    BY <1>1, <1>a, <2>1 DEF Create, MainInv, NoneBorn, Running, TypeOK
  <2>3. ASSUME NEW w \in Workers PROVE WorkerInv(w)'
    <3>1. wpc[w] = "unborn" /\ WorkerInv(w) /\ wpc' = wpc /\ w # Main
      BY <1>1, <1>a, <2>1 DEF NoneBorn, IInv, Create
    <3> QED BY <1>1, <1>a, <3>1 DEF Create, WorkerInv, Inside, Outside, Answered, TypeOK
  <2> QED BY <1>1, <1>a, <2>2, <2>3 DEF Create
<1>2. ASSUME CreateFails PROVE Good
  <2>1. mpc = "create" /\ mpc' = "end" /\ NoneBorn
    BY <1>2, <1>a DEF CreateFails, MainInv
  <2>2. MainInv'
    BY <1>2, <1>a, <2>1 DEF CreateFails, MainInv, NoneBorn, Running
  <2>3. \A w \in Workers : WorkerInv(w)'
    BY <1>2, CallsUndisturbed DEF CreateFails
  <2> QED BY <1>2, <1>a, <2>2, <2>3 DEF CreateFails
<1>3. ASSUME Resolve PROVE Good
  <2>1. MainInv'
    BY <1>3, <1>a DEF Resolve, MainInv, NoneBorn, Running
  <2>2. \A w \in Workers : WorkerInv(w)'
    BY <1>3, CallsUndisturbed DEF Resolve
  <2> QED BY <1>3, <1>a, <2>1, <2>2 DEF Resolve
<1>4. ASSUME ReleaseGil PROVE Good
  <2>1. mpc = "release" /\ mpc' = "spawn" /\ NoneBorn /\ gil[Main] = Main /\ cur[Main] = Main
    BY <1>4, <1>a DEF ReleaseGil, MainInv
  <2>2. MainInv'
    BY <1>4, <1>a, <2>1 DEF ReleaseGil, Detach, MainInv, NoneBorn, Running
  <2>3. \A w \in Workers : WorkerInv(w)'
    BY <1>4, <1>a, <2>1, CallsUndisturbed DEF ReleaseGil, Detach, TypeOK
  <2> QED BY <1>4, <1>a, <2>1, <2>2, <2>3 DEF ReleaseGil, Detach
<1>5. ASSUME NEW w \in Workers, Spawn(w) PROVE Good
  <2>1. mpc = "spawn" /\ wpc[w] = "unborn" /\ wpc' = [wpc EXCEPT ![w] = "ensure"] /\ wpc' \in [Workers -> WorkerPCs]
    BY <1>5, <1>a DEF Spawn, TypeOK
  <2>2. \A v \in Workers : WorkerInv(v)'
    <3>1. WorkerInv(w)'
      <4>1. wpc'[w] = "ensure" /\ UNCHANGED <<gil, alive, tss, cur, refs, result>> /\ WorkerInv(w)
        BY <1>5, <1>a, <2>1 DEF Spawn, IInv, TypeOK
      <4> QED BY <2>1, <4>1 DEF WorkerInv, Inside, Outside, Answered
    <3>2. ASSUME NEW v \in Workers, v # w PROVE WorkerInv(v)'
      BY <1>5, <2>1, <3>2, Undisturbed DEF Spawn, IInv, TypeOK
    <3> QED BY <3>1, <3>2
  <2>3. mpc' = "collect" => \A v \in Workers : wpc'[v] # "unborn"
    BY <1>5, <1>a, <2>1 DEF Spawn, TypeOK
  <2>4. \A v \in Workers : v <= collected' => wpc'[v] = "over" /\ (Running' => result'[v] # "thrown")
    BY <1>5, <1>a, <2>1 DEF Spawn, MainInv, Running, TypeOK
  <2>5. mpc' \in {"spawn", "collect"}
    BY <1>5 DEF Spawn
  <2>6. MainInv'
    BY <1>5, <1>a, <2>1, <2>3, <2>4, <2>5 DEF Spawn, MainInv
  <2> QED BY <1>5, <1>a, <2>2, <2>6 DEF Spawn
<1>6. ASSUME SpawnFails PROVE Good
  <2>1. MainInv'
    BY <1>6, <1>a DEF SpawnFails, mainVars, MainInv, NoneBorn, AllOver, Running
  <2>2. \A w \in Workers : WorkerInv(w)'
    BY <1>6, CallsUndisturbed DEF SpawnFails
  <2> QED BY <1>6, <1>a, <2>1, <2>2 DEF SpawnFails
<1>7. ASSUME Collect PROVE Good
  <2>1. \A w \in Workers : w <= collected + 1 =>
            wpc[w] = "over" /\ (Running' => result[w] # "thrown")
    BY <1>7, <1>a DEF Collect, MainInv, Running, TypeOK
  <2>2. MainInv'
    BY <1>7, <1>a, <2>1 DEF Collect, MainInv, NoneBorn, AllOver
  <2>3. \A w \in Workers : WorkerInv(w)'
    BY <1>7, CallsUndisturbed DEF Collect
  <2> QED BY <1>7, <1>a, <2>2, <2>3 DEF Collect
<1>8. ASSUME Leave PROVE Good
  <2>1. MainInv'
    BY <1>8, <1>a DEF Leave, MainInv, NoneBorn, AllOver, Running
  <2>2. \A w \in Workers : WorkerInv(w)'
    BY <1>8, CallsUndisturbed DEF Leave
  <2> QED BY <1>8, <1>a, <2>1, <2>2 DEF Leave
<1>9. ASSUME RestoreGil PROVE Good
  <2>1. mpc = "restore" /\ mpc' = "finalize" /\ Main \in alive /\ <<Main, Main>> \in tss
        /\ gil[Main] = None
    BY <1>9, <1>a DEF RestoreGil, Reattach, Attach, MainInv
  <2>2. MainInv'
    BY <1>9, <1>a, <2>1 DEF RestoreGil, Reattach, Attach, MainInv, NoneBorn, AllOver, Running, TypeOK
  <2>3. \A w \in Workers : WorkerInv(w)'
    BY <1>9, <1>a, <2>1, CallsUndisturbed DEF RestoreGil, Reattach, Attach, TypeOK
  <2> QED BY <1>9, <1>a, <2>1, <2>2, <2>3 DEF RestoreGil, Reattach
<1>10. ASSUME Finalize PROVE Good
  <2>1. /\ mpc = "finalize" /\ mpc' = "return" /\ gil[Main] = Main /\ cur[Main] = Main
        /\ \A w \in Workers : wpc[w] \in Outside
    BY <1>10, <1>a, <1>b DEF Finalize, MainInv
  <2>2. MainInv'
    BY <1>10, <1>a, <2>1 DEF Finalize, MainInv, NoneBorn, AllOver, Running
  <2>3. \A w \in Workers : w \notin alive /\ \A i \in Interps : <<w, i>> \notin tss
    BY <2>1 DEF IInv, WorkerInv, Inside, Outside
  <2>4. \A w \in Workers : WorkerInv(w)'
    BY <1>10, <1>a, <2>1, <2>3, CallsUndisturbed DEF Finalize, TypeOK
  <2> QED BY <1>10, <1>a, <2>1, <2>2, <2>4 DEF Finalize
<1>11. ASSUME Return PROVE Good
  <2>1. MainInv'
    BY <1>11, <1>a DEF Return, MainInv, NoneBorn, AllOver, Running
  <2>2. \A w \in Workers : WorkerInv(w)'
    BY <1>11, CallsUndisturbed DEF Return
  <2> QED BY <1>11, <1>a, <2>1, <2>2 DEF Return
<1>12. Good
  BY <1>1, <1>2, <1>3, <1>4, <1>5, <1>6, <1>7, <1>8, <1>9, <1>10, <1>11 DEF MainStep
<1> QED BY <1>a, <1>12 DEF IInv, NeverFatal

LEMMA InvStep == IInv /\ [Next]_vars => IInv'
<1> SUFFICES ASSUME IInv, [Next]_vars PROVE IInv'
  OBVIOUS
<1>1. CASE MainStep
  BY <1>1, MainStepInv
<1>2. ASSUME NEW w \in Workers, WorkerStep(w) PROVE IInv'
  BY <1>2, WorkerStepInv
<1>3. CASE UNCHANGED vars
  BY <1>3 DEF vars, IInv, TypeOK, NeverFatal, MainInv, NoneBorn, AllOver, WorkerInv, Attached, Running
<1> QED BY <1>1, <1>2, <1>3 DEF Next

LEMMA InvHolds == Spec => []IInv
BY InvInit, InvStep, PTL DEF Spec

-----------------------------------------------------------------------------
(***************************************************************************)
(* Results.                                                                *)
(***************************************************************************)
\* Every variable keeps its type (the shape of the state of the process).
THEOREM TypeCorrect == Spec => []TypeOK
<1>1. IInv => TypeOK
  BY DEF IInv
<1> QED BY <1>1, InvHolds, PTL

\* The guards of the calls and of main never let CPython meet a thread state
\* it does not expect, however many calls run at once and whichever fail.
THEOREM GuardsAreSafe == Spec => []NeverFatal
<1>1. IInv => NeverFatal
  BY DEF IInv
<1> QED BY <1>1, InvHolds, PTL

\* No object outlives the subinterpreter of its call, nor is one touched
\* while another interpreter is attached.
THEOREM ObjectsStayHome == Spec => []ObjectsAtHome
<1>1. IInv => ObjectsAtHome
  BY DEF IInv, WorkerInv, ObjectsAtHome
<1> QED BY <1>1, InvHolds, PTL

\* Python is finalized by the thread that holds the GIL, alone.
THEOREM FinalizedByMain == Spec => FinalizedAlone
<1>1. ASSUME IInv, [Next]_vars, Main \in alive, Main \notin alive' PROVE Alone
  <2>1. CASE Finalize
    <3>1. mpc = "finalize"
      BY <2>1 DEF Finalize
    <3>2. Attached(Main, Main) /\ <<Main, Main>> \in tss
      BY <1>1, <3>1 DEF IInv, MainInv
    <3>3. \A w \in Workers : wpc[w] \in Outside
      BY <1>1, <3>1, CallsAssumption DEF IInv, MainInv, NoneBorn, AllOver, Outside
    <3>4. \A w \in Workers : w \notin alive /\ \A i \in Interps : <<w, i>> \notin tss
      BY <1>1, <3>3 DEF IInv, WorkerInv, Inside, Outside
    <3>5. \A i \in Interps : i = Main \/ i \in Workers
      BY CallsAssumption
    <3>6. alive = {Main}
      BY <1>1, <3>4, <3>5 DEF IInv, TypeOK
    <3>7. tss = {<<Main, Main>>}
      <4>1. \A t \in Threads, i \in Interps : <<t, i>> \in tss => t = Main /\ i = Main
        BY <1>1, <3>4, <3>5 DEF IInv, MainInv
      <4> QED BY <1>1, <3>2, <4>1 DEF IInv, TypeOK
    <3> QED BY <3>2, <3>6, <3>7 DEF Alone
  <2>2. ASSUME NEW w \in Workers, WorkerStep(w) PROVE FALSE
    <3>1. w # Main
      BY CallsAssumption
    <3> QED BY <1>1, <2>2, <3>1 DEF WorkerStep, Enter, Ensure, MakeInterpreter, NewInterpreter,
          MakeFails, Detach, MakeFailed, Reattach, PythonStep, PythonFails, Convert, Unwind,
          End, EndInterpreter, SwapBack, LeavePython, ReleaseState
  <2>3. CASE MainStep /\ ~Finalize
    BY <1>1, <2>3 DEF MainStep, Create, CreateFails, Resolve, ReleaseGil, Detach, Spawn,
          SpawnFails, Collect, Leave, RestoreGil, Reattach, Return, pyVars
  <2>4. CASE UNCHANGED vars
    BY <1>1, <2>4 DEF vars
  <2> QED BY <1>1, <2>1, <2>2, <2>3, <2>4 DEF Next
<1>2. IInv /\ [Next]_vars => [(Main \in alive /\ Main \notin alive') => Alone]_vars
  BY <1>1
<1> QED BY <1>2, InvHolds, PTL DEF Spec, FinalizedAlone

\* The application implements Calls: each call yields one result, and the exit
\* code is given after the last of them and agrees with all of them.
THEOREM CallsImplemented == Spec => ImplementsCalls
<1>1. Init => Abstract!Init
  BY DEF Init, Abstract!Init
<1>2. ASSUME IInv, [Next]_vars PROVE [Abstract!Next]_(Abstract!vars)
  <2> USE DEF Abstract!Next, Abstract!vars, Abstract!Return, Abstract!Exit, Abstract!Results, Running
  <2>a. NumCalls \in Nat \ {0} /\ TypeOK /\ MainInv
    BY <1>2, CallsAssumption DEF IInv
  <2>b. \A w \in Workers : wpc[w] \notin Answered => result[w] = "pending"
    BY <1>2 DEF IInv, WorkerInv
  <2>c. NoneBorn => Abstract!Results = {"pending"}
    <3>1. 1 \in Workers
      BY <2>a
    <3> QED BY <2>b, <3>1 DEF NoneBorn, Answered
  <2>d. AllOver /\ Running => Abstract!Results \subseteq {"ok", "none"}
    <3> SUFFICES ASSUME AllOver, Running, NEW w \in Workers PROVE result[w] \in {"ok", "none"}
      OBVIOUS
    <3>1. wpc[w] = "over" /\ result[w] # "thrown"
      BY <2>a DEF MainInv, AllOver
    <3>2. result[w] # "pending"
      BY <1>2, <3>1 DEF IInv, WorkerInv, Answered
    <3> QED BY <2>a, <3>1, <3>2 DEF TypeOK
  <2>1. ASSUME NEW w \in Workers, WorkerStep(w) PROVE UNCHANGED <<result, exit>> \/ Abstract!Return(w)
    <3>1. CASE PythonFails(w)
      BY <2>b, <3>1 DEF PythonFails, PythonSteps, Answered
    <3>2. CASE MakeFails(w)
      BY <2>b, <3>2 DEF MakeFails, At, Answered
    <3>3. CASE Convert(w)
      BY <2>b, <3>3 DEF Convert, At, Answered
    <3> QED BY <2>1, <3>1, <3>2, <3>3 DEF WorkerStep, Enter, MakeInterpreter, MakeFailed,
          PythonStep, Unwind, End, SwapBack, LeavePython
  <2>2. CASE CreateFails
    BY <2>a, <2>2, <2>c DEF CreateFails, MainInv
  <2>3. CASE SpawnFails
    BY <2>3 DEF SpawnFails
  <2>4. CASE Collect
    BY <2>4 DEF Collect
  <2>5. CASE Return
    <3>1. /\ Running /\ mpc = "return" /\ UNCHANGED result
          /\ exit' = IF AllSuccess THEN "0" ELSE "-1"
      BY <2>5 DEF Return
    <3>2. CASE AllSuccess
      <4>1. 1 \in Workers
        BY <2>a
      <4>2. Abstract!Results = {"ok"}
        BY <3>2, <4>1 DEF AllSuccess
      <4> QED BY <3>1, <3>2, <4>2
    <3>3. CASE ~AllSuccess
      <4>1. NoneBorn \/ AllOver
        BY <2>a, <3>1 DEF MainInv
      <4>2. CASE NoneBorn
        BY <2>c, <3>1, <3>3, <4>2
      <4>3. CASE AllOver
        <5>1. Abstract!Results \subseteq {"ok", "none"}
          BY <2>d, <3>1, <4>3
        <5>2. "none" \in Abstract!Results
          BY <3>3, <5>1 DEF AllSuccess
        <5> QED BY <3>1, <3>3, <5>1, <5>2
      <4> QED BY <4>1, <4>2, <4>3
    <3> QED BY <3>2, <3>3
  <2>6. CASE MainStep /\ ~CreateFails /\ ~SpawnFails /\ ~Collect /\ ~Return
    BY <2>6 DEF MainStep, Create, Resolve, ReleaseGil, Spawn, Leave, RestoreGil, Finalize
  <2>7. CASE UNCHANGED vars
    BY <2>7 DEF vars
  <2> QED BY <1>2, <2>1, <2>2, <2>3, <2>4, <2>5, <2>6, <2>7 DEF Next
<1> QED BY <1>1, <1>2, InvHolds, PTL DEF Spec, ImplementsCalls, Abstract!Spec
=============================================================================
