--------------------------- MODULE EmbeddedPython ---------------------------
(***************************************************************************)
(* The embedded Python application (modules/cpp_py_bootstrap_app): main    *)
(* creates the runtime, gives up the GIL, makes NumCalls calls on threads  *)
(* of their own, waits for them, takes the GIL back and finalizes Python.  *)
(* Each call enters the main interpreter, makes a subinterpreter with a    *)
(* GIL of its own, runs a function in it, ends it, and leaves the main     *)
(* interpreter again.                                                      *)
(*                                                                         *)
(* Thread 0 is main, thread w > 0 the one of call w; interpreter 0 is the  *)
(* main interpreter, interpreter w the subinterpreter of call w.  The      *)
(* calls of CPython are external: they block where CPython blocks, and     *)
(* set "fatal" where CPython ends the process with a fatal error.          *)
(***************************************************************************)
EXTENDS Integers, FiniteSets

CONSTANTS
    NumCalls,   \* calls main makes
    None        \* no thread, or no interpreter

ASSUME CallsAssumption == NumCalls \in Nat \ {0}
ASSUME NoneAssumption == None \notin Nat

VARIABLES
    mpc,        \* where main is
    wpc,        \* [Workers -> where the call is]
    home,       \* where the toolchain was found
    gil,        \* [Interps -> the thread that holds its GIL, or None]
    alive,      \* the interpreters that exist
    tss,        \* the thread states that exist, as <<thread, interpreter>>
    cur,        \* [Threads -> interpreter of its attached thread state, or None]
    refs,       \* [Workers -> names of its live PyObjectGuards]
    result,     \* [Workers -> what the call returned]
    collected,  \* how many futures main has got
    fatal,      \* CPython ended the process with a fatal error
    exit        \* how the process ended

mainVars == <<mpc, home, collected>>
pyVars == <<gil, alive, tss, cur, fatal>>
vars == <<mpc, wpc, home, gil, alive, tss, cur, refs, result, collected, fatal, exit>>

-----------------------------------------------------------------------------
Main == 0
Workers == 1 .. NumCalls
Threads == 0 .. NumCalls
Interps == 0 .. NumCalls

MainPCs == {"create", "resolve", "release", "spawn", "collect", "restore", "finalize", "return", "end"}
WorkerPCs == {"unborn", "ensure", "new", "reattach", "sys", "import", "getattr",
              "args", "call", "convert", "unwind", "end", "swap", "release", "over"}

Running == exit = "running"

(***************************************************************************)
(* The toolchain is looked for in the runfiles, then in PYTHONHOME, then   *)
(* on PATH; "valid" are the places where one is.                           *)
(***************************************************************************)
Places == {"runfiles", "PYTHONHOME", "PATH"}
ViaRunfiles(valid) == "runfiles" \in valid
ViaEnv(valid) == valid \cap {"PYTHONHOME", "PATH"} # {}
Toolchain(valid) ==
    IF ViaRunfiles(valid) THEN "runfiles"
    ELSE IF "PYTHONHOME" \in valid THEN "PYTHONHOME" ELSE "PATH"

-----------------------------------------------------------------------------
(***************************************************************************)
(* CPython.  A thread runs in an interpreter when its thread state there   *)
(* is attached, which it is while it holds the GIL of that interpreter.    *)
(***************************************************************************)
Attached(t, i) == cur[t] = i /\ gil[i] = t

\* Waits for the GIL; the thread state must exist.
Attach(t, i) ==
    /\ gil[i] = None
    /\ gil' = [gil EXCEPT ![i] = t]
    /\ cur' = [cur EXCEPT ![t] = i]

\* PyGILState_Ensure of a thread that has no thread state yet.
Ensure(t) ==
    /\ Attach(t, Main)
    /\ tss' = tss \cup {<<t, Main>>}
    /\ fatal' = (fatal \/ Main \notin alive)
    /\ UNCHANGED alive

\* PyGILState_Release of the last Ensure: only the thread's own state in the
\* main interpreter may be attached.
ReleaseState(t) ==
    /\ tss' = tss \ {<<t, Main>>}
    /\ cur' = [cur EXCEPT ![t] = None]
    /\ gil' = [i \in Interps |-> IF gil[i] = t THEN None ELSE gil[i]]
    /\ fatal' = (fatal \/ ~Attached(t, Main))
    /\ UNCHANGED alive

\* Py_NewInterpreterFromConfig with a GIL of its own gives up the main one.
NewInterpreter(t) ==
    /\ gil' = [gil EXCEPT ![Main] = None, ![t] = t]
    /\ cur' = [cur EXCEPT ![t] = t]
    /\ alive' = alive \cup {t}
    /\ tss' = tss \cup {<<t, t>>}
    /\ fatal' = (fatal \/ ~Attached(t, Main))

\* Py_EndInterpreter of the attached thread state, the last one of its
\* interpreter; afterwards the thread has none attached.
EndInterpreter(t) ==
    /\ gil' = [gil EXCEPT ![t] = None]
    /\ cur' = [cur EXCEPT ![t] = None]
    /\ alive' = alive \ {t}
    /\ tss' = tss \ {<<t, t>>}
    /\ fatal' = (fatal \/ ~Attached(t, t))

\* PyEval_SaveThread and a failed PyInterpreterState: the state stays, detached.
Detach(t) ==
    /\ gil' = [gil EXCEPT ![Main] = None]
    /\ cur' = [cur EXCEPT ![t] = None]
    /\ fatal' = (fatal \/ ~Attached(t, Main))
    /\ UNCHANGED <<alive, tss>>

\* PyEval_RestoreThread and PyThreadState_Swap of a detached state.
Reattach(t) ==
    /\ Attach(t, Main)
    /\ fatal' = (fatal \/ Main \notin alive \/ <<t, Main>> \notin tss)
    /\ UNCHANGED <<alive, tss>>

-----------------------------------------------------------------------------
Init ==
    /\ mpc = "create"
    /\ wpc = [w \in Workers |-> "unborn"]
    /\ home = None
    /\ gil = [i \in Interps |-> None]
    /\ alive = {}
    /\ tss = {}
    /\ cur = [t \in Threads |-> None]
    /\ refs = [w \in Workers |-> {}]
    /\ result = [w \in Workers |-> "pending"]
    /\ collected = 0
    /\ fatal = FALSE
    /\ exit = "running"

(***************************************************************************)
(* main.                                                                   *)
(***************************************************************************)
\* EmbeddedPythonRuntime::create: the thread that initializes Python holds the GIL.
Create ==
    /\ Running /\ mpc = "create"
    /\ \E valid \in SUBSET Places :
        /\ ViaRunfiles(valid) \/ ViaEnv(valid)
        /\ home' = Toolchain(valid)
    /\ mpc' = "resolve"
    /\ alive' = {Main}
    /\ tss' = {<<Main, Main>>}
    /\ gil' = [gil EXCEPT ![Main] = Main]
    /\ cur' = [cur EXCEPT ![Main] = Main]
    /\ UNCHANGED <<wpc, refs, result, collected, fatal, exit>>

\* No toolchain, or Python does not start: there is no runtime to destroy.
CreateFails ==
    /\ Running /\ mpc = "create"
    /\ mpc' = "end"
    /\ exit' = "-1"
    /\ UNCHANGED <<wpc, home, pyVars, refs, result, collected>>

\* resolve_python_library_paths: a path that cannot be resolved ends main,
\* with the GIL still held.
Resolve ==
    /\ Running /\ mpc = "resolve"
    /\ mpc' \in {"release", "finalize"}
    /\ UNCHANGED <<wpc, home, pyVars, refs, result, collected, exit>>

\* The construction of gil_guard.
ReleaseGil ==
    /\ Running /\ mpc = "release"
    /\ Detach(Main)
    /\ mpc' = "spawn"
    /\ UNCHANGED <<wpc, home, refs, result, collected, exit>>

\* std::async starts the threads one after the other.
Spawn(w) ==
    /\ Running /\ mpc = "spawn"
    /\ wpc[w] = "unborn"
    /\ \A v \in 1 .. w - 1 : wpc[v] # "unborn"
    /\ wpc' = [wpc EXCEPT ![w] = "ensure"]
    /\ mpc' = IF w = NumCalls THEN "collect" ELSE "spawn"
    /\ UNCHANGED <<home, pyVars, refs, result, collected, exit>>

\* No thread can be started: nobody catches the exception of std::async.
SpawnFails ==
    /\ Running /\ mpc = "spawn"
    /\ \E w \in Workers : wpc[w] = "unborn"
    /\ exit' = "aborted"
    /\ UNCHANGED <<mainVars, wpc, pyVars, refs, result>>

\* Mutant: the results are taken without waiting for the threads.
CollectAnyway ==
    /\ Running /\ mpc = "collect" /\ collected < NumCalls
    /\ result[collected + 1] # "pending"
    /\ collected' = collected + 1
    /\ exit' = IF result[collected + 1] = "thrown" THEN "aborted" ELSE exit
    /\ UNCHANGED <<mpc, home, wpc, pyVars, refs, result>>

\* future.get, in order: it waits for the call, and throws what the call threw.
Collect ==
    /\ Running /\ mpc = "collect" /\ collected < NumCalls
    /\ wpc[collected + 1] = "over"
    /\ collected' = collected + 1
    /\ exit' = IF result[collected + 1] = "thrown" THEN "aborted" ELSE exit
    /\ UNCHANGED <<mpc, home, wpc, pyVars, refs, result>>

\* The return of main destroys the futures, then gil_guard ...
Leave ==
    /\ Running /\ mpc = "collect" /\ collected = NumCalls
    /\ mpc' = "restore"
    /\ UNCHANGED <<home, wpc, pyVars, refs, result, collected, exit>>

RestoreGil ==
    /\ Running /\ mpc = "restore"
    /\ Reattach(Main)
    /\ mpc' = "finalize"
    /\ UNCHANGED <<home, wpc, refs, result, collected, exit>>

\* ~EmbeddedPythonRuntime: Py_FinalizeEx ends every interpreter and state there is.
Finalize ==
    /\ Running /\ mpc = "finalize"
    /\ mpc' = "return"
    /\ alive' = {}
    /\ tss' = {}
    /\ gil' = [gil EXCEPT ![Main] = None]
    /\ cur' = [cur EXCEPT ![Main] = None]
    /\ fatal' = (fatal \/ ~Attached(Main, Main))
    /\ UNCHANGED <<home, wpc, refs, result, collected, exit>>

\* all_success: every call of main has a value.
AllSuccess == \A w \in Workers : result[w] = "ok"

\* Mutant: the exit code tells of the last call only.
ReturnOfLast ==
    /\ Running /\ mpc = "return"
    /\ mpc' = "end"
    /\ exit' = IF result[NumCalls] = "ok" THEN "0" ELSE "-1"
    /\ UNCHANGED <<home, wpc, pyVars, refs, result, collected>>

Return ==
    /\ Running /\ mpc = "return"
    /\ mpc' = "end"
    /\ exit' = IF AllSuccess THEN "0" ELSE "-1"
    /\ UNCHANGED <<home, wpc, pyVars, refs, result, collected>>

MainStep ==
    \/ Create \/ CreateFails \/ Resolve \/ ReleaseGil
    \/ (\E w \in Workers : Spawn(w)) \/ SpawnFails
    \/ Collect \/ Leave \/ RestoreGil \/ Finalize \/ Return

-----------------------------------------------------------------------------
(***************************************************************************)
(* call_in_subinterpreter, on a thread of its own.                         *)
(***************************************************************************)
At(w, label) == Running /\ wpc[w] = label
Goto(w, label) == wpc' = [wpc EXCEPT ![w] = label]

Enter(w) ==
    /\ At(w, "ensure")
    /\ Ensure(w)
    /\ Goto(w, "new")
    /\ UNCHANGED <<mainVars, refs, result, exit>>

\* SubInterpreterGuard::create
MakeInterpreter(w) ==
    /\ At(w, "new")
    /\ NewInterpreter(w)
    /\ Goto(w, "sys")
    /\ UNCHANGED <<mainVars, refs, result, exit>>

\* It fails, and CPython attaches the state of the main interpreter again;
\* the guard has no subinterpreter to end.
MakeFails(w) ==
    /\ At(w, "new")
    /\ Detach(w)
    /\ Goto(w, "reattach")
    /\ result' = [result EXCEPT ![w] = "none"]
    /\ UNCHANGED <<mainVars, refs, exit>>

MakeFailed(w) ==
    /\ At(w, "reattach")
    /\ Reattach(w)
    /\ Goto(w, "release")
    /\ UNCHANGED <<mainVars, refs, result, exit>>

\* The steps that run Python in the subinterpreter, the one after each, and
\* the PyObjectGuard each leaves in the frame of the call.
PythonSteps == {"sys", "import", "getattr", "args", "call"}
After(label) ==
    CASE label = "sys" -> "import" [] label = "import" -> "getattr"
      [] label = "getattr" -> "args" [] label = "args" -> "call"
      [] label = "call" -> "convert"
Made(label) ==
    CASE label = "sys" -> {} [] label = "import" -> {"module"}
      [] label = "getattr" -> {"func"} [] label = "args" -> {"py_args"}
      [] label = "call" -> {"result"}
Names == {"sys_module", "sys_path", "lib_path", "module", "func", "py_args", "result"}

\* Python without an attached thread state is a fatal error.
NeedsState(w) == fatal' = (fatal \/ cur[w] = None)

PythonStep(w) ==
    /\ Running /\ wpc[w] \in PythonSteps
    /\ Goto(w, After(wpc[w]))
    /\ refs' = [refs EXCEPT ![w] = @ \cup Made(wpc[w])]
    /\ NeedsState(w)
    /\ UNCHANGED <<mainVars, gil, alive, tss, cur, result, exit>>

\* A step returns NULL, or C++ throws in it: the guards made so far are live.
PythonFails(w) ==
    /\ Running /\ wpc[w] \in PythonSteps
    /\ Goto(w, "unwind")
    /\ \E r \in {"none", "thrown"} : result' = [result EXCEPT ![w] = r]
    /\ refs' \in IF wpc[w] = "sys"
                 THEN {[refs EXCEPT ![w] = S] :
                          S \in {{}, {"sys_module"}, {"sys_module", "sys_path"},
                                 {"sys_module", "sys_path", "lib_path"}}}
                 ELSE {refs, [refs EXCEPT ![w] = @ \cup Made(wpc[w])]}
    /\ NeedsState(w)
    /\ UNCHANGED <<mainVars, gil, alive, tss, cur, exit>>

\* PyResultConverter<R>::convert, while the subinterpreter is still there.
Convert(w) ==
    /\ At(w, "convert")
    /\ Goto(w, "unwind")
    /\ \E r \in {"ok", "none", "thrown"} : result' = [result EXCEPT ![w] = r]
    /\ NeedsState(w)
    /\ UNCHANGED <<mainVars, refs, gil, alive, tss, cur, exit>>

\* Mutant: the subinterpreter is declared after the objects.
UnwindLate(w) ==
    /\ At(w, "unwind")
    /\ Goto(w, "end")
    /\ NeedsState(w)
    /\ UNCHANGED <<mainVars, refs, gil, alive, tss, cur, result, exit>>

\* The guards of the frame are destroyed in reverse order: the objects ...
Unwind(w) ==
    /\ At(w, "unwind")
    /\ Goto(w, "end")
    /\ refs' = [refs EXCEPT ![w] = {}]
    /\ NeedsState(w)
    /\ UNCHANGED <<mainVars, gil, alive, tss, cur, result, exit>>

\* Mutant: PyThreadState_Swap is forgotten.
EndWithoutSwap(w) ==
    /\ At(w, "end")
    /\ EndInterpreter(w)
    /\ Goto(w, "release")
    /\ UNCHANGED <<mainVars, refs, result, exit>>

\* ... and ~SubInterpreterGuard: Py_EndInterpreter, ...
End(w) ==
    /\ At(w, "end")
    /\ EndInterpreter(w)
    /\ Goto(w, "swap")
    /\ UNCHANGED <<mainVars, refs, result, exit>>

\* ... PyThreadState_Swap(main_ts_), ...
SwapBack(w) ==
    /\ At(w, "swap")
    /\ Reattach(w)
    /\ Goto(w, "release")
    /\ UNCHANGED <<mainVars, refs, result, exit>>

\* Mutant: the GIL state is not released.
LeaveHolding(w) ==
    /\ At(w, "release")
    /\ Goto(w, "over")
    /\ UNCHANGED <<mainVars, pyVars, refs, result, exit>>

\* ... PyGILState_Release.
LeavePython(w) ==
    /\ At(w, "release")
    /\ ReleaseState(w)
    /\ Goto(w, "over")
    /\ UNCHANGED <<mainVars, refs, result, exit>>

WorkerStep(w) ==
    \/ Enter(w) \/ MakeInterpreter(w) \/ MakeFails(w) \/ MakeFailed(w)
    \/ PythonStep(w) \/ PythonFails(w) \/ Convert(w)
    \/ Unwind(w) \/ End(w) \/ SwapBack(w) \/ LeavePython(w)

Next == MainStep \/ \E w \in Workers : WorkerStep(w)

Spec == Init /\ [][Next]_vars

\* Threads are scheduled, a free GIL is given to who waits for it, and the
\* functions called return.
Fairness == WF_vars(MainStep) /\ \A w \in Workers : WF_vars(WorkerStep(w))
FairSpec == Spec /\ Fairness

-----------------------------------------------------------------------------
\* Types of the variables.
TypeOK ==
    /\ mpc \in MainPCs
    /\ wpc \in [Workers -> WorkerPCs]
    /\ home \in Places \cup {None}
    /\ gil \in [Interps -> Threads \cup {None}]
    /\ alive \in SUBSET Interps
    /\ tss \in SUBSET (Threads \X Interps)
    /\ cur \in [Threads -> Interps \cup {None}]
    /\ refs \in [Workers -> SUBSET Names]
    /\ result \in [Workers -> {"pending", "ok", "none", "thrown"}]
    /\ collected \in 0 .. NumCalls
    /\ fatal \in BOOLEAN
    /\ exit \in {"running", "0", "-1", "aborted"}

\* CPython never ends the process with a fatal error: whatever the order in
\* which the threads enter and leave the main interpreter and whichever step
\* of a call fails, the guards attach the thread state each call needs.
NeverFatal == ~fatal

\* A PyObjectGuard lives only while its thread runs in the subinterpreter its
\* object belongs to: no Py_XDECREF happens after Py_EndInterpreter.
ObjectsAtHome == \A w \in Workers : refs[w] # {} => w \in alive /\ Attached(w, w)

Alone == Attached(Main, Main) /\ alive = {Main} /\ tss = {<<Main, Main>>}

\* What ~EmbeddedPythonRuntime demands of its caller: Python is finalized by
\* the thread that holds the GIL, when all subinterpreters are ended and no
\* other thread has a state in the main interpreter.
FinalizedAlone == [][(Main \in alive /\ Main \notin alive') => Alone]_vars

\* The application implements what it promises: one result for each call and
\* an exit code that agrees with them.
Abstract == INSTANCE Calls
ImplementsCalls == Abstract!Spec

\* The process ends: nobody waits for ever for a GIL or for a future.
ProcessEnds == <>(exit # "running")
=============================================================================
