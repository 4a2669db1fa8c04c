------------------------------ MODULE Profile ------------------------------
(***************************************************************************)
(* The profiling runner (profiling/engine.py over profiling/spine.py):     *)
(* batches and single runs over tagged targets.  A run empties the output  *)
(* directory of its target and mode, captures, and renders what it finds   *)
(* there; any program it calls may fail, and the user may stop it.         *)
(***************************************************************************)
EXTENDS Naturals, Sequences, FiniteSets

CONSTANTS
    Labels,     \* targets
    Workspaces, \* sets of labels: the targets a workspace may have
    Tags,       \* [label -> subset of Modes]
    Language,   \* [label -> language of the target]
    Out,        \* [label -> directory]; labels may share one
    Benches,    \* [label -> names of its benchmarks]
    Id,         \* [name of a recording -> name of its artifacts]
    MaxRuns     \* bound: runs that empty a directory

Modes == {"cpu", "mem"}
Samplers == {"none", "perf"}
Languages == {"rust", "go", "cpp", "python", "java"}
None == "-"

\* An output directory is that of a target, in a mode.
Places == {Out[l] : l \in Labels} \X Modes

\* One recording of a whole target, and that of the system's sampler.
Single == "target"
Perf == "perf"

ASSUME LabelAssumption ==
    /\ \A w \in Workspaces : w \subseteq Labels
    /\ Tags \in [Labels -> SUBSET Modes] /\ Language \in [Labels -> Languages]

VARIABLES
    targets,    \* the labels of the workspace
    disk,       \* [place -> its files]
    now,        \* number of the run at hand, or of the last one
    last,       \* history: [place -> the last run that entered it]
    pc, pos,    \* place in the invocation, and in the plan of the run
    todo, cur,  \* recordings left to render, the one at hand
    all,        \* the invocation is a batch
    asked,      \* [mode, sampler] on the command line
    modes,      \* modes left to discover
    queue,      \* <<label, mode>> discovered and left to run, in any order
    target,     \* <<label, mode>> at hand
    results,    \* [<<label, mode>> run so far -> what came of it]
    exit        \* how the last invocation ended

invocation == <<targets, all, asked, modes>>
vars == <<invocation, disk, now, last, pc, pos, todo, cur, queue, target, results, exit>>

-----------------------------------------------------------------------------
(***************************************************************************)
(* What a run does once its directory is empty, step by step.              *)
(***************************************************************************)
Step(op, kind) == [op |-> op, kind |-> kind]
Tools == Step("tools", None)
Build == Step("build", None)
Profiled == Step("capture", None)
Need(kind) == Step("need", kind)
Convert(kind) == Step("convert", kind)
Fold(kind) == Step("fold", kind)
Svg == Step("svg", "svg")
Top == Step("report", "top")
Drop(kind) == Step("drop", kind)
Again(kind) == Step("again", kind)

\* In-process capture of benchmarks.
Cpu(language) ==
    CASE language = "rust" ->
            <<Tools, Profiled, Need("pb"), Fold("pb"), Svg, Top, Again("pb")>>
      [] language = "go" ->
            <<Tools, Profiled, Need("pb"), Fold("pb"), Svg, Top>>
      [] language = "cpp" ->
            <<Tools, Profiled, Need("raw"), Build, Convert("raw"), Drop("raw"), Need("pb"), Fold("pb"), Svg, Top>>
      [] language = "python" ->
            <<Tools, Profiled, Need("folded"), Svg, Top>>
      [] language = "java" ->
            <<Tools, Profiled, Need("jfr"), Fold("jfr"), Svg, Top, Again("jfr"), Drop("jfr")>>

\* The same under the system's sampler.
Sampled(language) ==
    CASE language = "rust" ->
            <<Tools, Tools, Build, Profiled, Need("perf"), Fold("perf"), Svg, Top, Drop("perf"),
              Need("pb"), Fold("pb"), Svg, Top, Again("pb")>>
      [] language = "go" ->
            <<Tools, Tools, Build, Profiled, Need("perf"), Fold("perf"), Svg, Top, Drop("perf"),
              Need("pb"), Fold("pb"), Svg, Top>>
      [] language = "cpp" ->
            <<Tools, Tools, Build, Profiled, Need("perf"), Fold("perf"), Svg, Top, Drop("perf"),
              Need("raw"), Build, Convert("raw"), Drop("raw"), Need("pb"), Fold("pb"), Svg, Top>>
      [] language \in {"python", "java"} -> <<Tools, Tools, Step("unsupported", None)>>

Mem(language) ==
    CASE language \in {"rust", "cpp"} ->
            <<Tools, Profiled, Need("heap"), Build, Convert("heap"), Drop("heap"), Drop("meta"),
              Fold("pb"), Step("table", "table"), Svg, Top, Drop("table")>>
      [] language = "java" ->
            <<Tools, Profiled, Need("jfr"), Fold("jfr"), Drop("jfr"), Drop("meta"), Svg, Top>>
      [] language = "python" ->
            <<Tools, Profiled, Need("folded"), Drop("bucket"), Drop("meta"), Svg, Top>>
      [] language = "go" ->
            <<Tools, Profiled, Need("pb"), Drop("meta"), Fold("pb"), Step("table", "table"), Svg, Top, Drop("table")>>

Plan(r) ==
    CASE r.mode = "mem" -> Mem(Language[r.label])
      [] r.mode = "cpu" /\ r.sampler = "perf" -> Sampled(Language[r.label])
      [] r.mode = "cpu" /\ r.sampler = "none" -> Cpu(Language[r.label])

NoRun == [n |-> 0, label |-> None, mode |-> None, sampler |-> "none", names |-> {}, state |-> None]

NoFile == [kind |-> None, name |-> None, from |-> 0, at |-> 0, whole |-> FALSE]

\* The kinds of files a program leaves when it is profiled.
Captured(r) ==
    LET own == CASE r.mode = "cpu" /\ Language[r.label] \in {"rust", "go"} -> {"pb"}
                 [] r.mode = "cpu" /\ Language[r.label] = "cpp" -> {"raw"}
                 [] r.mode = "cpu" /\ Language[r.label] = "python" -> {"folded"}
                 [] r.mode = "cpu" /\ Language[r.label] = "java" -> {"jfr"}
                 [] r.mode = "mem" /\ Language[r.label] \in {"rust", "cpp"} -> {"heap", "meta"}
                 [] r.mode = "mem" /\ Language[r.label] = "java" -> {"jfr", "meta"}
                 [] r.mode = "mem" /\ Language[r.label] = "python" -> {"bucket", "meta", "folded"}
                 [] r.mode = "mem" /\ Language[r.label] = "go" -> {"pb", "meta"}
    IN  IF r.sampler = "perf" THEN {"perf"} \cup own ELSE own

\* Criterion and JMH record each benchmark, the others the whole target.
Names(r) == IF r.mode = "cpu" /\ Language[r.label] \in {"rust", "java"} THEN Benches[r.label] ELSE {Single}

-----------------------------------------------------------------------------
\* A target of both tags counts as one for the processor.
Actual(l) == IF "cpu" \in Tags[l] THEN "cpu" ELSE "mem"
Mode == Actual(target[1])
Place == <<Out[target[1]], Mode>>
Run == last[Place]
At(op) == pc = "plan" /\ pos \in DOMAIN Plan(Run) /\ Plan(Run)[pos].op = op
Kind == Plan(Run)[pos].kind

\* A file holds data of the run it is "from", and was written "at" a run, which
\* tells its time as far as it matters.
File(kind, name) == [kind |-> kind, name |-> name, from |-> now, at |-> now, whole |-> TRUE]
SameFile(f, g) == f.kind = g.kind /\ f.name = g.name
On(kind) == {f \in disk[Place] : f.kind = kind}

Delete(fs) == disk' = [disk EXCEPT ![Place] = @ \ fs]
Write(new) == disk' = [disk EXCEPT ![Place] = {g \in @ : \A f \in new : ~SameFile(f, g)} \cup new]

Nothing == [t \in {} |-> None]
NotAsked == [mode |-> None, sampler |-> "none"]
NoTarget == <<None, None>>

Init ==
    /\ targets \in Workspaces
    /\ disk = [k \in Places |-> {}] /\ now = 0
    /\ last = [k \in Places |-> NoRun]
    /\ pc = "idle" /\ pos = 0 /\ todo = {} /\ cur = NoFile
    /\ all = FALSE /\ asked = NotAsked
    /\ modes = <<>> /\ queue = {} /\ target = NoTarget /\ results = Nothing /\ exit = None

-----------------------------------------------------------------------------
\* What bazel query finds, in whatever order.
Discovered(m) == {l \in targets : m \in Tags[l]}
ModesAsked(a) ==
    IF a.sampler = "perf" THEN <<"cpu">> ELSE IF a.mode = None THEN <<"cpu", "mem">> ELSE <<a.mode>>

RunAll(a) ==
    /\ pc = "idle" /\ now + Cardinality(targets) <= MaxRuns
    /\ ~(a.sampler = "perf" /\ a.mode = "mem")
    /\ all' = TRUE /\ asked' = a /\ modes' = ModesAsked(a)
    /\ pc' = "discover" /\ results' = Nothing /\ exit' = None
    /\ UNCHANGED <<targets, disk, now, last, pos, todo, cur, queue, target>>

RunOne(a) ==
    /\ pc = "idle" /\ now < MaxRuns
    /\ \E l \in targets : target' = <<l, a.mode>>
    /\ all' = FALSE /\ asked' = a /\ modes' = <<>>
    /\ pc' = "infer" /\ results' = Nothing /\ exit' = None
    /\ UNCHANGED <<targets, disk, now, last, pos, todo, cur, queue>>

\* bazel query, once a mode; a failure ends the batch without a summary.
Discover ==
    /\ pc = "discover" /\ queue = {} /\ modes # <<>>
    /\ queue' = Discovered(Head(modes)) \X {Head(modes)}
    /\ modes' = Tail(modes)
    /\ UNCHANGED <<targets, disk, now, last, pc, pos, todo, cur, all, asked, target, results, exit>>

DiscoverFails ==
    /\ pc = "discover" /\ queue = {} /\ modes # <<>>
    /\ pc' = "idle" /\ exit' = "error" /\ modes' = <<>>
    /\ all' = FALSE /\ asked' = NotAsked /\ results' = Nothing
    /\ UNCHANGED <<targets, disk, now, last, pos, todo, cur, queue, target>>

NextTarget ==
    /\ pc = "discover"
    /\ target' \in queue /\ queue' = queue \ {target'}
    /\ pc' = "infer"
    /\ UNCHANGED <<disk, now, last, pos, todo, cur, invocation, results, exit>>

Summary ==
    /\ pc = "discover" /\ queue = {} /\ modes = <<>>
    /\ pc' = "idle"
    /\ exit' = IF \E t \in DOMAIN results : results[t] = "failed" THEN "error" ELSE "ok"
    /\ UNCHANGED <<disk, now, last, pos, todo, cur, invocation, queue, target, results>>

\* Mutant: a single run passes over a target that it skips, as a batch does.
SettleAlike(what) ==
    /\ results' = [t \in DOMAIN results \cup {target} |-> IF t = target THEN what ELSE results[t]]
    /\ target' = NoTarget
    /\ IF all THEN pc' = "discover" /\ UNCHANGED <<asked, exit>>
              ELSE pc' = "idle" /\ asked' = NotAsked /\ exit' = IF what = "failed" THEN "error" ELSE "ok"
    /\ pos' = 0 /\ todo' = {} /\ cur' = NoFile
    /\ UNCHANGED <<targets, now, all, modes, queue>>

\* What came of the target at hand: a batch goes on, a single run exits.
Settle(what) ==
    /\ results' = [t \in DOMAIN results \cup {target} |-> IF t = target THEN what ELSE results[t]]
    /\ target' = NoTarget
    /\ IF all THEN pc' = "discover" /\ UNCHANGED <<asked, exit>>
              ELSE pc' = "idle" /\ asked' = NotAsked /\ exit' = IF what = "profiled" THEN "ok" ELSE "error"
    /\ pos' = 0 /\ todo' = {} /\ cur' = NoFile
    /\ UNCHANGED <<targets, now, all, modes, queue>>

Accepts(t) == t[2] \in {None, Mode} /\ ~(asked.sampler = "perf" /\ Mode = "mem")

\* The query fails, or the options do not suit the target.
Refuse ==
    /\ pc = "infer"
    /\ Settle("failed") /\ UNCHANGED <<disk, last>>

Entered(state) ==
    last' = [last EXCEPT ![Place] =
                [n |-> now + 1, label |-> target[1], mode |-> Mode, sampler |-> asked.sampler,
                 names |-> {}, state |-> state]]

\* Mutant: what is there stays.
EnterOver ==
    /\ pc = "infer" /\ Accepts(target)
    /\ now' = now + 1 /\ Entered("running") /\ disk' = disk
    /\ pc' = "plan" /\ pos' = 1
    /\ UNCHANGED <<todo, cur, invocation, queue, target, results, exit>>

\* rmtree and mkdir.
Enter ==
    /\ pc = "infer" /\ Accepts(target)
    /\ now' = now + 1 /\ Entered("running") /\ Delete(disk[Place])
    /\ pc' = "plan" /\ pos' = 1
    /\ UNCHANGED <<todo, cur, invocation, queue, target, results, exit>>

Abort ==
    /\ pc' = "idle" /\ exit' = "stopped" /\ all' = FALSE /\ asked' = NotAsked /\ results' = Nothing
    /\ pos' = 0 /\ todo' = {} /\ cur' = NoFile /\ queue' = {} /\ target' = NoTarget /\ modes' = <<>>
    /\ UNCHANGED targets

\* rmtree breaks off, which no handler of the runner catches.
EnterBreaks ==
    /\ pc = "infer" /\ Accepts(target)
    /\ \E gone \in SUBSET disk[Place] : Delete(gone)
    /\ now' = now + 1 /\ Entered("stopped") /\ Abort

-----------------------------------------------------------------------------
Advance == pos' = pos + 1 /\ UNCHANGED <<now, last, pc, invocation, queue, target, results, exit>>

\* Nothing on disk changes: runfiles, the rule's kind, perf and its permission,
\* bazel build and cquery.
Check ==
    /\ At("tools") \/ At("build")
    /\ Advance /\ UNCHANGED <<disk, todo, cur>>

\* The program under its profiler may record any of its benchmarks.
Recorded(kind, names) ==
    CASE kind = "perf" -> {File(kind, Perf)}
      [] kind \in {"bucket", "meta"} -> {File(kind, Single)}
      [] kind = "folded" -> {File(kind, Id[b]) : b \in names}
      [] OTHER -> {File(kind, b) : b \in names}
Recordings(names) == UNION {Recorded(kind, names) : kind \in Captured(Run)}

Capture ==
    /\ At("capture")
    /\ \E names \in SUBSET Names(Run) :
        /\ Write(Recordings(names))
        /\ last' = [last EXCEPT ![Place].names = names]
    /\ pos' = pos + 1
    /\ UNCHANGED <<now, pc, todo, cur, invocation, queue, target, results, exit>>

\* The glob, or the one file that must be there.
Collect ==
    /\ At("need") /\ On(Kind) # {}
    /\ todo' = On(Kind)
    /\ cur' \in todo'
    /\ Advance /\ UNCHANGED disk

\* What is made carries the data of the recording at hand, under its name.
Stem(f) == IF f.kind = "folded" THEN f.name ELSE Id[f.name]
Made(kind, name) == [File(kind, name) EXCEPT !.from = cur.from]

\* gperftools_to_pb.
Symbolize ==
    /\ At("convert")
    /\ cur' = Made("pb", Single) /\ Write({cur'})
    /\ Advance /\ UNCHANGED todo

\* pprof_to_folded, jfr_to_folded, perf_to_folded, folded_to_svg, pprof_to_table,
\* _report.
Drawing == {"fold", "svg", "table", "report"}
Product == IF Plan(Run)[pos].op = "fold" THEN "folded" ELSE Kind
Make ==
    /\ \E op \in Drawing : At(op)
    /\ Write({Made(Product, Stem(cur))})
    /\ Advance /\ UNCHANGED <<todo, cur>>

Repeat ==
    /\ At("again")
    /\ todo' = todo \ {cur}
    /\ IF todo' = {} THEN pos' = pos + 1 /\ cur' = cur
                     ELSE pos' = pos - 3 /\ cur' \in todo'
    /\ UNCHANGED <<disk, now, last, pc, invocation, queue, target, results, exit>>

Remove ==
    /\ At("drop")
    /\ Delete(On(Kind))
    /\ Advance /\ UNCHANGED <<todo, cur>>

Ended(state) == last' = [last EXCEPT ![Place].state = state]

Finish ==
    /\ pc = "plan" /\ pos = Len(Plan(Run)) + 1
    /\ Ended("ok") /\ Settle("profiled") /\ UNCHANGED disk

\* SamplerUnsupportedError.
Skip ==
    /\ At("unsupported")
    /\ Ended("failed") /\ Settle("skipped") /\ UNCHANGED disk

\* What a step leaves that fails or is stopped: nothing of its own, some of the
\* recordings, or a torn file.
Leave ==
    \/ disk' = disk
    \/ At("capture") /\ \E names \in SUBSET Names(Run) : Write(Recordings(names))
    \/ /\ \E op \in Drawing : At(op)
       /\ Write({[Made(Product, Stem(cur)) EXCEPT !.whole = FALSE]})
    \/ At("drop") /\ \E fs \in SUBSET On(Kind) : Delete(fs)

Fails ==
    \/ \E op \in {"tools", "build", "capture", "convert", "fold", "svg", "table"} : At(op)
    \/ At("need") /\ On(Kind) = {}

\* Mutant: a drawing that fails counts as a profile.
FailQuietly ==
    /\ Fails /\ Leave
    /\ Ended("failed") /\ Settle(IF At("svg") THEN "profiled" ELSE "failed")

\* ProfileError.
Fail ==
    /\ Fails /\ Leave
    /\ Ended("failed") /\ Settle("failed")

\* The user stops the runner: nothing is caught, nothing tidied up.
Interrupt ==
    /\ pc # "idle"
    /\ IF pc = "plan" THEN Ended("stopped") /\ Leave ELSE UNCHANGED <<last, disk>>
    /\ Abort /\ UNCHANGED now

RunStep ==
    \/ Discover \/ DiscoverFails \/ NextTarget \/ Summary \/ Refuse \/ Enter \/ EnterBreaks
    \/ Check \/ Capture \/ Collect \/ Symbolize \/ Make \/ Repeat \/ Remove \/ Finish \/ Skip \/ Fail

Asked == [mode : Modes \cup {None}, sampler : Samplers]
User == Interrupt \/ \E a \in Asked : RunAll(a) \/ RunOne(a)

Next == RunStep \/ User

Spec == Init /\ [][Next]_vars

-----------------------------------------------------------------------------
Outcomes == {"profiled", "failed", "skipped"}
States == {"running", "ok", "failed", "stopped"}

\* Types of the variables, and which of them say something in which state.
TypeOK ==
    /\ now \in Nat /\ pc \in {"idle", "discover", "infer", "plan"} /\ exit \in {None, "ok", "error", "stopped"}
    /\ \A k \in Places : \A f \in disk[k] : f.at \in 1 .. now /\ f.from \in 1 .. now /\ f.whole \in BOOLEAN
    /\ \A k \in Places :
            \/ last[k] = NoRun
            \/ last[k].n \in 1 .. now /\ <<Out[last[k].label], last[k].mode>> = k /\ last[k].state \in States
    /\ pc \in {"infer", "plan"} => target \in targets \X (Modes \cup {None})
    /\ pc = "plan" => pos \in 1 .. Len(Plan(Run)) + 1 /\ Run.state = "running"
    /\ pc = "idle" => queue = {} /\ modes = <<>> /\ target = NoTarget
    /\ todo # {} => pc = "plan"
    /\ \A t \in DOMAIN results : results[t] \in Outcomes

\* A run that succeeded has rendered all that it recorded and nothing else,
\* whole, and left none of the files on the way: whatever earlier runs of the
\* directory recorded, rendered or left torn.
Rendered(k, kind) == {f.name : f \in {g \in disk[k] : g.kind = kind}}
Recording(r) == r.names \cup IF r.sampler = "perf" THEN {Perf} ELSE {}
SuccessIsComplete ==
    \A k \in Places : last[k].state = "ok" =>
        /\ \A f \in disk[k] : f.from = last[k].n /\ f.whole /\ f.kind \in {"pb", "folded", "svg", "top"}
        /\ \A kind \in {"folded", "svg", "top"} : Rendered(k, kind) = {Id[b] : b \in Recording(last[k])}

\* When a batch has printed its summary, every target of every mode asked for
\* is accounted for once, and one that counts as profiled has its artifacts, or
\* has lost them to a target of the same directory; the exit code tells.
SummaryIsTrue ==
    pc = "idle" /\ all /\ exit \in {"ok", "error"} =>
        /\ DOMAIN results = UNION {Discovered(ModesAsked(asked)[i]) \X {ModesAsked(asked)[i]} :
                                      i \in DOMAIN ModesAsked(asked)}
        /\ exit = "ok" <=> \A t \in DOMAIN results : results[t] # "failed"
        /\ \A t \in DOMAIN results : results[t] = "profiled" =>
                LET r == last[<<Out[t[1]], t[2]>>] IN r.state = "ok" \/ r.label # t[1]

\* A single run exits with 0 only if it is the last that has entered the
\* directory of its target, in the mode of its tag, and has succeeded there; a
\* target that a batch would skip is an error.
ExitIsTrue ==
    pc = "idle" /\ ~all /\ exit = "ok" =>
        \E t \in DOMAIN results : LET r == last[<<Out[t[1]], Actual(t[1])>>] IN
            r.n = now /\ r.label = t[1] /\ t[2] \in {None, r.mode} /\ r.state = "ok"

\* What --view may open: the latest of a target's folded files, of both modes.
Candidates(d) ==
    UNION {{[mode |-> m, file |-> f] : f \in {g \in disk[<<d, m>>] : g.kind \in {"folded", "bucket"}}} : m \in Modes}
Newest(cs) == {c \in cs : \A e \in cs : e.file.at <= c.file.at}

\* Mutant: those of the processor first.
ViewByMode(d) ==
    LET cpu == {c \in Candidates(d) : c.mode = "cpu"}
    IN  Newest(IF cpu # {} THEN cpu ELSE Candidates(d))
View(d) == Newest(Candidates(d))

\* After a run that succeeded, --view finds stacks to open, and opens some that
\* this run has recorded, whole, and drawn too.
Latest(d) == CHOOSE r \in {last[<<d, m>>] : m \in Modes} : \A m \in Modes : last[<<d, m>>].n <= r.n
ViewShowsLatest ==
    \A l \in Labels : LET d == Out[l] IN Latest(d).state = "ok" =>
        /\ View(d) # {}
        /\ \A c \in View(d) :
            /\ c.file.from = Latest(d).n /\ c.file.kind = "folded" /\ c.file.whole
            /\ c.file.name \in Rendered(<<d, c.mode>>, "svg")
=============================================================================
