--------------------------- MODULE ProfileProofs ---------------------------
(***************************************************************************)
(* Proofs about the profiling runner, for any targets of any tags and      *)
(* languages that share directories as they like, any benchmarks, any      *)
(* names of artifacts and any number of runs.  A run in progress follows   *)
(* the plan of its language; what is true at each step of a plan is stated *)
(* in numbers that all plans have in common, so that a proof about a step  *)
(* need not know the language.                                             *)
(***************************************************************************)
EXTENDS Profile, TLAPS

(***************************************************************************)
(* The plan of a run in numbers: where its program runs, where its main    *)
(* part begins, the last step that collects recordings, of which kind, and *)
(* the step at which an artifact is drawn (or captured ready to use).      *)
(***************************************************************************)
IsRun(r) ==
    /\ DOMAIN r = DOMAIN NoRun
    /\ r.label \in Labels /\ r.mode \in Modes /\ r.sampler \in Samplers
    /\ r.mode = "mem" => r.sampler = "none"
Speaks(r, languages) == Language[r.label] \in languages

Supported(r) == r.sampler = "perf" => Speaks(r, {"rust", "go", "cpp"})
Turns(r) == r.mode = "cpu" /\ Speaks(r, {"cpp"})
Loops(r) == r.mode = "cpu" /\ Speaks(r, {"rust", "java"})
RunsAt(r) == IF r.sampler = "perf" THEN 4 ELSE 2
First(r) == IF r.sampler = "perf" THEN 10 ELSE 3
Main(r) == IF Turns(r) THEN First(r) + 4 ELSE First(r)
SourceAt(r) == IF Turns(r) THEN First(r) + 2 ELSE RunsAt(r)
Source(r) ==
    CASE Speaks(r, {"python"}) -> "folded"
      [] Speaks(r, {"java"}) -> "jfr"
      [] Speaks(r, {"go"}) -> "pb"
      [] Speaks(r, {"rust", "cpp"}) -> IF r.mode = "cpu" THEN "pb" ELSE "heap"

Art == {"folded", "svg", "top"}
FoldAt(r) ==
    CASE Speaks(r, {"python"}) -> RunsAt(r)
      [] Speaks(r, {"java"}) -> Main(r) + 1
      [] Speaks(r, {"go"}) -> IF r.mode = "cpu" THEN Main(r) + 1 ELSE 5
      [] Speaks(r, {"rust", "cpp"}) -> IF r.mode = "cpu" THEN Main(r) + 1 ELSE 8
SvgAt(r) ==
    IF r.mode = "cpu" THEN IF Speaks(r, {"python"}) THEN Main(r) + 1 ELSE Main(r) + 2
    ELSE CASE Speaks(r, {"python"}) -> 6
           [] Speaks(r, {"java", "go"}) -> 7
           [] Speaks(r, {"rust", "cpp"}) -> 10
DrawnAt(r, kind) == CASE kind = "folded" -> FoldAt(r) [] kind = "svg" -> SvgAt(r) [] kind = "top" -> SvgAt(r) + 1
SampledAt(kind) == CASE kind = "folded" -> 6 [] kind = "svg" -> 7 [] kind = "top" -> 8
Makes(step) ==
    CASE step.op = "fold" -> "folded" [] step.op = "svg" -> "svg" [] step.op = "report" -> "top"
      [] step.op = "table" -> "table" [] OTHER -> None

\* The kinds of files a run may have in its directory.
Tables(r) == r.mode = "mem" /\ Speaks(r, {"rust", "cpp", "go"})
Kinds(r) == Captured(r) \cup Art \cup {"pb"} \cup (IF Tables(r) THEN {"table"} ELSE {})
Dropped(r, p) == {kind \in Kinds(r) : \E q \in 1 .. p - 1 : q \in DOMAIN Plan(r) /\ Plan(r)[q] = Drop(kind)}

-----------------------------------------------------------------------------
Ids(names) == {Id[b] : b \in names}
Having(fs, kind) == {f \in fs : f.kind = kind}
NamesOf(fs, kind) == {f.name : f \in Having(fs, kind)}

\* The files of a run at a place of its plan are its own, whole and named for
\* what it recorded; those it must not leave go when they are dropped.
Owned(f, r) ==
    /\ f.from = r.n /\ f.at = r.n /\ f.whole /\ f.kind \in Kinds(r)
    /\ f.kind \in Art => f.name \in Ids(Recording(r))
    /\ f.kind \in {"pb", "raw", "heap", "jfr"} => f.name \in r.names
    /\ f.kind = "perf" => f.name = Perf
FilesInv(fs, r, p) ==
    /\ \A f \in fs : Owned(f, r) /\ f.kind \notin Dropped(r, p)
    /\ p <= RunsAt(r) => fs = {} /\ r.names = {}
    /\ p \in SourceAt(r) + 1 .. Main(r) =>
        \A b \in r.names : \E f \in Having(fs, Source(r)) : Stem(f) = Id[b]

\* The recording at hand.
CurInv(c, r, p) ==
    /\ r.sampler = "perf" /\ p \in 6 .. First(r) => c.from = r.n /\ Stem(c) = Id[Perf]
    /\ p > First(r) => c.from = r.n /\ r.names # {} /\ Stem(c) \in Ids(r.names)

\* What is left of the recordings.
TodoInv(td, r, p) ==
    /\ p > Main(r) => \A f \in td : f.from = r.n /\ Stem(f) \in Ids(r.names)
    /\ Loops(r) /\ p > Main(r) + 4 => td = {}

\* Every recording is drawn, or is still to be.
DrawInv(fs, td, c, r, p) ==
    \A kind \in Art :
        /\ r.sampler = "perf" /\ p > SampledAt(kind) => Id[Perf] \in NamesOf(fs, kind)
        /\ p > Main(r) => \A b \in r.names :
            \/ Id[b] \in NamesOf(fs, kind)
            \/ \E f \in td : Stem(f) = Id[b] /\ (Stem(f) = Stem(c) => p <= DrawnAt(r, kind))

RunInv(r, p) ==
    /\ IsRun(r) /\ r.state = "running" /\ r.names \subseteq Names(r)
    /\ p \in 1 .. Len(Plan(r)) + 1
    /\ ~Supported(r) => p <= 3

Progress(fs, td, c, r, p) ==
    RunInv(r, p) /\ FilesInv(fs, r, p) /\ CurInv(c, r, p) /\ TodoInv(td, r, p) /\ DrawInv(fs, td, c, r, p)

PlanInv ==
    pc = "plan" =>
        /\ Run.n = now /\ Run.label = target[1] /\ Run.mode = Mode /\ target[2] \in {None, Mode}
        /\ Progress(disk[Place], todo, cur, Run, pos)

-----------------------------------------------------------------------------
Typed ==
    /\ now \in Nat /\ pc \in {"idle", "discover", "infer", "plan"} /\ exit \in {None, "ok", "error", "stopped"}
    /\ targets \in SUBSET Labels /\ asked \in Asked /\ all \in BOOLEAN
    /\ DOMAIN disk = Places /\ DOMAIN last = Places
    /\ pc \in {"infer", "plan"} => target \in targets \X (Modes \cup {None})
    /\ pc \in {"idle", "discover"} => target = NoTarget
    /\ queue \subseteq targets \X Modes
    /\ modes \in {<<>>, <<"cpu">>, <<"mem">>, <<"cpu", "mem">>}
    /\ pc = "idle" => queue = {} /\ modes = <<>>
    /\ ~all => queue = {} /\ modes = <<>> /\ pc # "discover"
    /\ pc # "plan" => todo = {}
    /\ \A t \in DOMAIN results : results[t] \in Outcomes

\* What is on disk is not younger than the last run of its directory, and no
\* run has entered two.
HistoryInv ==
    /\ \A k \in Places : \A f \in disk[k] :
        f.at \in 1 .. last[k].n /\ f.from \in 1 .. now /\ f.whole \in BOOLEAN
    /\ \A k \in Places :
        /\ last[k].n \in 0 .. now
        /\ \/ last[k] = NoRun
           \/ /\ IsRun(last[k]) /\ last[k].n \in 1 .. now
              /\ <<Out[last[k].label], last[k].mode>> = k /\ last[k].state \in States
    /\ \A k, k2 \in Places : last[k].n = last[k2].n /\ last[k].n > 0 => k = k2

\* What a run that succeeded has left.
Complete(fs, r) ==
    /\ Recording(r) # {}
    /\ \A f \in fs : f.from = r.n /\ f.at = r.n /\ f.whole /\ f.kind \in {"pb"} \cup Art
    /\ \A kind \in Art : NamesOf(fs, kind) = Ids(Recording(r))
DoneInv == \A k \in Places : last[k].state = "ok" => Complete(disk[k], last[k])

\* A batch has run, has at hand or has yet to run what it has discovered.
AskedModes == {ModesAsked(asked)[i] : i \in DOMAIN ModesAsked(asked)}
ModesLeft == {modes[i] : i \in DOMAIN modes}
AtHand == IF pc \in {"infer", "plan"} THEN {target} ELSE {}
ProfiledInv ==
    \A t \in DOMAIN results : results[t] = "profiled" =>
        /\ t[2] = Actual(t[1])
        /\ last[<<Out[t[1]], t[2]>>].state = "ok" \/ last[<<Out[t[1]], t[2]>>].label # t[1]
BatchInv ==
    all =>
        /\ ModesLeft \subseteq AskedModes
        /\ DOMAIN results \cup queue \cup AtHand = UNION {Discovered(m) \X {m} : m \in AskedModes \ ModesLeft}
        /\ queue \cap DOMAIN results = {} /\ AtHand \cap (queue \cup DOMAIN results) = {}
        /\ ProfiledInv
        /\ pc = "idle" /\ exit \in {"ok", "error"} =>
            (exit = "ok" <=> \A t \in DOMAIN results : results[t] # "failed")

IInv == Typed /\ PlanInv /\ HistoryInv /\ DoneInv /\ BatchInv
-----------------------------------------------------------------------------
(***************************************************************************)
(* The plans of all languages, modes and samplers in these numbers.        *)
(***************************************************************************)
StepFacts(r, p, s) ==
    /\ s.op = "capture" <=> p = RunsAt(r)
    /\ s.op = "need" =>
        \/ r.sampler = "perf" /\ p = 5 /\ s.kind = "perf"
        \/ Turns(r) /\ p = First(r) /\ s.kind = "raw"
        \/ p = Main(r) /\ s.kind = Source(r)
    /\ p \in {First(r), Main(r)} => s.op = "need"
    /\ r.sampler = "perf" /\ p = 5 => s.op = "need"
    /\ s.op = "convert" => p = First(r) + 2 /\ (Turns(r) \/ Tables(r)) /\ Names(r) = {Single}
    /\ Turns(r) /\ p = SourceAt(r) => s.op = "convert"
    /\ Makes(s) # None => p > Main(r) \/ (r.sampler = "perf" /\ p \in 6 .. 8)
    /\ \A kind \in Art :
        /\ p > Main(r) /\ p = DrawnAt(r, kind) => Makes(s) = kind
        /\ r.sampler = "perf" /\ p = SampledAt(kind) => Makes(s) = kind
    /\ Makes(s) = "table" => Tables(r)
    /\ s.op \in {"svg", "table"} => s.kind = s.op
    /\ s.op = "report" => s.kind = "top"
    /\ s.op = "drop" =>
        /\ p > RunsAt(r) /\ s.kind \notin Art \cup {"pb"}
        /\ s.kind = Source(r) => p > Main(r)
    /\ s.op = "again" <=> Loops(r) /\ p = Main(r) + 4
    /\ s.op = "unsupported" => ~Supported(r)

Ends(r, e) ==
    /\ e > Main(r) /\ \A kind \in Art : e > DrawnAt(r, kind)
    /\ r.sampler = "perf" => e > 9
    /\ IF Loops(r) THEN e > Main(r) + 4 ELSE Names(r) = {Single}
    /\ \A kind \in Kinds(r) \ (Art \cup {"pb"}) : kind \in Dropped(r, e)

PlanFacts(r) ==
    /\ Len(Plan(r)) \in Nat /\ DOMAIN Plan(r) = 1 .. Len(Plan(r))
    /\ \A p \in DOMAIN Plan(r) : StepFacts(r, p, Plan(r)[p])
    /\ \A p \in DOMAIN Plan(r) : Makes(Plan(r)[p]) = "table" => "table" \notin Dropped(r, p)
    /\ ~Supported(r) => Len(Plan(r)) = 3 /\ Plan(r)[3].op = "unsupported"
    /\ Supported(r) => Ends(r, Len(Plan(r)) + 1)
\* The lemmas about plans count steps: each step is expanded.
USE DEF Step, Tools, Build, Profiled, Need, Convert, Fold, Svg, Top, Drop, Again, None

LEMMA PlanRustCpu ==
  ASSUME NEW r, IsRun(r), r.mode = "cpu", r.sampler = "none", Language[r.label] = "rust"
  PROVE  PlanFacts(r)
<1> DEFINE L == <<Tools, Profiled, Need("pb"), Fold("pb"), Svg, Top, Again("pb")>>
<1>1. Plan(r) = L
  BY DEF Plan, Cpu
<1>2. /\ RunsAt(r) = 2 /\ First(r) = 3 /\ Main(r) = 3 /\ SourceAt(r) = 2 /\ Source(r) = "pb"
      /\ \A kind \in Art : DrawnAt(r, kind) = CASE kind = "folded" -> 4 [] kind = "svg" -> 5 [] kind = "top" -> 6
  BY DEF RunsAt, First, Main, SourceAt, Source, Turns, Speaks, DrawnAt, FoldAt, SvgAt, Art
<1>3. Loops(r) /\ ~Turns(r) /\ ~Tables(r) /\ Supported(r)
  BY DEF Loops, Turns, Tables, Supported, Speaks
<1>4. \A p \in 1 .. 7 : StepFacts(r, p, L[p])
  BY <1>2, <1>3 DEF StepFacts, Makes, Art, SampledAt, Names, Speaks
<1>5. \A p \in 1 .. 7 : Makes(L[p]) = "table" => \A q \in 1 .. p - 1 : L[q] # Drop("table")
  BY DEF Makes
<1>6. Ends(r, 8)
  BY <1>1, <1>2, <1>3 DEF Ends, Art, Kinds, Captured, Dropped, Names, Speaks
<1> QED
  BY <1>1, <1>3, <1>4, <1>5, <1>6 DEF PlanFacts, Dropped

LEMMA PlanGoCpu ==
  ASSUME NEW r, IsRun(r), r.mode = "cpu", r.sampler = "none", Language[r.label] = "go"
  PROVE  PlanFacts(r)
<1> DEFINE L == <<Tools, Profiled, Need("pb"), Fold("pb"), Svg, Top>>
<1>1. Plan(r) = L
  BY DEF Plan, Cpu
<1>2. /\ RunsAt(r) = 2 /\ First(r) = 3 /\ Main(r) = 3 /\ SourceAt(r) = 2 /\ Source(r) = "pb"
      /\ \A kind \in Art : DrawnAt(r, kind) = CASE kind = "folded" -> 4 [] kind = "svg" -> 5 [] kind = "top" -> 6
  BY DEF RunsAt, First, Main, SourceAt, Source, Turns, Speaks, DrawnAt, FoldAt, SvgAt, Art
<1>3. ~Loops(r) /\ ~Turns(r) /\ ~Tables(r) /\ Supported(r)
  BY DEF Loops, Turns, Tables, Supported, Speaks
<1>4. \A p \in 1 .. 6 : StepFacts(r, p, L[p])
  BY <1>2, <1>3 DEF StepFacts, Makes, Art, SampledAt, Names, Speaks
<1>5. \A p \in 1 .. 6 : Makes(L[p]) = "table" => \A q \in 1 .. p - 1 : L[q] # Drop("table")
  BY DEF Makes
<1>6. Ends(r, 7)
  BY <1>1, <1>2, <1>3 DEF Ends, Art, Kinds, Captured, Dropped, Names, Speaks
<1> QED
  BY <1>1, <1>3, <1>4, <1>5, <1>6 DEF PlanFacts, Dropped

LEMMA PlanCppCpu ==
  ASSUME NEW r, IsRun(r), r.mode = "cpu", r.sampler = "none", Language[r.label] = "cpp"
  PROVE  PlanFacts(r)
<1> DEFINE L == <<Tools, Profiled, Need("raw"), Build, Convert("raw"), Drop("raw"), Need("pb"), Fold("pb"),
                  Svg, Top>>
<1>1. Plan(r) = L
  BY DEF Plan, Cpu
<1>2. /\ RunsAt(r) = 2 /\ First(r) = 3 /\ Main(r) = 7 /\ SourceAt(r) = 5 /\ Source(r) = "pb"
      /\ \A kind \in Art : DrawnAt(r, kind) = CASE kind = "folded" -> 8 [] kind = "svg" -> 9 [] kind = "top" -> 10
  BY DEF RunsAt, First, Main, SourceAt, Source, Turns, Speaks, DrawnAt, FoldAt, SvgAt, Art
<1>3. ~Loops(r) /\ Turns(r) /\ ~Tables(r) /\ Supported(r)
  BY DEF Loops, Turns, Tables, Supported, Speaks
<1>4. \A p \in 1 .. 10 : StepFacts(r, p, L[p])
  BY <1>2, <1>3 DEF StepFacts, Makes, Art, SampledAt, Names, Speaks
<1>5. \A p \in 1 .. 10 : Makes(L[p]) = "table" => \A q \in 1 .. p - 1 : L[q] # Drop("table")
  BY DEF Makes
<1>6. Ends(r, 11)
  BY <1>1, <1>2, <1>3 DEF Ends, Art, Kinds, Captured, Dropped, Names, Speaks
<1> QED
  BY <1>1, <1>3, <1>4, <1>5, <1>6 DEF PlanFacts, Dropped

LEMMA PlanPythonCpu ==
  ASSUME NEW r, IsRun(r), r.mode = "cpu", r.sampler = "none", Language[r.label] = "python"
  PROVE  PlanFacts(r)
<1> DEFINE L == <<Tools, Profiled, Need("folded"), Svg, Top>>
<1>1. Plan(r) = L
  BY DEF Plan, Cpu
<1>2. /\ RunsAt(r) = 2 /\ First(r) = 3 /\ Main(r) = 3 /\ SourceAt(r) = 2 /\ Source(r) = "folded"
      /\ \A kind \in Art : DrawnAt(r, kind) = CASE kind = "folded" -> 2 [] kind = "svg" -> 4 [] kind = "top" -> 5
  BY DEF RunsAt, First, Main, SourceAt, Source, Turns, Speaks, DrawnAt, FoldAt, SvgAt, Art
<1>3. ~Loops(r) /\ ~Turns(r) /\ ~Tables(r) /\ Supported(r)
  BY DEF Loops, Turns, Tables, Supported, Speaks
<1>4. \A p \in 1 .. 5 : StepFacts(r, p, L[p])
  BY <1>2, <1>3 DEF StepFacts, Makes, Art, SampledAt, Names, Speaks
<1>5. \A p \in 1 .. 5 : Makes(L[p]) = "table" => \A q \in 1 .. p - 1 : L[q] # Drop("table")
  BY DEF Makes
<1>6. Ends(r, 6)
  BY <1>1, <1>2, <1>3 DEF Ends, Art, Kinds, Captured, Dropped, Names, Speaks
<1> QED
  BY <1>1, <1>3, <1>4, <1>5, <1>6 DEF PlanFacts, Dropped

LEMMA PlanJavaCpu ==
  ASSUME NEW r, IsRun(r), r.mode = "cpu", r.sampler = "none", Language[r.label] = "java"
  PROVE  PlanFacts(r)
<1> DEFINE L == <<Tools, Profiled, Need("jfr"), Fold("jfr"), Svg, Top, Again("jfr"), Drop("jfr")>>
<1>1. Plan(r) = L
  BY DEF Plan, Cpu
<1>2. /\ RunsAt(r) = 2 /\ First(r) = 3 /\ Main(r) = 3 /\ SourceAt(r) = 2 /\ Source(r) = "jfr"
      /\ \A kind \in Art : DrawnAt(r, kind) = CASE kind = "folded" -> 4 [] kind = "svg" -> 5 [] kind = "top" -> 6
  BY DEF RunsAt, First, Main, SourceAt, Source, Turns, Speaks, DrawnAt, FoldAt, SvgAt, Art
<1>3. Loops(r) /\ ~Turns(r) /\ ~Tables(r) /\ Supported(r)
  BY DEF Loops, Turns, Tables, Supported, Speaks
<1>4. \A p \in 1 .. 8 : StepFacts(r, p, L[p])
  BY <1>2, <1>3 DEF StepFacts, Makes, Art, SampledAt, Names, Speaks
<1>5. \A p \in 1 .. 8 : Makes(L[p]) = "table" => \A q \in 1 .. p - 1 : L[q] # Drop("table")
  BY DEF Makes
<1>6. Ends(r, 9)
  BY <1>1, <1>2, <1>3 DEF Ends, Art, Kinds, Captured, Dropped, Names, Speaks
<1> QED
  BY <1>1, <1>3, <1>4, <1>5, <1>6 DEF PlanFacts, Dropped

LEMMA PlanRustPerf ==
  ASSUME NEW r, IsRun(r), r.mode = "cpu", r.sampler = "perf", Language[r.label] = "rust"
  PROVE  PlanFacts(r)
<1> DEFINE L == <<Tools, Tools, Build, Profiled, Need("perf"), Fold("perf"), Svg, Top, Drop("perf"),
                  Need("pb"), Fold("pb"), Svg, Top, Again("pb")>>
<1>1. Plan(r) = L
  BY DEF Plan, Sampled
<1>2. /\ RunsAt(r) = 4 /\ First(r) = 10 /\ Main(r) = 10 /\ SourceAt(r) = 4 /\ Source(r) = "pb"
      /\ \A kind \in Art : DrawnAt(r, kind) = CASE kind = "folded" -> 11 [] kind = "svg" -> 12 [] kind = "top" -> 13
  BY DEF RunsAt, First, Main, SourceAt, Source, Turns, Speaks, DrawnAt, FoldAt, SvgAt, Art
<1>3. Loops(r) /\ ~Turns(r) /\ ~Tables(r) /\ Supported(r)
  BY DEF Loops, Turns, Tables, Supported, Speaks
<1>4. \A p \in 1 .. 14 : StepFacts(r, p, L[p])
  BY <1>2, <1>3 DEF StepFacts, Makes, Art, SampledAt, Names, Speaks
<1>5. \A p \in 1 .. 14 : Makes(L[p]) = "table" => \A q \in 1 .. p - 1 : L[q] # Drop("table")
  BY DEF Makes
<1>6. Ends(r, 15)
  BY <1>1, <1>2, <1>3 DEF Ends, Art, Kinds, Captured, Dropped, Names, Speaks
<1> QED
  BY <1>1, <1>3, <1>4, <1>5, <1>6 DEF PlanFacts, Dropped

LEMMA PlanGoPerf ==
  ASSUME NEW r, IsRun(r), r.mode = "cpu", r.sampler = "perf", Language[r.label] = "go"
  PROVE  PlanFacts(r)
<1> DEFINE L == <<Tools, Tools, Build, Profiled, Need("perf"), Fold("perf"), Svg, Top, Drop("perf"),
                  Need("pb"), Fold("pb"), Svg, Top>>
<1>1. Plan(r) = L
  BY DEF Plan, Sampled
<1>2. /\ RunsAt(r) = 4 /\ First(r) = 10 /\ Main(r) = 10 /\ SourceAt(r) = 4 /\ Source(r) = "pb"
      /\ \A kind \in Art : DrawnAt(r, kind) = CASE kind = "folded" -> 11 [] kind = "svg" -> 12 [] kind = "top" -> 13
  BY DEF RunsAt, First, Main, SourceAt, Source, Turns, Speaks, DrawnAt, FoldAt, SvgAt, Art
<1>3. ~Loops(r) /\ ~Turns(r) /\ ~Tables(r) /\ Supported(r)
  BY DEF Loops, Turns, Tables, Supported, Speaks
<1>4. \A p \in 1 .. 13 : StepFacts(r, p, L[p])
  BY <1>2, <1>3 DEF StepFacts, Makes, Art, SampledAt, Names, Speaks
<1>5. \A p \in 1 .. 13 : Makes(L[p]) = "table" => \A q \in 1 .. p - 1 : L[q] # Drop("table")
  BY DEF Makes
<1>6. Ends(r, 14)
  BY <1>1, <1>2, <1>3 DEF Ends, Art, Kinds, Captured, Dropped, Names, Speaks
<1> QED
  BY <1>1, <1>3, <1>4, <1>5, <1>6 DEF PlanFacts, Dropped

LEMMA PlanCppPerf ==
  ASSUME NEW r, IsRun(r), r.mode = "cpu", r.sampler = "perf", Language[r.label] = "cpp"
  PROVE  PlanFacts(r)
<1> DEFINE L == <<Tools, Tools, Build, Profiled, Need("perf"), Fold("perf"), Svg, Top, Drop("perf"),
                  Need("raw"), Build, Convert("raw"), Drop("raw"), Need("pb"), Fold("pb"), Svg, Top>>
<1>1. Plan(r) = L
  BY DEF Plan, Sampled
<1>2. /\ RunsAt(r) = 4 /\ First(r) = 10 /\ Main(r) = 14 /\ SourceAt(r) = 12 /\ Source(r) = "pb"
      /\ \A kind \in Art : DrawnAt(r, kind) = CASE kind = "folded" -> 15 [] kind = "svg" -> 16 [] kind = "top" -> 17
  BY DEF RunsAt, First, Main, SourceAt, Source, Turns, Speaks, DrawnAt, FoldAt, SvgAt, Art
<1>3. ~Loops(r) /\ Turns(r) /\ ~Tables(r) /\ Supported(r)
  BY DEF Loops, Turns, Tables, Supported, Speaks
<1>4. \A p \in 1 .. 17 : StepFacts(r, p, L[p])
  BY <1>2, <1>3 DEF StepFacts, Makes, Art, SampledAt, Names, Speaks
<1>5. \A p \in 1 .. 17 : Makes(L[p]) = "table" => \A q \in 1 .. p - 1 : L[q] # Drop("table")
  BY DEF Makes
<1>6. Ends(r, 18)
  BY <1>1, <1>2, <1>3 DEF Ends, Art, Kinds, Captured, Dropped, Names, Speaks
<1> QED
  BY <1>1, <1>3, <1>4, <1>5, <1>6 DEF PlanFacts, Dropped

LEMMA PlanPythonPerf ==
  ASSUME NEW r, IsRun(r), r.mode = "cpu", r.sampler = "perf", Language[r.label] = "python"
  PROVE  PlanFacts(r)
<1> DEFINE L == <<Tools, Tools, Step("unsupported", None)>>
<1>1. Plan(r) = L
  BY DEF Plan, Sampled
<1>2. /\ RunsAt(r) = 4 /\ First(r) = 10 /\ Main(r) = 10 /\ SourceAt(r) = 4 /\ Source(r) = "folded"
      /\ \A kind \in Art : DrawnAt(r, kind) = CASE kind = "folded" -> 4 [] kind = "svg" -> 11 [] kind = "top" -> 12
  BY DEF RunsAt, First, Main, SourceAt, Source, Turns, Speaks, DrawnAt, FoldAt, SvgAt, Art
<1>3. ~Loops(r) /\ ~Turns(r) /\ ~Tables(r) /\ ~Supported(r)
  BY DEF Loops, Turns, Tables, Supported, Speaks
<1>4. \A p \in 1 .. 3 : StepFacts(r, p, L[p])
  BY <1>2, <1>3 DEF StepFacts, Makes, Art, SampledAt, Names, Speaks
<1> QED
  BY <1>1, <1>3, <1>4 DEF PlanFacts, Makes

LEMMA PlanJavaPerf ==
  ASSUME NEW r, IsRun(r), r.mode = "cpu", r.sampler = "perf", Language[r.label] = "java"
  PROVE  PlanFacts(r)
<1> DEFINE L == <<Tools, Tools, Step("unsupported", None)>>
<1>1. Plan(r) = L
  BY DEF Plan, Sampled
<1>2. /\ RunsAt(r) = 4 /\ First(r) = 10 /\ Main(r) = 10 /\ SourceAt(r) = 4 /\ Source(r) = "jfr"
      /\ \A kind \in Art : DrawnAt(r, kind) = CASE kind = "folded" -> 11 [] kind = "svg" -> 12 [] kind = "top" -> 13
  BY DEF RunsAt, First, Main, SourceAt, Source, Turns, Speaks, DrawnAt, FoldAt, SvgAt, Art
<1>3. Loops(r) /\ ~Turns(r) /\ ~Tables(r) /\ ~Supported(r)
  BY DEF Loops, Turns, Tables, Supported, Speaks
<1>4. \A p \in 1 .. 3 : StepFacts(r, p, L[p])
  BY <1>2, <1>3 DEF StepFacts, Makes, Art, SampledAt, Names, Speaks
<1> QED
  BY <1>1, <1>3, <1>4 DEF PlanFacts, Makes

LEMMA PlanRustCppMem ==
  ASSUME NEW r, IsRun(r), r.mode = "mem", r.sampler = "none", Language[r.label] \in {"rust", "cpp"}
  PROVE  PlanFacts(r)
<1> DEFINE L == <<Tools, Profiled, Need("heap"), Build, Convert("heap"), Drop("heap"), Drop("meta"),
                  Fold("pb"), Step("table", "table"), Svg, Top, Drop("table")>>
<1>1. Plan(r) = L
  BY DEF Plan, Mem
<1>2. /\ RunsAt(r) = 2 /\ First(r) = 3 /\ Main(r) = 3 /\ SourceAt(r) = 2 /\ Source(r) = "heap"
      /\ \A kind \in Art : DrawnAt(r, kind) = CASE kind = "folded" -> 8 [] kind = "svg" -> 10 [] kind = "top" -> 11
  BY DEF RunsAt, First, Main, SourceAt, Source, Turns, Speaks, DrawnAt, FoldAt, SvgAt, Art
<1>3. ~Loops(r) /\ ~Turns(r) /\ Tables(r) /\ Supported(r)
  BY DEF Loops, Turns, Tables, Supported, Speaks
<1>4. \A p \in 1 .. 12 : StepFacts(r, p, L[p])
  BY <1>2, <1>3 DEF StepFacts, Makes, Art, SampledAt, Names, Speaks
<1>5. \A p \in 1 .. 12 : Makes(L[p]) = "table" => \A q \in 1 .. p - 1 : L[q] # Drop("table")
  BY DEF Makes
<1>6. Ends(r, 13)
  BY <1>1, <1>2, <1>3 DEF Ends, Art, Kinds, Captured, Dropped, Names, Speaks
<1> QED
  BY <1>1, <1>3, <1>4, <1>5, <1>6 DEF PlanFacts, Dropped

LEMMA PlanJavaMem ==
  ASSUME NEW r, IsRun(r), r.mode = "mem", r.sampler = "none", Language[r.label] = "java"
  PROVE  PlanFacts(r)
<1> DEFINE L == <<Tools, Profiled, Need("jfr"), Fold("jfr"), Drop("jfr"), Drop("meta"), Svg, Top>>
<1>1. Plan(r) = L
  BY DEF Plan, Mem
<1>2. /\ RunsAt(r) = 2 /\ First(r) = 3 /\ Main(r) = 3 /\ SourceAt(r) = 2 /\ Source(r) = "jfr"
      /\ \A kind \in Art : DrawnAt(r, kind) = CASE kind = "folded" -> 4 [] kind = "svg" -> 7 [] kind = "top" -> 8
  BY DEF RunsAt, First, Main, SourceAt, Source, Turns, Speaks, DrawnAt, FoldAt, SvgAt, Art
<1>3. ~Loops(r) /\ ~Turns(r) /\ ~Tables(r) /\ Supported(r)
  BY DEF Loops, Turns, Tables, Supported, Speaks
<1>4. \A p \in 1 .. 8 : StepFacts(r, p, L[p])
  BY <1>2, <1>3 DEF StepFacts, Makes, Art, SampledAt, Names, Speaks
<1>5. \A p \in 1 .. 8 : Makes(L[p]) = "table" => \A q \in 1 .. p - 1 : L[q] # Drop("table")
  BY DEF Makes
<1>6. Ends(r, 9)
  BY <1>1, <1>2, <1>3 DEF Ends, Art, Kinds, Captured, Dropped, Names, Speaks
<1> QED
  BY <1>1, <1>3, <1>4, <1>5, <1>6 DEF PlanFacts, Dropped

LEMMA PlanPythonMem ==
  ASSUME NEW r, IsRun(r), r.mode = "mem", r.sampler = "none", Language[r.label] = "python"
  PROVE  PlanFacts(r)
<1> DEFINE L == <<Tools, Profiled, Need("folded"), Drop("bucket"), Drop("meta"), Svg, Top>>
<1>1. Plan(r) = L
  BY DEF Plan, Mem
<1>2. /\ RunsAt(r) = 2 /\ First(r) = 3 /\ Main(r) = 3 /\ SourceAt(r) = 2 /\ Source(r) = "folded"
      /\ \A kind \in Art : DrawnAt(r, kind) = CASE kind = "folded" -> 2 [] kind = "svg" -> 6 [] kind = "top" -> 7
  BY DEF RunsAt, First, Main, SourceAt, Source, Turns, Speaks, DrawnAt, FoldAt, SvgAt, Art
<1>3. ~Loops(r) /\ ~Turns(r) /\ ~Tables(r) /\ Supported(r)
  BY DEF Loops, Turns, Tables, Supported, Speaks
<1>4. \A p \in 1 .. 7 : StepFacts(r, p, L[p])
  BY <1>2, <1>3 DEF StepFacts, Makes, Art, SampledAt, Names, Speaks
<1>5. \A p \in 1 .. 7 : Makes(L[p]) = "table" => \A q \in 1 .. p - 1 : L[q] # Drop("table")
  BY DEF Makes
<1>6. Ends(r, 8)
  BY <1>1, <1>2, <1>3 DEF Ends, Art, Kinds, Captured, Dropped, Names, Speaks
<1> QED
  BY <1>1, <1>3, <1>4, <1>5, <1>6 DEF PlanFacts, Dropped

LEMMA PlanGoMem ==
  ASSUME NEW r, IsRun(r), r.mode = "mem", r.sampler = "none", Language[r.label] = "go"
  PROVE  PlanFacts(r)
<1> DEFINE L == <<Tools, Profiled, Need("pb"), Drop("meta"), Fold("pb"), Step("table", "table"), Svg, Top,
                  Drop("table")>>
<1>1. Plan(r) = L
  BY DEF Plan, Mem
<1>2. /\ RunsAt(r) = 2 /\ First(r) = 3 /\ Main(r) = 3 /\ SourceAt(r) = 2 /\ Source(r) = "pb"
      /\ \A kind \in Art : DrawnAt(r, kind) = CASE kind = "folded" -> 5 [] kind = "svg" -> 7 [] kind = "top" -> 8
  BY DEF RunsAt, First, Main, SourceAt, Source, Turns, Speaks, DrawnAt, FoldAt, SvgAt, Art
<1>3. ~Loops(r) /\ ~Turns(r) /\ Tables(r) /\ Supported(r)
  BY DEF Loops, Turns, Tables, Supported, Speaks
<1>4. \A p \in 1 .. 9 : StepFacts(r, p, L[p])
  BY <1>2, <1>3 DEF StepFacts, Makes, Art, SampledAt, Names, Speaks
<1>5. \A p \in 1 .. 9 : Makes(L[p]) = "table" => \A q \in 1 .. p - 1 : L[q] # Drop("table")
  BY DEF Makes
<1>6. Ends(r, 10)
  BY <1>1, <1>2, <1>3 DEF Ends, Art, Kinds, Captured, Dropped, Names, Speaks
<1> QED
  BY <1>1, <1>3, <1>4, <1>5, <1>6 DEF PlanFacts, Dropped

HIDE DEF Step, Tools, Build, Profiled, Need, Convert, Fold, Svg, Top, Drop, Again, None

LEMMA PlanShape ==
  ASSUME NEW r, IsRun(r)
  PROVE  PlanFacts(r)
<1>1. Language[r.label] \in Languages
  BY LabelAssumption DEF IsRun
<1> QED
  BY <1>1, PlanRustCpu, PlanGoCpu, PlanCppCpu, PlanPythonCpu, PlanJavaCpu,
     PlanRustPerf, PlanGoPerf, PlanCppPerf, PlanPythonPerf, PlanJavaPerf,
     PlanRustCppMem, PlanJavaMem, PlanPythonMem, PlanGoMem
     DEF IsRun, Modes, Samplers, Languages

-----------------------------------------------------------------------------
(***************************************************************************)
(* One step of a plan.                                                     *)
(***************************************************************************)
LEMMA PlanNumbers ==
  ASSUME NEW r, IsRun(r)
  PROVE  /\ RunsAt(r) \in 2 .. 4 /\ First(r) \in Nat /\ Main(r) \in Nat /\ SourceAt(r) \in Nat
         /\ RunsAt(r) < First(r) /\ First(r) <= Main(r) /\ RunsAt(r) <= SourceAt(r) /\ SourceAt(r) < Main(r)
         /\ r.sampler = "perf" => RunsAt(r) = 4 /\ First(r) = 10
         /\ IF Turns(r) THEN SourceAt(r) = First(r) + 2 /\ Main(r) = First(r) + 4 /\ Source(r) = "pb"
                        ELSE SourceAt(r) = RunsAt(r) /\ Main(r) = First(r) /\ Source(r) \in Captured(r)
         /\ Source(r) \in Kinds(r) /\ Source(r) \in {"folded", "jfr", "pb", "heap"}
         /\ Source(r) = "folded" => r.sampler = "none" \/ ~Supported(r)
         /\ \A kind \in Art : DrawnAt(r, kind) \in Nat /\ SampledAt(kind) \in 6 .. 8
         /\ Loops(r) => \A kind \in Art : DrawnAt(r, kind) > Main(r)
         /\ \A kind \in Art : DrawnAt(r, kind) > Main(r) \/ (kind = "folded" /\ Source(r) = "folded")
<1>1. Language[r.label] \in Languages /\ r.mode \in Modes /\ r.sampler \in Samplers
  BY LabelAssumption DEF IsRun
<1>2. /\ RunsAt(r) \in 2 .. 4 /\ First(r) \in Nat /\ Main(r) \in Nat /\ SourceAt(r) \in Nat
      /\ RunsAt(r) < First(r) /\ First(r) <= Main(r) /\ RunsAt(r) <= SourceAt(r) /\ SourceAt(r) < Main(r)
      /\ r.sampler = "perf" => RunsAt(r) = 4 /\ First(r) = 10
  BY DEF RunsAt, First, Main, SourceAt
<1>3. IF Turns(r) THEN SourceAt(r) = First(r) + 2 /\ Main(r) = First(r) + 4 /\ Source(r) = "pb"
                  ELSE SourceAt(r) = RunsAt(r) /\ Main(r) = First(r) /\ Source(r) \in Captured(r)
  BY <1>1 DEF SourceAt, Main, Source, Turns, Captured, Speaks, Modes, Samplers, Languages
<1>4. Source(r) \in {"folded", "jfr", "pb", "heap"} /\ Source(r) \in Kinds(r)
  BY <1>1, <1>3 DEF Source, Kinds, Speaks, Languages
<1>5. Source(r) = "folded" => r.sampler = "none" \/ ~Supported(r)
  BY <1>1 DEF Source, Supported, Speaks, Samplers, Languages
<1>6. \A kind \in Art : DrawnAt(r, kind) \in Nat /\ SampledAt(kind) \in 6 .. 8
  BY <1>1, <1>2 DEF DrawnAt, FoldAt, SvgAt, SampledAt, Art, Speaks, Languages
<1>7. Loops(r) => \A kind \in Art : DrawnAt(r, kind) > Main(r)
  BY <1>2 DEF DrawnAt, FoldAt, SvgAt, Art, Loops, Speaks
<1>8. \A kind \in Art : DrawnAt(r, kind) > Main(r) \/ (kind = "folded" /\ Source(r) = "folded")
  BY <1>1 DEF DrawnAt, FoldAt, SvgAt, Art, Source, Main, First, Turns, Speaks, Languages, Modes, IsRun
<1> QED
  BY <1>2, <1>3, <1>4, <1>5, <1>6, <1>7, <1>8

\* A place of the plan that holds a step.
Stands(r, p) == IsRun(r) /\ p \in DOMAIN Plan(r)
OpAt(r, p) == Plan(r)[p].op

LEMMA StepShape ==
  ASSUME NEW r, NEW p, Stands(r, p)
  PROVE  StepFacts(r, p, Plan(r)[p]) /\ p \in Nat /\ p > 0 /\ p <= Len(Plan(r)) /\ Len(Plan(r)) \in Nat
BY PlanShape DEF Stands, PlanFacts

LEMMA DroppedNext ==
  ASSUME NEW r, NEW p, Stands(r, p), NEW kind, kind \notin Dropped(r, p), Plan(r)[p] # Drop(kind)
  PROVE  kind \notin Dropped(r, p + 1)
BY StepShape DEF Dropped

LEMMA RunNext ==
  ASSUME NEW r, NEW p, Stands(r, p), RunInv(r, p), OpAt(r, p) # "unsupported"
  PROVE  RunInv(r, p + 1)
<1>1. ~Supported(r) => p # 3
  BY PlanShape DEF PlanFacts, OpAt, RunInv
<1> QED
  BY <1>1, StepShape DEF RunInv

LEMMA CurNext ==
  ASSUME NEW r, NEW p, NEW c, Stands(r, p), CurInv(c, r, p), OpAt(r, p) # "need"
  PROVE  CurInv(c, r, p + 1)
<1>1. IsRun(r)
  BY DEF Stands
<1>2. p # First(r) /\ (r.sampler = "perf" => p # 5)
  BY StepShape DEF OpAt, StepFacts
<1> QED
  BY <1>1, <1>2, StepShape, PlanNumbers DEF CurInv

LEMMA TodoNext ==
  ASSUME NEW r, NEW p, NEW td, Stands(r, p), TodoInv(td, r, p), OpAt(r, p) \notin {"need", "again"}
  PROVE  TodoInv(td, r, p + 1)
<1>1. IsRun(r)
  BY DEF Stands
<1>2. p # Main(r) /\ (Loops(r) => p # Main(r) + 4)
  BY StepShape DEF OpAt, StepFacts
<1> QED
  BY <1>1, <1>2, StepShape, PlanNumbers DEF TodoInv

\* A step that draws nothing may pass when the names of artifacts stay.
LEMMA DrawNext ==
  ASSUME NEW r, NEW p, NEW td, NEW c, NEW fs, NEW fs2, Stands(r, p), DrawInv(fs, td, c, r, p),
         OpAt(r, p) # "need", Makes(Plan(r)[p]) \notin Art,
         \A kind \in Art : NamesOf(fs, kind) \subseteq NamesOf(fs2, kind)
  PROVE  DrawInv(fs2, td, c, r, p + 1)
<1>1. IsRun(r)
  BY DEF Stands
<1>2. p # Main(r)
  BY StepShape DEF OpAt, StepFacts
<1> SUFFICES ASSUME NEW kind \in Art
             PROVE  /\ r.sampler = "perf" /\ p + 1 > SampledAt(kind) => Id[Perf] \in NamesOf(fs2, kind)
                    /\ p + 1 > Main(r) => \A b \in r.names :
                        \/ Id[b] \in NamesOf(fs2, kind)
                        \/ \E f \in td : Stem(f) = Id[b] /\ (Stem(f) = Stem(c) => p + 1 <= DrawnAt(r, kind))
  BY DEF DrawInv
<1>3. (r.sampler = "perf" => p # SampledAt(kind)) /\ (p > Main(r) => p # DrawnAt(r, kind))
  BY StepShape DEF StepFacts
<1>4. p \in Nat /\ Main(r) \in Nat /\ DrawnAt(r, kind) \in Nat /\ SampledAt(kind) \in Nat
  BY <1>1, StepShape, PlanNumbers
<1> QED
  BY <1>2, <1>3, <1>4 DEF DrawInv

\* Neither does what is on disk change, nor what should be.
LEMMA FilesNext ==
  ASSUME NEW r, NEW p, NEW fs, Stands(r, p), FilesInv(fs, r, p),
         OpAt(r, p) \notin {"capture", "convert", "drop"}
  PROVE  FilesInv(fs, r, p + 1)
<1>1. IsRun(r)
  BY DEF Stands
<1>2. p # RunsAt(r) /\ p # SourceAt(r)
  BY <1>1, StepShape, PlanNumbers DEF OpAt, StepFacts
<1>3. \A kind : Plan(r)[p] # Drop(kind)
  BY DEF OpAt, Drop, Step
<1>4. \A f \in fs : Owned(f, r) /\ f.kind \notin Dropped(r, p)
  BY DEF FilesInv
<1>5. \A f \in fs : f.kind \notin Dropped(r, p + 1)
  BY <1>3, <1>4, DroppedNext
<1>6. /\ p \in Nat /\ RunsAt(r) \in Nat /\ SourceAt(r) \in Nat /\ Main(r) \in Nat
  BY <1>1, StepShape, PlanNumbers
<1> QED
  BY <1>2, <1>4, <1>5, <1>6 DEF FilesInv

\* Nothing happens to files or recordings.
LEMMA Idles ==
  ASSUME NEW r, NEW p, NEW fs, NEW td, NEW c, Stands(r, p), Progress(fs, td, c, r, p),
         OpAt(r, p) \in {"tools", "build"}
  PROVE  Progress(fs, td, c, r, p + 1)
<1>1. Makes(Plan(r)[p]) \notin Art
  BY DEF OpAt, Makes, Art, None
<1>2. RunInv(r, p + 1) /\ FilesInv(fs, r, p + 1) /\ CurInv(c, r, p + 1) /\ TodoInv(td, r, p + 1)
  BY RunNext, FilesNext, CurNext, TodoNext DEF Progress
<1>3. DrawInv(fs, td, c, r, p + 1)
  BY <1>1, DrawNext DEF Progress, OpAt
<1> QED
  BY <1>2, <1>3 DEF Progress

\* The files a run that has recorded these benchmarks finds.
RecordedBy(fs, r, names) ==
    /\ \A f \in fs : /\ f.from = r.n /\ f.at = r.n /\ f.whole /\ f.kind \in Captured(r)
                     /\ f.kind = "folded" => f.name \in Ids(names)
                     /\ f.kind \in {"pb", "raw", "heap", "jfr"} => f.name \in names
                     /\ f.kind = "perf" => f.name = Perf
    /\ \A kind \in Captured(r), b \in names :
        kind \in {"folded", "pb", "raw", "heap", "jfr"} => \E f \in Having(fs, kind) : Stem(f) = Id[b]

LEMMA CapturedKinds ==
  ASSUME NEW r, IsRun(r)
  PROVE  Captured(r) \subseteq {"perf", "pb", "raw", "folded", "jfr", "heap", "meta", "bucket"}
<1>1. Language[r.label] \in Languages /\ r.mode \in Modes
  BY LabelAssumption DEF IsRun
<1> QED
  BY <1>1 DEF Captured, Languages, Modes

LEMMA SameCaptured ==
  ASSUME NEW r, NEW r2, r2.label = r.label, r2.mode = r.mode, r2.sampler = r.sampler
  PROVE  Captured(r2) = Captured(r) /\ Names(r2) = Names(r)
BY DEF Captured, Names

LEMMA Captures ==
  ASSUME NEW r, NEW p, NEW fs, NEW td, NEW c, Stands(r, p), Progress(fs, td, c, r, p), OpAt(r, p) = "capture",
         NEW names \in SUBSET Names(r), NEW fs2, RecordedBy(fs2, r, names),
         NEW r2, r2 = [r EXCEPT !.names = names], r2.names = names,
         \A field \in {"n", "label", "mode", "sampler", "state"} : r2[field] = r[field]
  PROVE  Progress(fs2, td, c, r2, p + 1)
<1>1. r2.n = r.n /\ r2.label = r.label /\ r2.mode = r.mode /\ r2.sampler = r.sampler /\ r2.state = r.state
  OBVIOUS
<1>0. Language[r.label] \in Languages /\ r.mode \in Modes
  BY LabelAssumption DEF Stands, IsRun
<1>2. /\ IsRun(r2) <=> IsRun(r)
      /\ Supported(r2) <=> Supported(r)
      /\ Loops(r2) <=> Loops(r)
      /\ Turns(r2) <=> Turns(r)
      /\ Tables(r2) <=> Tables(r)
      /\ Plan(r2) = Plan(r) /\ Names(r2) = Names(r) /\ Captured(r2) = Captured(r)
      /\ RunsAt(r2) = RunsAt(r) /\ First(r2) = First(r) /\ Source(r2) = Source(r)
  <2>1. IsRun(r2) <=> IsRun(r)
    BY <1>1 DEF IsRun
  <2>2. /\ Supported(r2) <=> Supported(r)
        /\ Loops(r2) <=> Loops(r)
        /\ Turns(r2) <=> Turns(r)
        /\ Tables(r2) <=> Tables(r)
    BY <1>1 DEF Supported, Loops, Turns, Tables, Speaks
  <2>3. Plan(r2) = Plan(r)
    BY <1>1 DEF Plan
  <2>4. Names(r2) = Names(r) /\ Captured(r2) = Captured(r)
    BY <1>1, SameCaptured
  <2>5. RunsAt(r2) = RunsAt(r) /\ First(r2) = First(r) /\ Source(r2) = Source(r)
    BY <1>1 DEF RunsAt, First, Source, Speaks
  <2> QED
    BY <2>1, <2>2, <2>3, <2>4, <2>5
<1>3. /\ Main(r2) = Main(r) /\ SourceAt(r2) = SourceAt(r) /\ Kinds(r2) = Kinds(r)
      /\ \A q : Dropped(r2, q) = Dropped(r, q)
      /\ \A kind \in Art : DrawnAt(r2, kind) = DrawnAt(r, kind)
  <2>1. Main(r2) = Main(r) /\ SourceAt(r2) = SourceAt(r) /\ Kinds(r2) = Kinds(r)
    BY <1>2 DEF Main, SourceAt, Kinds
  <2>2. \A q : Dropped(r2, q) = Dropped(r, q)
    BY <1>2, <2>1 DEF Dropped
  <2>3. \A kind \in Art : DrawnAt(r2, kind) = DrawnAt(r, kind)
    BY <1>0, <1>1, <1>2, <2>1 DEF DrawnAt, FoldAt, SvgAt, Speaks, Art, Languages
  <2> QED
    BY <2>1, <2>2, <2>3
<1>4. IsRun(r) /\ p = RunsAt(r) /\ p \in Nat
  BY StepShape DEF Stands, OpAt, StepFacts
<1>5. RunInv(r2, p + 1)
  <2>1. RunInv(r, p + 1)
    BY RunNext DEF Progress, OpAt
  <2> QED
    BY <2>1, <1>1, <1>2 DEF RunInv
<1>6. Dropped(r2, p + 1) = {}
  <2>1. \A q \in 1 .. p : q \in DOMAIN Plan(r) => \A kind : Plan(r)[q] # Drop(kind)
    BY <1>4, PlanShape DEF PlanFacts, StepFacts, Drop, Step
  <2> QED
    BY <2>1, <1>3, <1>4 DEF Dropped
<1>7. FilesInv(fs2, r2, p + 1)
  <2>1. \A f \in fs2 : Owned(f, r2)
    BY <1>1, <1>2, <1>4, CapturedKinds DEF RecordedBy, Owned, Kinds, Recording, Ids, Art
  <2>2. p + 1 \in SourceAt(r) + 1 .. Main(r) => \A b \in names : \E f \in Having(fs2, Source(r)) : Stem(f) = Id[b]
    <3>1. CASE Turns(r)
      BY <3>1, <1>4, PlanNumbers
    <3>2. CASE ~Turns(r)
      BY <3>2, <1>4, PlanNumbers DEF RecordedBy
    <3> QED
      BY <3>1, <3>2
  <2> QED
    BY <2>1, <2>2, <1>2, <1>3, <1>4, <1>6, PlanNumbers DEF FilesInv
<1>8. CurInv(c, r2, p + 1) /\ TodoInv(td, r2, p + 1) /\ DrawInv(fs2, td, c, r2, p + 1)
  BY <1>1, <1>2, <1>3, <1>4, PlanNumbers DEF CurInv, TodoInv, DrawInv
<1> QED
  BY <1>5, <1>7, <1>8 DEF Progress

\* The recordings that a step collects are those of one kind.
LEMMA Collects ==
  ASSUME NEW r, NEW p, NEW fs, NEW td, NEW c, Stands(r, p), Progress(fs, td, c, r, p), OpAt(r, p) = "need",
         NEW td2, td2 = Having(fs, Plan(r)[p].kind), NEW c2 \in td2
  PROVE  Progress(fs, td2, c2, r, p + 1)
<1> DEFINE kind == Plan(r)[p].kind
<1>1. IsRun(r) /\ p \in Nat
  BY StepShape DEF Stands
<1>2. \/ r.sampler = "perf" /\ p = 5 /\ kind = "perf"
      \/ Turns(r) /\ p = First(r) /\ kind = "raw"
      \/ p = Main(r) /\ kind = Source(r)
  BY StepShape DEF OpAt, StepFacts
<1>3. p > RunsAt(r)
  BY <1>1, <1>2, PlanNumbers
<1>4. \A f \in td2 : Owned(f, r) /\ f.kind = kind
  BY DEF Progress, FilesInv, Having
<1>5. RunInv(r, p + 1) /\ FilesInv(fs, r, p + 1)
  BY RunNext, FilesNext DEF Progress, OpAt
<1>6. p >= First(r) => \A f \in td2 : r.names # {} /\ Stem(f) \in Ids(r.names)
  <2>1. p >= First(r) => kind \in {"folded", "jfr", "pb", "heap", "raw"} /\ (kind = "folded" => r.sampler = "none")
    <3>1. Supported(r) \/ p <= 3
      BY DEF Progress, RunInv
    <3>2. ~Supported(r) => r.sampler = "perf"
      BY <1>1 DEF Supported, IsRun, Samplers
    <3> QED
      BY <1>1, <1>2, <3>1, <3>2, PlanNumbers
  <2>2. r.sampler = "none" => Recording(r) = r.names
    BY DEF Recording
  <2>3. ASSUME p >= First(r), NEW f \in td2, kind = "folded"
        PROVE  r.names # {} /\ Stem(f) \in Ids(r.names)
    BY <2>1, <2>2, <2>3, <1>4 DEF Owned, Stem, Ids, Art
  <2>4. ASSUME p >= First(r), NEW f \in td2, kind # "folded"
        PROVE  r.names # {} /\ Stem(f) \in Ids(r.names)
    BY <2>1, <2>4, <1>4 DEF Owned, Stem, Ids
  <2> QED
    BY <2>3, <2>4
<1>7. CurInv(c2, r, p + 1)
  <2>1. CASE p < First(r)
    BY <2>1, <1>1, <1>2, <1>4, PlanNumbers DEF CurInv, Owned, Stem
  <2>2. CASE p >= First(r)
    BY <2>2, <1>1, <1>2, <1>4, <1>6, PlanNumbers DEF CurInv, Owned
  <2> QED
    BY <2>1, <2>2, <1>1, PlanNumbers
<1>8. TodoInv(td2, r, p + 1)
  BY <1>1, <1>2, <1>4, <1>6, PlanNumbers DEF TodoInv, Owned
<1>9. DrawInv(fs, td2, c2, r, p + 1)
  <2> SUFFICES ASSUME NEW k \in Art
               PROVE  /\ r.sampler = "perf" /\ p + 1 > SampledAt(k) => Id[Perf] \in NamesOf(fs, k)
                      /\ p + 1 > Main(r) => \A b \in r.names :
                          \/ Id[b] \in NamesOf(fs, k)
                          \/ \E f \in td2 : Stem(f) = Id[b] /\ (Stem(f) = Stem(c2) => p + 1 <= DrawnAt(r, k))
    BY DEF DrawInv
  <2>1. r.sampler = "perf" /\ p + 1 > SampledAt(k) => Id[Perf] \in NamesOf(fs, k)
    BY <1>1, <1>2, PlanNumbers DEF Progress, DrawInv
  <2>2. ASSUME p + 1 > Main(r), NEW b \in r.names
        PROVE  \/ Id[b] \in NamesOf(fs, k)
               \/ \E f \in td2 : Stem(f) = Id[b] /\ (Stem(f) = Stem(c2) => p + 1 <= DrawnAt(r, k))
    <3>1. p = Main(r) /\ kind = Source(r)
      BY <2>2, <1>1, <1>2, PlanNumbers
    <3>2. PICK f \in Having(fs, Source(r)) : Stem(f) = Id[b]
      BY <3>1, <1>1, PlanNumbers DEF Progress, FilesInv
    <3>3. CASE DrawnAt(r, k) > Main(r)
      BY <3>1, <3>2, <3>3, <1>1, PlanNumbers
    <3>4. CASE k = "folded" /\ Source(r) = "folded"
      BY <3>2, <3>4 DEF NamesOf, Having, Stem
    <3> QED
      BY <3>3, <3>4, <1>1, PlanNumbers
  <2> QED
    BY <2>1, <2>2
<1> QED
  BY <1>5, <1>7, <1>8, <1>9 DEF Progress

\* New files replace those of their kind and name.
Put(fs, new) == {g \in fs : \A f \in new : ~SameFile(f, g)} \cup new

LEMMA PutKeeps ==
  ASSUME NEW fs, NEW new
  PROVE  /\ \A f \in Put(fs, new) : f \in fs \/ f \in new
         /\ new \subseteq Put(fs, new)
         /\ \A kind : NamesOf(fs, kind) \subseteq NamesOf(Put(fs, new), kind)
         /\ \A kind : \A g \in Having(fs, kind) : \E h \in Having(Put(fs, new), kind) : Stem(h) = Stem(g)
<1>1. \A g \in fs : \E h \in Put(fs, new) : h.kind = g.kind /\ h.name = g.name
  BY DEF Put, SameFile
<1> QED
  BY <1>1 DEF Put, NamesOf, Having, Stem

\* A drawing of the recording at hand, under its name.
LEMMA Draws ==
  ASSUME NEW r, NEW p, NEW fs, NEW td, NEW c, Stands(r, p), Progress(fs, td, c, r, p),
         NEW kind, kind = Makes(Plan(r)[p]), kind # None,
         NEW f, f.kind = kind, f.name = Stem(c), f.from = c.from, f.at = r.n, f.whole
  PROVE  Progress(Put(fs, {f}), td, c, r, p + 1)
<1> DEFINE fs2 == Put(fs, {f})
<1>1. IsRun(r) /\ p \in Nat /\ OpAt(r, p) \in Drawing /\ kind \in Art \cup {"table"}
  BY StepShape DEF Stands, OpAt, Makes, Drawing, Art
<1>2. p > Main(r) \/ (r.sampler = "perf" /\ p \in 6 .. 8)
  BY StepShape DEF StepFacts
<1>3. f \in fs2 /\ \A k : NamesOf(fs, k) \subseteq NamesOf(fs2, k)
  BY PutKeeps
<1>4. Stem(c) \in NamesOf(fs2, kind)
  BY <1>3 DEF NamesOf, Having
<1>5. c.from = r.n
  BY <1>1, <1>2, PlanNumbers DEF Progress, CurInv
<1>6. RunInv(r, p + 1) /\ CurInv(c, r, p + 1) /\ TodoInv(td, r, p + 1)
  BY <1>1, RunNext, CurNext, TodoNext DEF Progress, Drawing
<1>7. Stem(c) \in Ids(Recording(r))
  BY <1>1, <1>2, PlanNumbers DEF Progress, CurInv, Recording, Ids
<1>8. Owned(f, r)
  <2>1. kind \in Kinds(r)
    BY <1>1, StepShape DEF StepFacts, Kinds
  <2> QED
    BY <2>1, <1>1, <1>5, <1>7 DEF Owned, Art
<1>9. FilesInv(fs2, r, p + 1)
  <2>1. p # SourceAt(r) /\ p > RunsAt(r) /\ \A k : Plan(r)[p] # Drop(k)
    BY <1>1, <1>2, StepShape, PlanNumbers DEF OpAt, StepFacts, Drawing, Drop, Step
  <2>2. kind \notin Dropped(r, p)
    <3>1. CASE kind = "table"
      BY <3>1, PlanShape DEF PlanFacts, Stands
    <3>2. CASE kind \in Art
      <4>1. \A q \in DOMAIN Plan(r) : Plan(r)[q] # Drop(kind)
        BY <3>2, <1>1, PlanShape DEF PlanFacts, StepFacts, Drop, Step
      <4> QED
        BY <4>1 DEF Dropped
    <3> QED
      BY <3>1, <3>2, <1>1
  <2>3. \A g \in fs2 : Owned(g, r) /\ g.kind \notin Dropped(r, p)
    BY <2>2, <1>8, PutKeeps DEF Progress, FilesInv
  <2>4. \A g \in fs2 : g.kind \notin Dropped(r, p + 1)
    BY <2>1, <2>3, DroppedNext
  <2>5. p + 1 \in SourceAt(r) + 1 .. Main(r) =>
            \A b \in r.names : \E g \in Having(fs2, Source(r)) : Stem(g) = Id[b]
    <3> SUFFICES ASSUME p + 1 \in SourceAt(r) + 1 .. Main(r), NEW b \in r.names
                 PROVE  \E g \in Having(fs2, Source(r)) : Stem(g) = Id[b]
      OBVIOUS
    <3>1. PICK g \in Having(fs, Source(r)) : Stem(g) = Id[b]
      BY <2>1, <1>1, PlanNumbers DEF Progress, FilesInv
    <3> QED
      BY <3>1, PutKeeps
  <2>6. p \in Nat /\ RunsAt(r) \in Nat /\ ~(p + 1 <= RunsAt(r))
    BY <2>1, <1>1, PlanNumbers
  <2> QED
    BY <2>3, <2>4, <2>5, <2>6 DEF FilesInv
<1>10. DrawInv(fs2, td, c, r, p + 1)
  <2> SUFFICES ASSUME NEW k \in Art
               PROVE  /\ r.sampler = "perf" /\ p + 1 > SampledAt(k) => Id[Perf] \in NamesOf(fs2, k)
                      /\ p + 1 > Main(r) => \A b \in r.names :
                          \/ Id[b] \in NamesOf(fs2, k)
                          \/ \E g \in td : Stem(g) = Id[b] /\ (Stem(g) = Stem(c) => p + 1 <= DrawnAt(r, k))
    BY DEF DrawInv
  <2>1. /\ r.sampler = "perf" /\ p = SampledAt(k) => kind = k
        /\ p > Main(r) /\ p = DrawnAt(r, k) => kind = k
        /\ p # Main(r)
    BY <1>1, StepShape DEF StepFacts, OpAt, Drawing
  <2>2. p \in Nat /\ Main(r) \in Nat /\ DrawnAt(r, k) \in Nat /\ SampledAt(k) \in 6 .. 8
    BY <1>1, PlanNumbers
  <2>3. r.sampler = "perf" /\ p + 1 > SampledAt(k) => Id[Perf] \in NamesOf(fs2, k)
    <3>1. ASSUME r.sampler = "perf", p = SampledAt(k)
          PROVE  Id[Perf] \in NamesOf(fs2, k)
      <4>1. First(r) = 10
        BY <3>1, <1>1, PlanNumbers
      <4>2. Stem(c) = Id[Perf]
        BY <4>1, <3>1, <2>2 DEF Progress, CurInv
      <4>3. kind = k
        BY <3>1, <2>1
      <4> QED
        BY <4>2, <4>3, <1>4
    <3>2. ASSUME r.sampler = "perf", p + 1 > SampledAt(k), p # SampledAt(k)
          PROVE  Id[Perf] \in NamesOf(fs2, k)
      <4>1. p > SampledAt(k)
        BY <3>2, <2>2
      <4>2. Id[Perf] \in NamesOf(fs, k)
        BY <4>1, <3>2 DEF Progress, DrawInv
      <4> QED
        BY <4>2, <1>3
    <3> QED
      BY <3>1, <3>2
  <2>4. ASSUME p + 1 > Main(r), NEW b \in r.names
        PROVE  \/ Id[b] \in NamesOf(fs2, k)
               \/ \E g \in td : Stem(g) = Id[b] /\ (Stem(g) = Stem(c) => p + 1 <= DrawnAt(r, k))
    <3>1. p > Main(r)
      BY <2>1, <2>2, <2>4
    <3>2. CASE Id[b] \in NamesOf(fs, k)
      BY <3>2, <1>3
    <3>3. CASE \E g \in td : Stem(g) = Id[b] /\ (Stem(g) = Stem(c) => p <= DrawnAt(r, k))
      BY <3>1, <3>3, <2>1, <2>2, <1>4
    <3> QED
      BY <3>1, <3>2, <3>3 DEF Progress, DrawInv
  <2> QED
    BY <2>3, <2>4
<1> QED
  BY <1>6, <1>9, <1>10 DEF Progress

\* gperftools_to_pb: the recording at hand turns into a pprof file.
LEMMA Converts ==
  ASSUME NEW r, NEW p, NEW fs, NEW td, NEW c, Stands(r, p), Progress(fs, td, c, r, p), OpAt(r, p) = "convert",
         NEW f, f.kind = "pb", f.name = Single, f.from = c.from, f.at = r.n, f.whole
  PROVE  Progress(Put(fs, {f}), td, f, r, p + 1)
<1> DEFINE fs2 == Put(fs, {f})
<1>1. IsRun(r) /\ p \in Nat
  BY StepShape DEF Stands
<1>2. p = First(r) + 2 /\ Names(r) = {Single} /\ (Turns(r) \/ Tables(r)) /\ ~Loops(r)
  BY StepShape DEF StepFacts, OpAt, Turns, Tables, Loops, Speaks
<1>3. p > First(r) /\ ~(p \in 6 .. First(r)) /\ ~(p + 1 \in 6 .. First(r)) /\ ~(p + 1 <= RunsAt(r))
  BY <1>1, <1>2, PlanNumbers
<1>4. r.names = {Single} /\ c.from = r.n /\ Stem(c) = Id[Single] /\ Stem(f) = Id[Single]
  <2>1. r.names # {} /\ Stem(c) \in Ids(r.names) /\ c.from = r.n /\ r.names \subseteq {Single}
    BY <1>2, <1>3 DEF Progress, CurInv, RunInv
  <2>2. r.names = {Single}
    BY <2>1
  <2> QED
    BY <2>1, <2>2 DEF Ids, Stem
<1>5. f \in fs2 /\ \A k : NamesOf(fs, k) \subseteq NamesOf(fs2, k)
  BY PutKeeps
<1>6. RunInv(r, p + 1) /\ TodoInv(td, r, p + 1)
  BY RunNext, TodoNext DEF Progress, OpAt
<1>7. CurInv(f, r, p + 1)
  BY <1>1, <1>3, <1>4 DEF CurInv, Ids
<1>8. FilesInv(fs2, r, p + 1)
  <2>1. Owned(f, r)
    BY <1>4 DEF Owned, Kinds, Art
  <2>2. \A q \in DOMAIN Plan(r) : Plan(r)[q] # Drop("pb")
    BY <1>1, PlanShape DEF PlanFacts, StepFacts, Drop, Step
  <2>3. "pb" \notin Dropped(r, p)
    BY <2>2 DEF Dropped
  <2>4. \A k : Plan(r)[p] # Drop(k)
    BY DEF OpAt, Drop, Step
  <2>5. \A g \in fs2 : Owned(g, r) /\ g.kind \notin Dropped(r, p)
    BY <2>1, <2>3, PutKeeps DEF Progress, FilesInv
  <2>6. \A g \in fs2 : g.kind \notin Dropped(r, p + 1)
    BY <2>4, <2>5, DroppedNext
  <2>7. p + 1 \in SourceAt(r) + 1 .. Main(r) => \A b \in r.names : \E g \in Having(fs2, Source(r)) : Stem(g) = Id[b]
    <3>1. p + 1 \in SourceAt(r) + 1 .. Main(r) => Source(r) = "pb"
      BY <1>1, <1>2, PlanNumbers
    <3> QED
      BY <3>1, <1>4, <1>5 DEF Having
  <2> QED
    BY <2>5, <2>6, <2>7, <1>3 DEF FilesInv
<1>9. DrawInv(fs2, td, f, r, p + 1)
  <2>1. Stem(f) = Stem(c) /\ Makes(Plan(r)[p]) \notin Art
    BY <1>4 DEF Makes, OpAt, Art, None
  <2>2. DrawInv(fs2, td, c, r, p + 1)
    BY <1>5, <2>1, DrawNext DEF Progress, OpAt
  <2> QED
    BY <2>1, <2>2 DEF DrawInv
<1> QED
  BY <1>6, <1>7, <1>8, <1>9 DEF Progress

\* The loops over recordings: the one at hand is drawn, and gives way.
LEMMA Turnover ==
  ASSUME NEW r, NEW p, NEW fs, NEW td, NEW c, Stands(r, p), Progress(fs, td, c, r, p), OpAt(r, p) = "again"
  PROVE  /\ td \ {c} = {} => Progress(fs, td \ {c}, c, r, p + 1)
         /\ \A c2 \in td \ {c} : Progress(fs, td \ {c}, c2, r, p - 3)
<1> DEFINE td2 == td \ {c}
<1>1. IsRun(r) /\ p \in Nat /\ Loops(r) /\ p = Main(r) + 4 /\ First(r) <= Main(r) /\ Main(r) \in Nat /\ First(r) \in Nat
  BY StepShape, PlanNumbers DEF Stands, OpAt, StepFacts
<1>2. \A k \in Art, b \in r.names :
        Id[b] \in NamesOf(fs, k) \/ \E f \in td2 : Stem(f) = Id[b]
  <2> SUFFICES ASSUME NEW k \in Art, NEW b \in r.names, Id[b] \notin NamesOf(fs, k)
               PROVE  \E f \in td2 : Stem(f) = Id[b]
    OBVIOUS
  <2>1. PICK f \in td : Stem(f) = Id[b] /\ (Stem(f) = Stem(c) => p <= DrawnAt(r, k))
    BY <1>1 DEF Progress, DrawInv
  <2>2. f # c
    <3>1. DrawnAt(r, k) < Main(r) + 4
      BY <1>1 DEF DrawnAt, FoldAt, SvgAt, Art, Loops, Speaks
    <3> QED
      BY <3>1, <2>1, <1>1, PlanNumbers
  <2> QED
    BY <2>1, <2>2
<1>3. \A f \in td2 : f.from = r.n /\ Stem(f) \in Ids(r.names)
  BY <1>1 DEF Progress, TodoInv
<1>4. ASSUME td2 = {}
      PROVE  Progress(fs, td2, c, r, p + 1)
  <2>1. RunInv(r, p + 1) /\ CurInv(c, r, p + 1) /\ FilesInv(fs, r, p + 1)
    BY RunNext, CurNext, FilesNext DEF Progress, OpAt
  <2>2. TodoInv(td2, r, p + 1)
    BY <1>4 DEF TodoInv
  <2>3. DrawInv(fs, td2, c, r, p + 1)
    BY <1>1, <1>2, <1>4, PlanNumbers DEF Progress, DrawInv
  <2> QED
    BY <2>1, <2>2, <2>3 DEF Progress
<1>5. ASSUME NEW c2 \in td2
      PROVE  Progress(fs, td2, c2, r, p - 3)
  <2>1. /\ p - 3 \in Nat /\ p - 3 > Main(r) /\ p - 3 > First(r) /\ ~(p - 3 > Main(r) + 4) /\ p - 3 > RunsAt(r)
        /\ ~(p - 3 \in 6 .. First(r)) /\ ~(p - 3 \in SourceAt(r) + 1 .. Main(r))
    BY <1>1, PlanNumbers
  <2>2. RunInv(r, p - 3)
    BY <1>1, <2>1, StepShape DEF Progress, RunInv
  <2>3. CurInv(c2, r, p - 3)
    BY <1>1, <1>3, <2>1 DEF Progress, CurInv
  <2>4. TodoInv(td2, r, p - 3)
    BY <1>3, <2>1 DEF TodoInv
  <2>5. FilesInv(fs, r, p - 3)
    <3>1. Dropped(r, p - 3) \subseteq Dropped(r, p)
      BY <1>1, <2>1 DEF Dropped
    <3> QED
      BY <3>1, <2>1, <1>1, PlanNumbers DEF Progress, FilesInv
  <2>6. DrawInv(fs, td2, c2, r, p - 3)
    BY <1>1, <1>2, <2>1, PlanNumbers DEF Progress, DrawInv
  <2> QED
    BY <2>2, <2>3, <2>4, <2>5, <2>6 DEF Progress
<1> QED
  BY <1>4, <1>5

LEMMA Removes ==
  ASSUME NEW r, NEW p, NEW fs, NEW td, NEW c, Stands(r, p), Progress(fs, td, c, r, p), OpAt(r, p) = "drop"
  PROVE  Progress(fs \ Having(fs, Plan(r)[p].kind), td, c, r, p + 1)
<1> DEFINE kind == Plan(r)[p].kind
           fs2 == fs \ Having(fs, kind)
<1>1. IsRun(r) /\ p \in Nat /\ p > RunsAt(r) /\ kind \notin Art /\ (kind = Source(r) => p > Main(r))
  BY StepShape DEF Stands, OpAt, StepFacts
<1>2. RunInv(r, p + 1) /\ CurInv(c, r, p + 1) /\ TodoInv(td, r, p + 1)
  BY RunNext, CurNext, TodoNext DEF Progress, OpAt
<1>3. FilesInv(fs2, r, p + 1)
  <2>1. \A f \in fs2 : Owned(f, r) /\ f.kind \notin Dropped(r, p) /\ f.kind # kind
    BY DEF Progress, FilesInv, Having
  <2>2. \A f \in fs2 : Plan(r)[p] # Drop(f.kind)
    BY <2>1 DEF Drop, Step
  <2>3. \A f \in fs2 : f.kind \notin Dropped(r, p + 1)
    BY <2>1, <2>2, DroppedNext
  <2>4. p # SourceAt(r)
    BY <1>1, StepShape, PlanNumbers DEF OpAt, StepFacts
  <2>5. p + 1 \in SourceAt(r) + 1 .. Main(r) => \A b \in r.names : \E g \in Having(fs2, Source(r)) : Stem(g) = Id[b]
    BY <2>4, <1>1, PlanNumbers DEF Progress, FilesInv, Having
  <2>6. ~(p + 1 <= RunsAt(r))
    BY <1>1, PlanNumbers
  <2> QED
    BY <2>1, <2>3, <2>5, <2>6 DEF FilesInv
<1>4. DrawInv(fs2, td, c, r, p + 1)
  <2>1. Makes(Plan(r)[p]) \notin Art
    BY DEF Makes, OpAt, Art, None
  <2>2. \A k \in Art : NamesOf(fs, k) \subseteq NamesOf(fs2, k)
    BY <1>1 DEF NamesOf, Having
  <2> QED
    BY <2>1, <2>2, DrawNext DEF Progress, OpAt
<1> QED
  BY <1>2, <1>3, <1>4 DEF Progress

\* Past the end of the plan everything is drawn and nothing else is left.
LEMMA Finishes ==
  ASSUME NEW r, NEW fs, NEW td, NEW c, Progress(fs, td, c, r, Len(Plan(r)) + 1)
  PROVE  Complete(fs, r)
<1> DEFINE e == Len(Plan(r)) + 1
<1>1. IsRun(r) /\ r.names \subseteq Names(r)
  BY DEF Progress, RunInv
<1>2. Ends(r, e)
  <2>1. PlanFacts(r)
    BY <1>1, PlanShape
  <2>2. Supported(r)
    BY <2>1 DEF PlanFacts, Progress, RunInv
  <2> QED
    BY <2>1, <2>2 DEF PlanFacts
<1>3. e \in Nat /\ e > Main(r) /\ Main(r) \in Nat /\ e > First(r)
  BY <1>1, <1>2, PlanShape, PlanNumbers DEF PlanFacts, Ends
<1>4. r.names # {} /\ Stem(c) \in Ids(r.names)
  BY <1>3 DEF Progress, CurInv
<1>5. Recording(r) # {}
  BY <1>4 DEF Recording
<1>6. \A f \in fs : f.from = r.n /\ f.at = r.n /\ f.whole /\ f.kind \in {"pb"} \cup Art
  BY <1>2 DEF Ends, Progress, FilesInv, Owned
<1>7. ASSUME NEW kind \in Art
      PROVE  NamesOf(fs, kind) = Ids(Recording(r))
  <2>1. NamesOf(fs, kind) \subseteq Ids(Recording(r))
    BY DEF Progress, FilesInv, Owned, NamesOf, Having
  <2>2. ASSUME NEW b \in r.names
        PROVE  Id[b] \in NamesOf(fs, kind)
    <3> SUFFICES ASSUME NEW f \in td, Stem(f) = Id[b], Stem(f) = Stem(c) => e <= DrawnAt(r, kind)
                 PROVE  FALSE
      BY <1>3 DEF Progress, DrawInv
    <3>1. CASE Loops(r)
      BY <3>1, <1>2, <1>3 DEF Ends, Progress, TodoInv
    <3>2. CASE ~Loops(r)
      <4>1. r.names = {Single}
        BY <3>2, <1>1, <1>2, <1>4 DEF Ends
      <4>2. Stem(c) = Id[Single] /\ Stem(f) = Id[Single]
        BY <4>1, <1>4 DEF Ids
      <4> QED
        BY <4>2, <1>1, <1>2, <1>3, PlanNumbers DEF Ends
    <3> QED
      BY <3>1, <3>2
  <2>3. r.sampler = "perf" => Id[Perf] \in NamesOf(fs, kind)
    BY <1>1, <1>2, <1>3, PlanNumbers DEF Ends, Progress, DrawInv
  <2> QED
    BY <2>1, <2>2, <2>3 DEF Ids, Recording
<1> QED
  BY <1>5, <1>6, <1>7 DEF Complete

-----------------------------------------------------------------------------
(***************************************************************************)
(* The runner's actions.                                                   *)
(***************************************************************************)
LEMMA PlaceIn ==
  ASSUME Typed, pc \in {"infer", "plan"}
  PROVE  /\ Place \in Places /\ Mode \in Modes /\ target[1] \in targets /\ target[1] \in Labels
         /\ target[2] \in Modes \cup {None} /\ target = <<target[1], target[2]>>
BY DEF Typed, Place, Places, Mode, Actual, Modes

\* Only the place at hand changes on disk.
OnlyHere == DOMAIN disk' = Places /\ \A k \in Places \ {Place} : disk'[k] = disk[k]

LEMMA WriteHere ==
  ASSUME Typed, Place \in Places, NEW new, Write(new)
  PROVE  OnlyHere /\ disk'[Place] = Put(disk[Place], new)
BY DEF Typed, Write, OnlyHere, Put

LEMMA DeleteHere ==
  ASSUME Typed, Place \in Places, NEW fs, Delete(fs)
  PROVE  OnlyHere /\ disk'[Place] = disk[Place] \ fs
BY DEF Typed, Delete, OnlyHere

LEMMA Standing ==
  ASSUME IInv, pc = "plan"
  PROVE  /\ Typed /\ Place \in Places /\ Progress(disk[Place], todo, cur, Run, pos)
         /\ IsRun(Run) /\ Run.n = now /\ now \in Nat /\ now >= 1 /\ Run.state = "running"
         /\ Run.label = target[1] /\ Run.mode = Mode
         /\ pos \in DOMAIN Plan(Run) => Stands(Run, pos)
<1>1. Typed /\ Place \in Places
  BY PlaceIn DEF IInv, Typed
<1>2. /\ Progress(disk[Place], todo, cur, Run, pos) /\ Run.n = now /\ now \in Nat
      /\ Run.label = target[1] /\ Run.mode = Mode
  BY DEF IInv, PlanInv, Typed
<1>3. IsRun(Run) /\ Run.state = "running"
  BY <1>2 DEF Progress, RunInv
<1>4. now >= 1
  BY <1>1, <1>2, <1>3 DEF IInv, HistoryInv, Run, NoRun, None
<1> QED
  BY <1>1, <1>2, <1>3, <1>4 DEF Stands

LEMMA Init_IInv == Init => IInv
<1> SUFFICES ASSUME Init
             PROVE  IInv
  OBVIOUS
<1>1. Typed
  BY LabelAssumption DEF Init, Typed, Asked, NotAsked, Samplers, Nothing
<1>2. HistoryInv
  BY DEF Init, HistoryInv, NoRun
<1>3. DoneInv
  BY DEF Init, DoneInv, NoRun, None
<1> QED
  BY <1>1, <1>2, <1>3 DEF Init, IInv, PlanInv, BatchInv

\* A step of a plan that keeps it in progress disturbs nothing else.
LEMMA Within ==
  ASSUME IInv, pc = "plan", OnlyHere, DOMAIN last' = Places, \A k \in Places \ {Place} : last'[k] = last[k],
         \A field \in {"n", "label", "mode", "sampler", "state"} : last'[Place][field] = Run[field],
         Progress(disk'[Place], todo', cur', last'[Place], pos'),
         UNCHANGED <<now, pc, invocation, queue, target, results, exit>>
  PROVE  IInv'
<1>1. Place' = Place /\ Mode' = Mode /\ Run' = last'[Place]
  BY DEF Place, Mode, Run
<1>2. /\ last'[Place].n = Run.n /\ last'[Place].label = Run.label
      /\ last'[Place].mode = Run.mode /\ last'[Place].state = Run.state
  OBVIOUS
<1>3. Typed'
  BY Standing DEF Typed, invocation, OnlyHere, Asked
<1>4. PlanInv'
  BY <1>1, <1>2 DEF IInv, PlanInv
<1>5. HistoryInv'
  <2>1. \A f \in disk'[Place] : f.at = now /\ f.from = now /\ f.whole \in BOOLEAN
    BY <1>2, Standing DEF Progress, FilesInv, Owned
  <2>2. IsRun(last'[Place])
    BY DEF Progress, RunInv
  <2>3. \A k \in Places : last'[k].n = last[k].n
    BY <1>2 DEF Run
  <2>4. \A k \in Places : \A f \in disk'[k] : f.at \in 1 .. last'[k].n /\ f.from \in 1 .. now /\ f.whole \in BOOLEAN
    <3> SUFFICES ASSUME NEW k \in Places, NEW f \in disk'[k]
                 PROVE  f.at \in 1 .. last'[k].n /\ f.from \in 1 .. now /\ f.whole \in BOOLEAN
      OBVIOUS
    <3>1. CASE k = Place
      BY <3>1, <2>1, <1>2, Standing
    <3>2. CASE k # Place
      BY <3>2, <2>3 DEF OnlyHere, IInv, HistoryInv
    <3> QED
      BY <3>1, <3>2
  <2>5. \A k \in Places :
            \/ last'[k] = NoRun
            \/ /\ IsRun(last'[k]) /\ last'[k].n \in 1 .. now
               /\ <<Out[last'[k].label], last'[k].mode>> = k /\ last'[k].state \in States
    <3> SUFFICES ASSUME NEW k \in Places, last'[k] # NoRun
                 PROVE  /\ IsRun(last'[k]) /\ last'[k].n \in 1 .. now
                        /\ <<Out[last'[k].label], last'[k].mode>> = k /\ last'[k].state \in States
      OBVIOUS
    <3>1. CASE k = Place
      BY <3>1, <2>2, <1>2, Standing DEF Place, States
    <3>2. CASE k # Place
      BY <3>2 DEF IInv, HistoryInv
    <3> QED
      BY <3>1, <3>2
  <2>6. \A k \in Places : last'[k].n \in 0 .. now
    BY <2>3 DEF IInv, HistoryInv
  <2>7. \A k, k2 \in Places : last'[k].n = last'[k2].n /\ last'[k].n > 0 => k = k2
    BY <2>3 DEF IInv, HistoryInv
  <2> QED
    BY <2>4, <2>5, <2>6, <2>7 DEF HistoryInv
<1>6. DoneInv'
  BY <1>2, Standing DEF IInv, DoneInv, OnlyHere
<1>7. BatchInv'
  <2>1. \A k \in Places : last'[k].label = last[k].label /\ last'[k].state = last[k].state
    BY <1>2 DEF Run
  <2>2. all => \A t \in DOMAIN results : results[t] = "profiled" => <<Out[t[1]], t[2]>> \in Places
    <3> SUFFICES ASSUME all, NEW t \in DOMAIN results
                 PROVE  t[1] \in Labels /\ t[2] \in Modes
      BY DEF Places
    <3>1. targets \subseteq Labels /\ AskedModes \subseteq Modes
      BY DEF IInv, Typed, AskedModes, ModesAsked, Asked, Modes
    <3>2. t \in UNION {Discovered(m) \X {m} : m \in AskedModes \ ModesLeft}
      BY DEF IInv, BatchInv
    <3> QED
      BY <3>1, <3>2 DEF Discovered
  <2>3. all => ProfiledInv'
    BY <2>1, <2>2 DEF IInv, BatchInv, ProfiledInv, Actual
  <2> QED
    BY <2>3 DEF IInv, BatchInv, AskedModes, ModesAsked, ModesLeft, AtHand, Discovered, invocation
<1> QED
  BY <1>3, <1>4, <1>5, <1>6, <1>7 DEF IInv

-----------------------------------------------------------------------------
\* The step of the plan at hand.
LEMMA Here ==
  ASSUME IInv, NEW op, At(op)
  PROVE  /\ pc = "plan" /\ Stands(Run, pos) /\ OpAt(Run, pos) = op
         /\ Typed /\ Place \in Places /\ Progress(disk[Place], todo, cur, Run, pos)
BY Standing DEF At, OpAt

LEMMA SameRun ==
  ASSUME IInv, last' = last
  PROVE  /\ DOMAIN last' = Places /\ \A k \in Places \ {Place} : last'[k] = last[k]
         /\ last'[Place] = Run
         /\ \A field \in {"n", "label", "mode", "sampler", "state"} : last'[Place][field] = Run[field]
BY DEF IInv, Typed, Run

LEMMA CheckKeeps ==
  ASSUME IInv, Check
  PROVE  IInv'
<1>1. PICK op \in {"tools", "build"} : At(op)
  BY DEF Check
<1>2. Progress(disk[Place], todo, cur, Run, pos + 1)
  BY <1>1, Here, Idles
<1>3. OnlyHere
  BY <1>1, Here DEF Check, OnlyHere, Typed
<1> QED
  BY <1>1, <1>2, <1>3, Here, SameRun, Within DEF Check, Advance

LEMMA CollectKeeps ==
  ASSUME IInv, Collect
  PROVE  IInv'
<1>1. At("need") /\ On(Kind) = Having(disk[Place], Plan(Run)[pos].kind)
  BY DEF Collect, On, Having, Kind
<1>2. Progress(disk[Place], todo', cur', Run, pos + 1)
  BY <1>1, Here, Collects DEF Collect
<1>3. OnlyHere
  BY <1>1, Here DEF Collect, OnlyHere, Typed
<1> QED
  BY <1>1, <1>2, <1>3, Here, SameRun, Within DEF Collect, Advance

LEMMA RepeatKeeps ==
  ASSUME IInv, Repeat
  PROVE  IInv'
<1>1. At("again") /\ todo' = todo \ {cur}
  BY DEF Repeat
<1>2. /\ todo' = {} => Progress(disk[Place], todo', cur, Run, pos + 1)
      /\ \A c \in todo' : Progress(disk[Place], todo', c, Run, pos - 3)
  BY <1>1, Here, Turnover
<1>3. Progress(disk[Place], todo', cur', Run, pos')
  BY <1>2 DEF Repeat
<1>4. OnlyHere
  BY <1>1, Here DEF Repeat, OnlyHere, Typed
<1> QED
  BY <1>1, <1>3, <1>4, Here, SameRun, Within DEF Repeat

LEMMA RemoveKeeps ==
  ASSUME IInv, Remove
  PROVE  IInv'
<1>1. At("drop") /\ On(Kind) = Having(disk[Place], Plan(Run)[pos].kind)
  BY DEF Remove, On, Having, Kind
<1>2. OnlyHere /\ disk'[Place] = disk[Place] \ On(Kind)
  BY <1>1, Here, DeleteHere DEF Remove
<1>3. Progress(disk'[Place], todo, cur, Run, pos + 1)
  BY <1>1, <1>2, Here, Removes
<1> QED
  BY <1>1, <1>2, <1>3, Here, SameRun, Within DEF Remove, Advance

LEMMA SymbolizeKeeps ==
  ASSUME IInv, Symbolize
  PROVE  IInv'
<1>1. At("convert") /\ cur' = Made("pb", Single) /\ Run.n = now
  BY Standing DEF Symbolize, At
<1>2. OnlyHere /\ disk'[Place] = Put(disk[Place], {cur'})
  BY <1>1, Here, WriteHere DEF Symbolize
<1>3. cur'.kind = "pb" /\ cur'.name = Single /\ cur'.from = cur.from /\ cur'.at = Run.n /\ cur'.whole
  BY <1>1 DEF Made, File
<1>4. Progress(disk'[Place], todo, cur', Run, pos + 1)
  BY <1>1, <1>2, <1>3, Here, Converts
<1> QED
  BY <1>1, <1>2, <1>4, Here, SameRun, Within DEF Symbolize, Advance

\* What a drawing makes.
LEMMA Drawn ==
  ASSUME IInv, NEW op \in Drawing, At(op)
  PROVE  /\ Product = Makes(Plan(Run)[pos]) /\ Product # None
         /\ Made(Product, Stem(cur)).kind = Product /\ Made(Product, Stem(cur)).name = Stem(cur)
         /\ Made(Product, Stem(cur)).from = cur.from /\ Made(Product, Stem(cur)).at = Run.n
         /\ Made(Product, Stem(cur)).whole
<1>1. Stands(Run, pos) /\ OpAt(Run, pos) = op /\ Run.n = now
  BY Here, Standing DEF At
<1>2. StepFacts(Run, pos, Plan(Run)[pos])
  BY <1>1, StepShape
<1>3. Product = Makes(Plan(Run)[pos]) /\ Product # None
  BY <1>1, <1>2 DEF StepFacts, Product, Makes, Kind, OpAt, Drawing, None
<1> QED
  BY <1>1, <1>3 DEF Made, File

LEMMA MakeKeeps ==
  ASSUME IInv, Make
  PROVE  IInv'
<1>1. PICK op \in Drawing : At(op)
  BY DEF Make
<1>2. OnlyHere /\ disk'[Place] = Put(disk[Place], {Made(Product, Stem(cur))})
  BY <1>1, Here, WriteHere DEF Make
<1>3. Progress(disk'[Place], todo, cur, Run, pos + 1)
  BY <1>1, <1>2, Here, Drawn, Draws
<1> QED
  BY <1>1, <1>2, <1>3, Here, SameRun, Within DEF Make, Advance

\* What a program records when it is profiled.
LEMMA Records ==
  ASSUME IInv, At("capture"), NEW names \in SUBSET Names(Run)
  PROVE  /\ RecordedBy(Recordings(names), Run, names)
         /\ disk[Place] = {} /\ Put(disk[Place], Recordings(names)) = Recordings(names)
<1>1. Stands(Run, pos) /\ OpAt(Run, pos) = "capture" /\ IsRun(Run) /\ Run.n = now
  BY Here, Standing DEF At
<1>2. pos = RunsAt(Run) /\ RunsAt(Run) \in Nat
  BY <1>1, StepShape, PlanNumbers DEF StepFacts, OpAt
<1>3. disk[Place] = {}
  BY <1>2, Here DEF Progress, FilesInv
<1>4. ASSUME NEW kind \in Captured(Run), NEW f \in Recorded(kind, names)
      PROVE  /\ f.from = now /\ f.at = now /\ f.whole /\ f.kind = kind
             /\ f.kind = "folded" => f.name \in Ids(names)
             /\ f.kind \in {"pb", "raw", "heap", "jfr"} => f.name \in names
             /\ f.kind = "perf" => f.name = Perf
  BY <1>4 DEF Recorded, File, Ids
<1>5. ASSUME NEW kind \in Captured(Run), NEW b \in names, kind \in {"folded", "pb", "raw", "heap", "jfr"}
      PROVE  \E f \in Having(Recordings(names), kind) : Stem(f) = Id[b]
  <2>1. CASE kind = "folded"
    <3>1. File("folded", Id[b]) \in Recorded(kind, names)
      BY <2>1 DEF Recorded
    <3>2. File("folded", Id[b]) \in Having(Recordings(names), kind)
      BY <2>1, <3>1 DEF Recordings, Having, File
    <3> QED
      BY <3>2 DEF Stem, File
  <2>2. CASE kind # "folded"
    <3>1. File(kind, b) \in Recorded(kind, names)
      BY <1>5, <2>2 DEF Recorded
    <3>2. File(kind, b) \in Having(Recordings(names), kind)
      BY <3>1 DEF Recordings, Having, File
    <3> QED
      BY <2>2, <3>2 DEF Stem, File
  <2> QED
    BY <2>1, <2>2
<1> QED
  BY <1>1, <1>3, <1>4, <1>5 DEF RecordedBy, Recordings, Put

LEMMA CaptureKeeps ==
  ASSUME IInv, Capture
  PROVE  IInv'
<1>1. At("capture")
  BY DEF Capture
<1>2. PICK names \in SUBSET Names(Run) :
        Write(Recordings(names)) /\ last' = [last EXCEPT ![Place].names = names]
  BY DEF Capture
<1>3. OnlyHere /\ disk'[Place] = Recordings(names) /\ RecordedBy(disk'[Place], Run, names)
  BY <1>1, <1>2, Here, Records, WriteHere
<1>4. /\ DOMAIN last' = Places /\ \A k \in Places \ {Place} : last'[k] = last[k]
      /\ last'[Place] = [Run EXCEPT !.names = names]
  BY <1>1, <1>2, Here DEF Typed, Run
<1>5. /\ \A field \in {"n", "label", "mode", "sampler", "state"} : last'[Place][field] = Run[field]
      /\ last'[Place].names = names
  <2>1. "names" \in DOMAIN Run
    BY <1>1, Here, Standing DEF IsRun, NoRun
  <2> QED
    BY <2>1, <1>4
<1>6. Progress(disk'[Place], todo, cur, last'[Place], pos + 1)
  <2>1. Stands(Run, pos) /\ Progress(disk[Place], todo, cur, Run, pos) /\ OpAt(Run, pos) = "capture"
    BY <1>1, Here
  <2>2. RecordedBy(disk'[Place], Run, names) /\ last'[Place] = [Run EXCEPT !.names = names]
    BY <1>3, <1>4
  <2> HIDE DEF Run
  <2> QED
    BY <2>1, <2>2, <1>5, Captures
<1> QED
  BY <1>1, <1>3, <1>4, <1>5, <1>6, Here, Within DEF Capture

-----------------------------------------------------------------------------
\* What a step leaves that does not end well is of this run too.
LEMMA Leaves ==
  ASSUME IInv, pc = "plan", Leave
  PROVE  OnlyHere /\ \A f \in disk'[Place] : f.at \in 1 .. now /\ f.from \in 1 .. now /\ f.whole \in BOOLEAN
<1> DEFINE Fine(f) == f.at \in 1 .. now /\ f.from \in 1 .. now /\ f.whole \in BOOLEAN
<1>1. Typed /\ Place \in Places /\ Run.n = now /\ now \in Nat /\ now >= 1 /\ now \in 1 .. now
  BY Standing
<1>2. \A f \in disk[Place] : Fine(f)
  BY <1>1 DEF IInv, HistoryInv, Run
<1>3. CASE disk' = disk
  BY <1>1, <1>2, <1>3 DEF OnlyHere, Typed
<1>4. CASE At("capture") /\ \E names \in SUBSET Names(Run) : Write(Recordings(names))
  <2>1. PICK names \in SUBSET Names(Run) : Write(Recordings(names))
    BY <1>4
  <2>2. OnlyHere /\ disk'[Place] = Recordings(names) /\ RecordedBy(disk'[Place], Run, names)
    BY <1>1, <1>4, <2>1, Records, WriteHere
  <2> QED
    BY <1>1, <2>2 DEF RecordedBy
<1>5. CASE (\E op \in Drawing : At(op)) /\ Write({[Made(Product, Stem(cur)) EXCEPT !.whole = FALSE]})
  <2> DEFINE torn == [Made(Product, Stem(cur)) EXCEPT !.whole = FALSE]
  <2>1. PICK op \in Drawing : At(op)
    BY <1>5
  <2>2. OnlyHere /\ disk'[Place] = Put(disk[Place], {torn})
    BY <1>1, <1>5, WriteHere
  <2>3. Fine(torn)
    <3>1. Stands(Run, pos) /\ IsRun(Run) /\ CurInv(cur, Run, pos) /\ pos \in Nat
      BY <2>1, Here, StepShape DEF Stands, Progress
    <3>2. pos > Main(Run) \/ (Run.sampler = "perf" /\ pos \in 6 .. 8)
      BY <2>1, <3>1, Drawn, StepShape DEF StepFacts
    <3>3. cur.from = Run.n
      BY <3>1, <3>2, PlanNumbers DEF CurInv
    <3>4. torn.at = now /\ torn.from = cur.from /\ torn.whole = FALSE
      BY DEF Made, File
    <3> QED
      BY <1>1, <3>3, <3>4
  <2>4. \A f \in disk'[Place] : f \in disk[Place] \/ f = torn
    BY <2>2 DEF Put
  <2> QED
    BY <1>2, <2>2, <2>3, <2>4
<1>6. CASE At("drop") /\ \E fs \in SUBSET On(Kind) : Delete(fs)
  BY <1>1, <1>2, <1>6, DeleteHere
<1> QED
  BY <1>3, <1>4, <1>5, <1>6 DEF Leave

\* Only the state of the run at hand changes when it ends.
LEMMA Ending ==
  ASSUME IInv, pc = "plan", NEW state \in States, Ended(state)
  PROVE  /\ DOMAIN last' = Places /\ \A k \in Places \ {Place} : last'[k] = last[k]
         /\ last'[Place] = [Run EXCEPT !.state = state] /\ last'[Place].state = state
         /\ \A field \in {"n", "label", "mode", "sampler", "names"} : last'[Place][field] = Run[field]
         /\ IsRun(last'[Place])
<1>1. Typed /\ Place \in Places /\ IsRun(Run)
  BY Standing
<1>2. /\ DOMAIN last' = Places /\ \A k \in Places \ {Place} : last'[k] = last[k]
      /\ last'[Place] = [Run EXCEPT !.state = state]
  BY <1>1 DEF Ended, Typed, Run
<1>3. DOMAIN Run = {"n", "label", "mode", "sampler", "names", "state"}
  BY <1>1 DEF IsRun, NoRun
<1> HIDE DEF Run
<1>4. last'[Place].state = state
  BY <1>2, <1>3
<1>5. \A field \in {"n", "label", "mode", "sampler", "names"} : last'[Place][field] = Run[field]
  BY <1>2, <1>3
<1>6. IsRun(last'[Place])
  <2>1. /\ last'[Place].label = Run.label /\ last'[Place].mode = Run.mode
        /\ last'[Place].sampler = Run.sampler /\ DOMAIN last'[Place] = DOMAIN Run
    BY <1>2, <1>5
  <2> QED
    BY <1>1, <2>1 DEF IsRun
<1> QED
  BY <1>2, <1>4, <1>5, <1>6

LEMMA EndedHistory ==
  ASSUME IInv, pc = "plan", NEW state \in States, Ended(state), OnlyHere, now' = now,
         \A f \in disk'[Place] : f.at \in 1 .. now /\ f.from \in 1 .. now /\ f.whole \in BOOLEAN,
         state = "ok" => Complete(disk'[Place], Run)
  PROVE  HistoryInv' /\ DoneInv'
<1>1. Typed /\ Place \in Places /\ Run.n = now /\ now \in Nat /\ now >= 1 /\ Run = last[Place]
  BY Standing DEF Run
<1>2. \A k \in Places : last'[k].n = last[k].n /\ last'[k].label = last[k].label /\ last'[k].mode = last[k].mode
  BY <1>1, Ending
<1>3. \A k \in Places : \A f \in disk'[k] : f.at \in 1 .. last'[k].n /\ f.from \in 1 .. now /\ f.whole \in BOOLEAN
  <2> SUFFICES ASSUME NEW k \in Places, NEW f \in disk'[k]
               PROVE  f.at \in 1 .. last'[k].n /\ f.from \in 1 .. now /\ f.whole \in BOOLEAN
    OBVIOUS
  <2>1. CASE k = Place
    BY <2>1, <1>1, <1>2
  <2>2. CASE k # Place
    BY <2>2, <1>2 DEF OnlyHere, IInv, HistoryInv
  <2> QED
    BY <2>1, <2>2
<1>4. \A k \in Places :
        \/ last'[k] = NoRun
        \/ /\ IsRun(last'[k]) /\ last'[k].n \in 1 .. now
           /\ <<Out[last'[k].label], last'[k].mode>> = k /\ last'[k].state \in States
  <2> SUFFICES ASSUME NEW k \in Places, last'[k] # NoRun
               PROVE  /\ IsRun(last'[k]) /\ last'[k].n \in 1 .. now
                      /\ <<Out[last'[k].label], last'[k].mode>> = k /\ last'[k].state \in States
    OBVIOUS
  <2>1. CASE k = Place
    <3>1. IsRun(last'[Place]) /\ last'[Place].state = state
      BY Ending
    <3>2. Run # NoRun
      BY Standing DEF NoRun, IsRun, None
    <3>3. <<Out[Run.label], Run.mode>> = Place
      BY <1>1, <3>2 DEF IInv, HistoryInv
    <3> QED
      BY <2>1, <1>1, <1>2, <3>1, <3>3
  <2>2. CASE k # Place
    BY <2>2, Ending DEF IInv, HistoryInv
  <2> QED
    BY <2>1, <2>2
<1>5. HistoryInv'
  BY <1>2, <1>3, <1>4 DEF IInv, HistoryInv
<1>6. DoneInv'
  <2> SUFFICES ASSUME NEW k \in Places, last'[k].state = "ok"
               PROVE  Complete(disk'[k], last'[k])
    BY DEF DoneInv
  <2>1. CASE k = Place
    <3>1. Complete(disk'[Place], Run)
      BY <2>1, Ending
    <3>2. last'[Place].n = Run.n /\ last'[Place].names = Run.names /\ last'[Place].sampler = Run.sampler
      BY Ending
    <3> QED
      BY <2>1, <3>1, <3>2 DEF Complete, Recording
  <2>2. CASE k # Place
    BY <2>2, Ending DEF OnlyHere, IInv, DoneInv
  <2> QED
    BY <2>1, <2>2
<1> QED
  BY <1>5, <1>6

-----------------------------------------------------------------------------
\* A batch deals with targets of the workspace, in modes.
LEMMA BatchTargets ==
  ASSUME IInv, all, NEW t \in DOMAIN results \cup queue \cup AtHand
  PROVE  t[1] \in targets /\ t[1] \in Labels /\ t[2] \in Modes /\ t = <<t[1], t[2]>> /\ <<Out[t[1]], t[2]>> \in Places
<1>1. targets \subseteq Labels /\ AskedModes \subseteq Modes
  BY DEF IInv, Typed, AskedModes, ModesAsked, Asked, Modes
<1>2. t \in UNION {Discovered(m) \X {m} : m \in AskedModes \ ModesLeft}
  BY DEF IInv, BatchInv
<1> QED
  BY <1>1, <1>2 DEF Discovered, Places

\* Two targets of a batch that share a directory have different labels.
LEMMA Another ==
  ASSUME IInv, all, pc \in {"infer", "plan"}, target[2] \in {None, Mode},
         NEW t \in DOMAIN results, results[t] = "profiled", <<Out[t[1]], t[2]>> = Place
  PROVE  t[1] # target[1]
<1>1. SUFFICES ASSUME t[1] = target[1]
               PROVE  FALSE
  OBVIOUS
<1>2. target \notin DOMAIN results /\ target \in AtHand
  BY DEF IInv, BatchInv, AtHand
<1>3. target[2] \in Modes /\ target = <<target[1], target[2]>> /\ t = <<t[1], t[2]>>
  BY <1>2, BatchTargets
<1>4. t[2] = Mode /\ target[2] = Mode
  BY <1>1, <1>3 DEF IInv, BatchInv, ProfiledInv, Mode, Modes, None
<1> QED
  BY <1>1, <1>2, <1>3, <1>4

\* A target is settled, and what else the batch knows stays true.
LEMMA Settled ==
  ASSUME IInv, pc \in {"infer", "plan"}, NEW what \in Outcomes, Settle(what),
         DOMAIN disk' = Places, DOMAIN last' = Places, HistoryInv', DoneInv',
         \A k \in Places \ {Place} : last'[k] = last[k],
         last'[Place] = last[Place] \/ (pc = "plan" /\ last'[Place].label = Run.label),
         what = "profiled" => pc = "plan" /\ last'[Place].state = "ok"
  PROVE  IInv'
<1>1. pc' \in {"discover", "idle"} /\ target' = NoTarget /\ todo' = {}
      /\ UNCHANGED <<targets, now, all, modes, queue>>
      /\ DOMAIN results' = DOMAIN results \cup {target}
      /\ \A t \in DOMAIN results' : results'[t] = IF t = target THEN what ELSE results[t]
  BY DEF Settle
<1>2. Typed'
  <2>1. now' \in Nat /\ pc' \in {"idle", "discover", "infer", "plan"} /\ todo' = {} /\ target' = NoTarget
    BY <1>1 DEF IInv, Typed
  <2>2. exit' \in {None, "ok", "error", "stopped"} /\ asked' \in Asked
    BY DEF IInv, Typed, Settle, Asked, NotAsked, Samplers
  <2>3. pc' = "idle" => queue' = {} /\ modes' = <<>>
    BY DEF IInv, Typed, Settle
  <2>4. ~all' => queue' = {} /\ modes' = <<>> /\ pc' # "discover"
    BY DEF IInv, Typed, Settle
  <2>5. \A t \in DOMAIN results' : results'[t] \in Outcomes
    BY <1>1 DEF IInv, Typed
  <2> QED
    BY <1>1, <2>1, <2>2, <2>3, <2>4, <2>5 DEF IInv, Typed
<1>3. PlanInv'
  BY <1>1 DEF PlanInv
<1>4. BatchInv'
  <2> SUFFICES ASSUME all
               PROVE  BatchInv'
    BY <1>1 DEF BatchInv
  <2>1. pc' = "discover" /\ asked' = asked /\ AtHand' = {} /\ AtHand = {target}
    BY DEF Settle, AtHand
  <2>2. AskedModes' = AskedModes /\ ModesLeft' = ModesLeft /\ \A m : Discovered(m)' = Discovered(m)
    BY <1>1, <2>1 DEF AskedModes, ModesAsked, ModesLeft, Discovered
  <2>3. /\ ModesLeft \subseteq AskedModes
        /\ DOMAIN results \cup queue \cup {target} = UNION {Discovered(m) \X {m} : m \in AskedModes \ ModesLeft}
        /\ queue \cap DOMAIN results = {} /\ target \notin queue
    BY <2>1 DEF IInv, BatchInv
  <2>4. DOMAIN results' \cup queue' \cup AtHand' = (UNION {Discovered(m) \X {m} : m \in AskedModes \ ModesLeft})'
    BY <1>1, <2>1, <2>2, <2>3
  <2>5. ProfiledInv'
    <3> SUFFICES ASSUME NEW t \in DOMAIN results', results'[t] = "profiled"
                 PROVE  /\ t[2] = Actual(t[1])
                        /\ last'[<<Out[t[1]], t[2]>>].state = "ok" \/ last'[<<Out[t[1]], t[2]>>].label # t[1]
      BY DEF ProfiledInv, Actual
    <3>1. CASE t = target
      <4>1. what = "profiled"
        BY <3>1, <1>1
      <4>2. target[2] \in {None, Mode} /\ target[2] \in Modes
        BY <4>1, <2>1, BatchTargets DEF IInv, PlanInv
      <4>3. target[2] = Mode
        BY <4>2 DEF Modes, None
      <4> QED
        BY <3>1, <4>1, <4>3 DEF Mode, Place
    <3>2. CASE t # target
      <4>1. t \in DOMAIN results /\ results[t] = "profiled"
        BY <3>2, <1>1
      <4>2. /\ t[2] = Actual(t[1])
            /\ last[<<Out[t[1]], t[2]>>].state = "ok" \/ last[<<Out[t[1]], t[2]>>].label # t[1]
        BY <4>1 DEF IInv, BatchInv, ProfiledInv
      <4>3. <<Out[t[1]], t[2]>> \in Places
        BY <4>1, BatchTargets
      <4>4. ASSUME <<Out[t[1]], t[2]>> = Place, last'[Place] # last[Place]
            PROVE  last'[Place].label # t[1]
        <5>1. pc = "plan" /\ last'[Place].label = target[1] /\ target[2] \in {None, Mode}
          BY <4>4 DEF IInv, PlanInv
        <5> QED
          BY <4>1, <4>4, <5>1, Another
      <4> QED
        BY <4>2, <4>3, <4>4
    <3> QED
      BY <3>1, <3>2
  <2> QED
    BY <1>1, <2>1, <2>2, <2>3, <2>4, <2>5 DEF BatchInv
<1> QED
  BY <1>2, <1>3, <1>4 DEF IInv

-----------------------------------------------------------------------------
LEMMA FinishKeeps ==
  ASSUME IInv, Finish
  PROVE  IInv'
<1>1. pc = "plan" /\ pos = Len(Plan(Run)) + 1 /\ Ended("ok") /\ Settle("profiled") /\ disk' = disk /\ now' = now
  BY DEF Finish, Settle
<1>2. Typed /\ Place \in Places /\ Progress(disk[Place], todo, cur, Run, pos) /\ Run = last[Place] /\ Run.n = now
  BY <1>1, Standing DEF Run
<1>3. Complete(disk[Place], Run)
  BY <1>1, <1>2, Finishes
<1>4. OnlyHere /\ DOMAIN disk' = Places
  BY <1>1, <1>2 DEF OnlyHere, Typed
<1>5. \A f \in disk'[Place] : f.at \in 1 .. now /\ f.from \in 1 .. now /\ f.whole \in BOOLEAN
  BY <1>1, <1>2 DEF IInv, HistoryInv
<1>6. HistoryInv' /\ DoneInv'
  BY <1>1, <1>3, <1>4, <1>5, EndedHistory DEF States
<1>7. /\ DOMAIN last' = Places /\ \A k \in Places \ {Place} : last'[k] = last[k]
      /\ last'[Place].label = Run.label /\ last'[Place].state = "ok"
  BY <1>1, Ending DEF States
<1> QED
  BY <1>1, <1>4, <1>6, <1>7, Settled DEF Outcomes

\* A run that does not succeed is settled whatever it leaves.
LEMMA Unsuccessful ==
  ASSUME IInv, pc = "plan", NEW state \in {"failed", "stopped"}, Ended(state), Leave, now' = now
  PROVE  /\ DOMAIN disk' = Places /\ HistoryInv' /\ DoneInv'
         /\ DOMAIN last' = Places /\ \A k \in Places \ {Place} : last'[k] = last[k]
         /\ last'[Place].label = Run.label
<1>1. OnlyHere /\ \A f \in disk'[Place] : f.at \in 1 .. now /\ f.from \in 1 .. now /\ f.whole \in BOOLEAN
  BY Leaves
<1>2. HistoryInv' /\ DoneInv'
  BY <1>1, EndedHistory DEF States
<1>3. /\ DOMAIN last' = Places /\ \A k \in Places \ {Place} : last'[k] = last[k]
      /\ last'[Place].label = Run.label
  BY Ending DEF States
<1> QED
  BY <1>1, <1>2, <1>3 DEF OnlyHere

LEMMA FailKeeps ==
  ASSUME IInv, Fail \/ Skip
  PROVE  IInv'
<1>1. PICK what \in {"failed", "skipped"} : Settle(what)
  BY DEF Fail, Skip
<1>2. pc = "plan" /\ Ended("failed") /\ Leave /\ now' = now
  BY DEF Fail, Fails, Skip, At, Leave, Settle
<1> QED
  BY <1>1, <1>2, Unsuccessful, Settled DEF Outcomes

LEMMA RefuseKeeps ==
  ASSUME IInv, Refuse
  PROVE  IInv'
<1>1. pc = "infer" /\ Settle("failed") /\ disk' = disk /\ last' = last /\ now' = now
  BY DEF Refuse, Settle
<1>2. HistoryInv' /\ DoneInv' /\ DOMAIN disk' = Places /\ DOMAIN last' = Places
  BY <1>1 DEF IInv, Typed, HistoryInv, DoneInv
<1> QED
  BY <1>1, <1>2, Settled DEF Outcomes

-----------------------------------------------------------------------------
\* A run enters its directory, under a number no run has had, and what it does
\* not remove is older.
LEMMA Enters ==
  ASSUME IInv, pc = "infer", Accepts(target), now' = now + 1, NEW state \in {"running", "stopped"}, Entered(state),
         NEW gone, Delete(gone)
  PROVE  /\ OnlyHere /\ HistoryInv' /\ DoneInv' /\ now' \in Nat
         /\ DOMAIN last' = Places /\ \A k \in Places \ {Place} : last'[k] = last[k]
         /\ last'[Place] = [n |-> now + 1, label |-> target[1], mode |-> Mode, sampler |-> asked.sampler,
                            names |-> {}, state |-> state]
         /\ IsRun(last'[Place])
<1>1. Typed /\ Place \in Places /\ Mode \in Modes /\ target[1] \in Labels /\ now \in Nat
  BY PlaceIn DEF IInv, Typed
<1>2. OnlyHere /\ disk'[Place] = disk[Place] \ gone
  BY <1>1, DeleteHere
<1>3. /\ DOMAIN last' = Places /\ \A k \in Places \ {Place} : last'[k] = last[k]
      /\ last'[Place] = [n |-> now + 1, label |-> target[1], mode |-> Mode, sampler |-> asked.sampler,
                         names |-> {}, state |-> state]
  BY <1>1 DEF Typed, Entered
<1>4. IsRun(last'[Place])
  <2>1. asked.sampler \in Samplers /\ (Mode = "mem" => asked.sampler = "none")
    BY <1>1 DEF Typed, Asked, Accepts, Samplers
  <2> QED
    BY <1>1, <1>3, <2>1 DEF IsRun, NoRun
<1>5. HistoryInv'
  <2>1. \A k \in Places : last[k].n \in 0 .. now
    BY DEF IInv, HistoryInv
  <2>2. \A k \in Places : \A f \in disk'[k] : f.at \in 1 .. last'[k].n /\ f.from \in 1 .. now' /\ f.whole \in BOOLEAN
    <3> SUFFICES ASSUME NEW k \in Places, NEW f \in disk'[k]
                 PROVE  f.at \in 1 .. last'[k].n /\ f.from \in 1 .. now' /\ f.whole \in BOOLEAN
      OBVIOUS
    <3>1. f \in disk[k] /\ last'[k].n \in Nat /\ last'[k].n >= last[k].n /\ last[k].n \in Nat
      BY <1>1, <1>2, <1>3, <2>1 DEF OnlyHere
    <3> QED
      BY <1>1, <3>1 DEF IInv, HistoryInv
  <2>3. \A k \in Places : last'[k].n \in 0 .. now'
    BY <1>1, <1>3, <2>1
  <2>4. \A k \in Places :
          \/ last'[k] = NoRun
          \/ /\ IsRun(last'[k]) /\ last'[k].n \in 1 .. now'
             /\ <<Out[last'[k].label], last'[k].mode>> = k /\ last'[k].state \in States
    <3> SUFFICES ASSUME NEW k \in Places, last'[k] # NoRun
                 PROVE  /\ IsRun(last'[k]) /\ last'[k].n \in 1 .. now'
                        /\ <<Out[last'[k].label], last'[k].mode>> = k /\ last'[k].state \in States
      OBVIOUS
    <3>1. CASE k = Place
      BY <3>1, <1>1, <1>3, <1>4 DEF Place, States
    <3>2. CASE k # Place
      BY <3>2, <1>1, <1>3 DEF IInv, HistoryInv
    <3> QED
      BY <3>1, <3>2
  <2>5. \A k, k2 \in Places : last'[k].n = last'[k2].n /\ last'[k].n > 0 => k = k2
    <3> SUFFICES ASSUME NEW k \in Places, NEW k2 \in Places, last'[k].n = last'[k2].n, last'[k].n > 0
                 PROVE  k = k2
      OBVIOUS
    <3>1. last'[Place].n = now + 1
      BY <1>3
    <3>2. \A j \in Places \ {Place} : last'[j].n = last[j].n /\ last[j].n # now + 1
      BY <1>1, <1>3, <2>1
    <3>3. CASE k # Place /\ k2 # Place
      BY <3>2, <3>3 DEF IInv, HistoryInv
    <3> QED
      BY <3>1, <3>2, <3>3
  <2> QED
    BY <2>2, <2>3, <2>4, <2>5 DEF HistoryInv
<1>6. DoneInv'
  <2>1. last'[Place].state # "ok"
    BY <1>3
  <2> QED
    BY <1>2, <1>3, <2>1 DEF OnlyHere, IInv, DoneInv
<1> QED
  BY <1>1, <1>2, <1>3, <1>4, <1>5, <1>6

\* A run that has just entered its empty directory is at the start of its plan.
LEMMA Starts ==
  ASSUME NEW r, IsRun(r), r.state = "running", r.names = {}, NEW c
  PROVE  Progress({}, {}, c, r, 1)
<1>1. RunInv(r, 1)
  BY PlanShape DEF PlanFacts, RunInv
<1>2. FilesInv({}, r, 1) /\ CurInv(c, r, 1) /\ TodoInv({}, r, 1) /\ DrawInv({}, {}, c, r, 1)
  BY PlanNumbers DEF FilesInv, CurInv, TodoInv, DrawInv
<1> QED
  BY <1>1, <1>2 DEF Progress

LEMMA EnterKeeps ==
  ASSUME IInv, Enter
  PROVE  IInv'
<1>1. /\ pc = "infer" /\ Accepts(target) /\ now' = now + 1 /\ Entered("running") /\ Delete(disk[Place])
      /\ pc' = "plan" /\ pos' = 1 /\ UNCHANGED <<todo, cur, invocation, queue, target, results, exit>>
  BY DEF Enter
<1>2. /\ OnlyHere /\ HistoryInv' /\ DoneInv' /\ now' \in Nat
      /\ DOMAIN last' = Places /\ \A k \in Places \ {Place} : last'[k] = last[k]
      /\ last'[Place] = [n |-> now + 1, label |-> target[1], mode |-> Mode, sampler |-> asked.sampler,
                         names |-> {}, state |-> "running"]
      /\ IsRun(last'[Place])
  BY <1>1, Enters
<1>3. Typed /\ Place \in Places /\ todo = {} /\ disk'[Place] = {}
  BY <1>1, PlaceIn, DeleteHere DEF IInv, Typed
<1>4. Place' = Place /\ Mode' = Mode /\ Run' = last'[Place]
  BY <1>1 DEF Place, Mode, Run
<1>5. Typed'
  BY <1>1, <1>2, <1>3 DEF Typed, invocation, OnlyHere, Asked
<1>6. PlanInv'
  <2>1. Progress(disk'[Place], todo', cur', last'[Place], 1)
    BY <1>1, <1>2, <1>3, Starts
  <2>2. /\ last'[Place].n = now' /\ last'[Place].label = target[1] /\ last'[Place].mode = Mode
        /\ target[2] \in {None, Mode}
    BY <1>1, <1>2 DEF Accepts
  <2> QED
    BY <1>1, <1>4, <2>1, <2>2 DEF PlanInv
<1>7. BatchInv'
  <2>1. AskedModes' = AskedModes /\ ModesLeft' = ModesLeft /\ AtHand' = AtHand /\ \A m : Discovered(m)' = Discovered(m)
    BY <1>1 DEF AskedModes, ModesAsked, ModesLeft, Discovered, AtHand, invocation
  <2>2. all => ProfiledInv'
    <3> SUFFICES ASSUME all, NEW t \in DOMAIN results, results[t] = "profiled"
                 PROVE  /\ t[2] = Actual(t[1])
                        /\ last'[<<Out[t[1]], t[2]>>].state = "ok" \/ last'[<<Out[t[1]], t[2]>>].label # t[1]
      BY <1>1 DEF ProfiledInv, Actual
    <3>1. /\ t[2] = Actual(t[1])
          /\ last[<<Out[t[1]], t[2]>>].state = "ok" \/ last[<<Out[t[1]], t[2]>>].label # t[1]
      BY DEF IInv, BatchInv, ProfiledInv
    <3>2. <<Out[t[1]], t[2]>> \in Places
      BY BatchTargets
    <3>3. <<Out[t[1]], t[2]>> = Place => last'[Place].label # t[1]
      BY <1>1, <1>2, Another DEF Accepts
    <3> QED
      BY <1>2, <3>1, <3>2, <3>3
  <2> QED
    BY <1>1, <2>1, <2>2 DEF IInv, BatchInv, invocation
<1> QED
  BY <1>2, <1>5, <1>6, <1>7 DEF IInv

\* An invocation that breaks off leaves nothing at hand.
LEMMA Aborted ==
  ASSUME IInv, Abort, now' \in Nat, DOMAIN disk' = Places, DOMAIN last' = Places, HistoryInv', DoneInv'
  PROVE  IInv'
<1>1. Typed'
  BY DEF IInv, Typed, Abort, Asked, NotAsked, Samplers, Nothing
<1> QED
  BY <1>1 DEF IInv, PlanInv, BatchInv, Abort

LEMMA EnterBreaksKeeps ==
  ASSUME IInv, EnterBreaks
  PROVE  IInv'
<1>1. PICK gone \in SUBSET disk[Place] : Delete(gone)
  BY DEF EnterBreaks
<1> QED
  BY <1>1, Enters, Aborted DEF EnterBreaks, OnlyHere

LEMMA InterruptKeeps ==
  ASSUME IInv, Interrupt
  PROVE  IInv'
<1>1. Abort /\ now' = now /\ now' \in Nat
  BY DEF Interrupt, IInv, Typed
<1>2. CASE pc = "plan"
  BY <1>1, <1>2, Unsuccessful, Aborted DEF Interrupt
<1>3. CASE pc # "plan"
  <2>1. last' = last /\ disk' = disk
    BY <1>3 DEF Interrupt
  <2>2. HistoryInv' /\ DoneInv' /\ DOMAIN disk' = Places /\ DOMAIN last' = Places
    BY <1>1, <2>1 DEF IInv, Typed, HistoryInv, DoneInv
  <2> QED
    BY <1>1, <2>2, Aborted
<1> QED
  BY <1>2, <1>3

-----------------------------------------------------------------------------
\* Nothing enters, leaves or ends a run.
LEMMA Calm ==
  ASSUME IInv, UNCHANGED <<disk, now, last>>
  PROVE  HistoryInv' /\ DoneInv' /\ DOMAIN disk' = Places /\ DOMAIN last' = Places
BY DEF IInv, Typed, HistoryInv, DoneInv

LEMMA DiscoverKeeps ==
  ASSUME IInv, Discover
  PROVE  IInv'
<1> DEFINE m == Head(modes)
<1>1. /\ pc = "discover" /\ queue = {} /\ modes # <<>> /\ queue' = Discovered(m) \X {m} /\ modes' = Tail(modes)
      /\ UNCHANGED <<targets, disk, now, last, pc, pos, todo, cur, all, asked, target, results, exit>>
  BY DEF Discover
<1>2. /\ all /\ m \in ModesLeft /\ m \in Modes /\ ModesLeft' = ModesLeft \ {m}
      /\ modes' \in {<<>>, <<"cpu">>, <<"mem">>, <<"cpu", "mem">>}
  <2>1. modes \in {<<"cpu">>, <<"mem">>, <<"cpu", "mem">>} /\ all
    BY <1>1 DEF IInv, Typed
  <2>2. CASE modes = <<"cpu">>
    BY <1>1, <2>1, <2>2 DEF ModesLeft, Modes
  <2>3. CASE modes = <<"mem">>
    BY <1>1, <2>1, <2>3 DEF ModesLeft, Modes
  <2>4. CASE modes = <<"cpu", "mem">>
    <3>1. modes' = <<"mem">> /\ m = "cpu"
      BY <1>1, <2>4
    <3> QED
      BY <2>1, <2>4, <3>1 DEF ModesLeft, Modes
  <2> QED
    BY <2>1, <2>2, <2>3, <2>4
<1>3. Discovered(m) \subseteq targets
  BY DEF Discovered
<1>4. Typed'
  BY <1>1, <1>2, <1>3 DEF IInv, Typed, Asked
<1>5. PlanInv'
  BY <1>1 DEF PlanInv
<1>6. BatchInv'
  <2>1. AskedModes' = AskedModes /\ AtHand' = {} /\ AtHand = {} /\ \A j : Discovered(j)' = Discovered(j)
    BY <1>1 DEF AskedModes, ModesAsked, Discovered, AtHand
  <2>2. /\ ModesLeft \subseteq AskedModes
        /\ DOMAIN results = UNION {Discovered(j) \X {j} : j \in AskedModes \ ModesLeft}
    BY <1>1, <1>2, <2>1 DEF IInv, BatchInv
  <2>3. AskedModes \ ModesLeft' = (AskedModes \ ModesLeft) \cup {m}
    BY <1>2, <2>2
  <2>4. DOMAIN results' \cup queue' \cup AtHand' = (UNION {Discovered(j) \X {j} : j \in AskedModes \ ModesLeft})'
    BY <1>1, <2>1, <2>2, <2>3
  <2>5. queue' \cap DOMAIN results' = {}
    BY <1>1, <1>2, <2>2
  <2>6. ProfiledInv'
    BY <1>1, <1>2 DEF IInv, BatchInv, ProfiledInv, Actual
  <2> QED
    BY <1>1, <1>2, <2>1, <2>2, <2>4, <2>5, <2>6 DEF BatchInv
<1> QED
  BY <1>1, <1>4, <1>5, <1>6, Calm DEF IInv

LEMMA DiscoverFailsKeeps ==
  ASSUME IInv, DiscoverFails
  PROVE  IInv'
<1>1. UNCHANGED <<disk, now, last>>
  BY DEF DiscoverFails
<1>2. Typed'
  BY DEF DiscoverFails, IInv, Typed, Asked, NotAsked, Samplers, Nothing
<1> QED
  BY <1>1, <1>2, Calm DEF DiscoverFails, IInv, PlanInv, BatchInv

LEMMA NextTargetKeeps ==
  ASSUME IInv, NextTarget
  PROVE  IInv'
<1>1. /\ pc = "discover" /\ target' \in queue /\ queue' = queue \ {target'} /\ pc' = "infer"
      /\ UNCHANGED <<disk, now, last, pos, todo, cur, targets, all, asked, modes, results, exit>>
  BY DEF NextTarget, invocation
<1>2. all
  BY <1>1 DEF IInv, Typed
<1>3. Typed'
  BY <1>1, <1>2 DEF IInv, Typed, Asked
<1>4. BatchInv'
  <2>1. AskedModes' = AskedModes /\ ModesLeft' = ModesLeft /\ AtHand' = {target'} /\ AtHand = {}
        /\ \A j : Discovered(j)' = Discovered(j)
    BY <1>1 DEF AskedModes, ModesAsked, ModesLeft, Discovered, AtHand
  <2>2. /\ ModesLeft \subseteq AskedModes /\ queue \cap DOMAIN results = {} /\ ProfiledInv
        /\ DOMAIN results \cup queue = UNION {Discovered(j) \X {j} : j \in AskedModes \ ModesLeft}
    BY <1>1, <1>2, <2>1 DEF IInv, BatchInv
  <2>3. DOMAIN results' \cup queue' \cup AtHand' = (UNION {Discovered(j) \X {j} : j \in AskedModes \ ModesLeft})'
    BY <1>1, <2>1, <2>2
  <2>4. ProfiledInv'
    BY <1>1, <2>2 DEF ProfiledInv, Actual
  <2> QED
    BY <1>1, <1>2, <2>1, <2>2, <2>3, <2>4 DEF BatchInv
<1> QED
  BY <1>1, <1>3, <1>4, Calm DEF IInv, PlanInv

LEMMA SummaryKeeps ==
  ASSUME IInv, Summary
  PROVE  IInv'
<1>1. /\ pc = "discover" /\ queue = {} /\ modes = <<>> /\ pc' = "idle"
      /\ exit' = IF \E t \in DOMAIN results : results[t] = "failed" THEN "error" ELSE "ok"
      /\ UNCHANGED <<disk, now, last, pos, todo, cur, targets, all, asked, modes, queue, target, results>>
  BY DEF Summary, invocation
<1>2. Typed'
  BY <1>1 DEF IInv, Typed, Asked
<1>3. BatchInv'
  <2>1. AskedModes' = AskedModes /\ ModesLeft' = ModesLeft /\ AtHand' = AtHand /\ \A j : Discovered(j)' = Discovered(j)
    BY <1>1 DEF AskedModes, ModesAsked, ModesLeft, Discovered, AtHand
  <2>2. all => ProfiledInv'
    BY <1>1 DEF IInv, BatchInv, ProfiledInv, Actual
  <2> QED
    BY <1>1, <2>1, <2>2 DEF IInv, BatchInv
<1> QED
  BY <1>1, <1>2, <1>3, Calm DEF IInv, PlanInv

LEMMA RunAllKeeps ==
  ASSUME IInv, NEW a \in Asked, RunAll(a)
  PROVE  IInv'
<1>1. /\ pc = "idle" /\ all' = TRUE /\ asked' = a /\ modes' = ModesAsked(a)
      /\ pc' = "discover" /\ results' = Nothing /\ exit' = None
      /\ UNCHANGED <<targets, disk, now, last, pos, todo, cur, queue, target>>
  BY DEF RunAll
<1>2. queue = {} /\ DOMAIN results' = {}
  BY <1>1 DEF IInv, Typed, Nothing
<1>3. ModesAsked(a) \in {<<"cpu">>, <<"mem">>, <<"cpu", "mem">>}
  BY DEF Asked, ModesAsked, Modes
<1>4. Typed'
  BY <1>1, <1>2, <1>3 DEF IInv, Typed
<1>5. BatchInv'
  <2>1. ModesLeft' = AskedModes' /\ AtHand' = {}
    BY <1>1 DEF ModesLeft, AskedModes, AtHand
  <2> QED
    BY <1>1, <1>2, <2>1 DEF BatchInv, ProfiledInv
<1> QED
  BY <1>1, <1>4, <1>5, Calm DEF IInv, PlanInv

LEMMA RunOneKeeps ==
  ASSUME IInv, NEW a \in Asked, RunOne(a)
  PROVE  IInv'
<1>1. PICK l \in targets : target' = <<l, a.mode>>
  BY DEF RunOne
<1>2. /\ pc = "idle" /\ all' = FALSE /\ asked' = a /\ modes' = <<>>
      /\ pc' = "infer" /\ results' = Nothing /\ exit' = None
      /\ UNCHANGED <<targets, disk, now, last, pos, todo, cur, queue>>
  BY DEF RunOne
<1>3. Typed'
  BY <1>1, <1>2 DEF IInv, Typed, Asked, Nothing
<1> QED
  BY <1>2, <1>3, Calm DEF IInv, PlanInv, BatchInv

LEMMA StutterKeeps ==
  ASSUME IInv, UNCHANGED vars
  PROVE  IInv'
<1>1. Typed'
  BY DEF IInv, Typed, vars, invocation, Asked
<1>2. PlanInv'
  <2>1. Place' = Place /\ Mode' = Mode /\ Run' = Run
    BY DEF Place, Mode, Run, vars
  <2> QED
    BY <2>1 DEF IInv, PlanInv, vars
<1>3. BatchInv'
  <2>1. AskedModes' = AskedModes /\ ModesLeft' = ModesLeft /\ AtHand' = AtHand /\ \A j : Discovered(j)' = Discovered(j)
    BY DEF AskedModes, ModesAsked, ModesLeft, Discovered, AtHand, vars, invocation
  <2>2. all => ProfiledInv'
    BY DEF IInv, BatchInv, ProfiledInv, Actual, vars
  <2> QED
    BY <2>1, <2>2 DEF IInv, BatchInv, vars, invocation
<1> QED
  BY <1>1, <1>2, <1>3, Calm DEF IInv, vars

LEMMA Next_IInv == IInv /\ [Next]_vars => IInv'
<1> SUFFICES ASSUME IInv, [Next]_vars
             PROVE  IInv'
  OBVIOUS
<1>1. CASE RunStep
  BY <1>1, DiscoverKeeps, DiscoverFailsKeeps, NextTargetKeeps, SummaryKeeps, RefuseKeeps, EnterKeeps, EnterBreaksKeeps,
     CheckKeeps, CaptureKeeps, CollectKeeps, SymbolizeKeeps, MakeKeeps, RepeatKeeps, RemoveKeeps, FinishKeeps, FailKeeps
     DEF RunStep
<1>2. CASE User
  BY <1>2, InterruptKeeps, RunAllKeeps, RunOneKeeps DEF User
<1>3. CASE UNCHANGED vars
  BY <1>3, StutterKeeps
<1> QED
  BY <1>1, <1>2, <1>3 DEF Next

\* Whatever happens, the inductive invariant holds.
THEOREM Inductive == Spec => []IInv
BY Init_IInv, Next_IInv, PTL DEF Spec

-----------------------------------------------------------------------------
\* The variables have their types; the plan at hand is that of the run that is
\* on in its directory, and an idle runner has nothing at hand.
THEOREM TypeCorrect == Spec => []TypeOK
<1>1. IInv => TypeOK
  <2> SUFFICES ASSUME IInv
               PROVE  TypeOK
    OBVIOUS
  <2>1. ASSUME NEW k \in Places, NEW f \in disk[k]
        PROVE  f.at \in 1 .. now /\ f.from \in 1 .. now /\ f.whole \in BOOLEAN
    <3>1. f.at \in 1 .. last[k].n /\ f.from \in 1 .. now /\ f.whole \in BOOLEAN /\ last[k].n \in 0 .. now /\ now \in Nat
      BY DEF IInv, HistoryInv, Typed
    <3> QED
      BY <3>1
  <2>2. pc = "plan" => pos \in 1 .. Len(Plan(Run)) + 1 /\ Run.state = "running"
    BY DEF IInv, PlanInv, Progress, RunInv
  <2> QED
    BY <2>1, <2>2 DEF IInv, Typed, HistoryInv, TypeOK
<1> QED
  BY <1>1, Inductive, PTL

\* run_one: when a run returns, its directory holds what this run has recorded,
\* all of it drawn, and nothing else: neither remains of an earlier run nor
\* files on the way.
THEOREM SuccessMeansComplete == Spec => []SuccessIsComplete
<1>1. \A k \in Places, kind \in Art : Rendered(k, kind) = NamesOf(disk[k], kind)
  BY DEF Rendered, NamesOf, Having
<1>2. IInv => SuccessIsComplete
  BY <1>1 DEF IInv, DoneInv, Complete, SuccessIsComplete, Art, Ids
<1>3. [](\A k \in Places, kind \in Art : Rendered(k, kind) = NamesOf(disk[k], kind))
  BY <1>1, PTL
<1> QED
  BY <1>2, Inductive, PTL

\* run_all: the summary accounts for every target of every mode asked for, and
\* what it says of them and the exit code is true.
THEOREM SummaryTells == Spec => []SummaryIsTrue
<1>1. IInv => SummaryIsTrue
  <2> SUFFICES ASSUME IInv, pc = "idle", all, exit \in {"ok", "error"}
               PROVE  /\ DOMAIN results = UNION {Discovered(ModesAsked(asked)[i]) \X {ModesAsked(asked)[i]} :
                                                    i \in DOMAIN ModesAsked(asked)}
                      /\ exit = "ok" <=> \A t \in DOMAIN results : results[t] # "failed"
                      /\ \A t \in DOMAIN results : results[t] = "profiled" =>
                            last[<<Out[t[1]], t[2]>>].state = "ok" \/ last[<<Out[t[1]], t[2]>>].label # t[1]
    BY DEF SummaryIsTrue
  <2>1. ModesLeft = {} /\ queue = {} /\ AtHand = {}
    BY DEF IInv, Typed, ModesLeft, AtHand
  <2>2. DOMAIN results = UNION {Discovered(m) \X {m} : m \in AskedModes}
    BY <2>1 DEF IInv, BatchInv
  <2>3. DOMAIN results = UNION {Discovered(ModesAsked(asked)[i]) \X {ModesAsked(asked)[i]} :
                                    i \in DOMAIN ModesAsked(asked)}
    BY <2>2 DEF AskedModes
  <2> QED
    BY <2>3 DEF IInv, BatchInv, ProfiledInv
<1> QED
  BY <1>1, Inductive, PTL

\* The run that entered a target's directories last.
LEMMA LatestRun ==
  ASSUME IInv, NEW l \in Labels, Latest(Out[l]).state = "ok"
  PROVE  \E m \in Modes :
            /\ Latest(Out[l]) = last[<<Out[l], m>>] /\ <<Out[l], m>> \in Places
            /\ Latest(Out[l]).n \in Nat
            /\ \A m2 \in Modes \ {m} : last[<<Out[l], m2>>].n \in Nat /\ last[<<Out[l], m2>>].n < Latest(Out[l]).n
<1> DEFINE d == Out[l]
           runs == {last[<<d, m>>] : m \in Modes}
<1>1. \A m \in Modes : <<d, m>> \in Places /\ last[<<d, m>>].n \in Nat
  <2>1. \A m \in Modes : <<d, m>> \in Places
    BY DEF Places
  <2>2. \A k \in Places : last[k].n \in 0 .. now
    BY DEF IInv, HistoryInv
  <2> QED
    BY <2>1, <2>2
<1>2. \E r \in runs : \A m \in Modes : last[<<d, m>>].n <= r.n
  <2>1. CASE last[<<d, "cpu">>].n <= last[<<d, "mem">>].n
    BY <1>1, <2>1 DEF Modes
  <2>2. CASE last[<<d, "mem">>].n <= last[<<d, "cpu">>].n
    BY <1>1, <2>2 DEF Modes
  <2> QED
    BY <1>1, <2>1, <2>2 DEF Modes
<1>3. Latest(d) \in runs /\ \A m \in Modes : last[<<d, m>>].n <= Latest(d).n
  BY <1>2 DEF Latest
<1>4. PICK m \in Modes : Latest(d) = last[<<d, m>>]
  BY <1>3
<1>5. Latest(d).n > 0
  BY <1>1, <1>4 DEF IInv, HistoryInv, NoRun, None
<1>6. ASSUME NEW m2 \in Modes \ {m}
      PROVE  last[<<d, m2>>].n < Latest(d).n
  <2>1. last[<<d, m2>>].n # Latest(d).n
    <3>1. <<d, m2>> # <<d, m>>
      OBVIOUS
    <3> QED
      BY <3>1, <1>1, <1>4, <1>5 DEF IInv, HistoryInv
  <2> QED
    BY <2>1, <1>1, <1>3, <1>4
<1> QED
  BY <1>1, <1>4, <1>6

\* view: after a run that succeeded, what is opened is of that run, and drawn.
THEOREM ViewIsLatest == Spec => []ViewShowsLatest
<1>1. IInv => ViewShowsLatest
  <2> SUFFICES ASSUME IInv, NEW l \in Labels, Latest(Out[l]).state = "ok"
               PROVE  /\ View(Out[l]) # {}
                      /\ \A c \in View(Out[l]) :
                            /\ c.file.from = Latest(Out[l]).n /\ c.file.kind = "folded" /\ c.file.whole
                            /\ c.file.name \in Rendered(<<Out[l], c.mode>>, "svg")
    BY DEF ViewShowsLatest
  <2> DEFINE d == Out[l]
             r == Latest(d)
  <2>1. PICK m \in Modes :
            /\ r = last[<<d, m>>] /\ <<d, m>> \in Places /\ r.n \in Nat
            /\ \A m2 \in Modes \ {m} : last[<<d, m2>>].n \in Nat /\ last[<<d, m2>>].n < r.n
    BY LatestRun
  <2>2. Complete(disk[<<d, m>>], r)
    BY <2>1 DEF IInv, DoneInv
  <2>3. \A c \in Candidates(d) :
            c.mode \in Modes /\ c.file \in disk[<<d, c.mode>>] /\ c.file.kind \in {"folded", "bucket"}
    <3> DEFINE stacks(j) == {g \in disk[<<d, j>>] : g.kind \in {"folded", "bucket"}}
    <3>1. \A c \in Candidates(d) : \E j \in Modes : c \in {[mode |-> j, file |-> f] : f \in stacks(j)}
      BY DEF Candidates
    <3>2. \A c \in Candidates(d) : \E j \in Modes : \E f \in stacks(j) : c = [mode |-> j, file |-> f]
      BY <3>1
    <3> TAKE c \in Candidates(d)
    <3>3. PICK j \in Modes : \E f \in stacks(j) : c = [mode |-> j, file |-> f]
      BY <3>2
    <3>4. PICK f \in stacks(j) : c = [mode |-> j, file |-> f]
      BY <3>3
    <3>5. c.mode = j /\ c.file = f
      BY <3>4
    <3> QED
      BY <3>5
  <2>4. ASSUME NEW c \in Candidates(d)
        PROVE  c.file.at \in Nat /\ (IF c.mode = m THEN c.file.at = r.n ELSE c.file.at < r.n)
    <3>1. CASE c.mode = m
      BY <3>1, <2>1, <2>2, <2>3 DEF Complete
    <3>2. CASE c.mode # m
      <4>1. c.file.at \in 1 .. last[<<d, c.mode>>].n
        BY <2>3 DEF IInv, HistoryInv, Places
      <4>2. last[<<d, c.mode>>].n \in Nat /\ last[<<d, c.mode>>].n < r.n
        BY <3>2, <2>1, <2>3
      <4> QED
        BY <3>2, <4>1, <4>2, <2>1
    <3> QED
      BY <3>1, <3>2
  <2>5. PICK g \in disk[<<d, m>>] : g.kind = "folded"
    <3>1. NamesOf(disk[<<d, m>>], "folded") # {}
      BY <2>2 DEF Complete, Ids, Art
    <3> QED
      BY <3>1 DEF NamesOf, Having
  <2>6. [mode |-> m, file |-> g] \in Candidates(d)
    <3> DEFINE stacks == {f \in disk[<<d, m>>] : f.kind \in {"folded", "bucket"}}
    <3>1. {[mode |-> m, file |-> f] : f \in stacks} \subseteq Candidates(d)
      BY DEF Candidates
    <3>2. g \in stacks
      BY <2>5
    <3> HIDE DEF stacks
    <3> QED
      BY <3>1, <3>2
  <2>7. [mode |-> m, file |-> g] \in View(d)
    <3>1. g.at = r.n
      BY <2>6, <2>4
    <3>2. \A e \in Candidates(d) : e.file.at <= g.at
      BY <3>1, <2>4, <2>1
    <3> QED
      BY <2>6, <3>2 DEF View, Newest
  <2>8. ASSUME NEW c \in View(d)
        PROVE  /\ c.file.from = r.n /\ c.file.kind = "folded" /\ c.file.whole
               /\ c.file.name \in Rendered(<<d, c.mode>>, "svg")
    <3>1. c \in Candidates(d) /\ g.at <= c.file.at /\ g.at = r.n
      BY <2>6, <2>4 DEF View, Newest
    <3>2. c.mode = m
      BY <3>1, <2>4, <2>1
    <3>3. c.file \in disk[<<d, m>>] /\ c.file.kind \in {"folded", "bucket"}
      BY <3>1, <3>2, <2>3
    <3>4. c.file.from = r.n /\ c.file.kind = "folded" /\ c.file.whole
      BY <3>3, <2>2 DEF Complete, Art
    <3>5. c.file.name \in NamesOf(disk[<<d, m>>], "svg")
      <4>1. c.file.name \in NamesOf(disk[<<d, m>>], "folded")
        BY <3>3, <3>4 DEF NamesOf, Having
      <4> QED
        BY <4>1, <2>2 DEF Complete, Art
    <3> QED
      BY <3>2, <3>4, <3>5 DEF Rendered, NamesOf, Having
  <2> QED
    BY <2>7, <2>8
<1> QED
  BY <1>1, Inductive, PTL

-----------------------------------------------------------------------------
\* A single run ends well in one way.
LEMMA EndsWell ==
  ASSUME IInv, Next, pc' = "idle", ~all', exit' = "ok"
  PROVE  Finish /\ ~all
<1>1. ASSUME NEW what \in {"failed", "skipped"}, Settle(what)
      PROVE  FALSE
  BY <1>1 DEF Settle
<1>2. ~(Refuse \/ Skip \/ Fail)
  BY <1>1 DEF Refuse, Skip, Fail
<1>3. ~(EnterBreaks \/ Interrupt)
  BY DEF EnterBreaks, Interrupt, Abort
<1>4. ~(Discover \/ DiscoverFails \/ NextTarget \/ Summary \/ Enter)
  BY DEF IInv, Typed, Discover, DiscoverFails, NextTarget, Summary, Enter, invocation
<1>5. ~(Check \/ Capture \/ Collect \/ Symbolize \/ Make \/ Repeat \/ Remove)
  BY DEF Check, Capture, Collect, Symbolize, Make, Repeat, Remove, Advance, At
<1>6. ~(\E a \in Asked : RunAll(a) \/ RunOne(a))
  BY DEF RunAll, RunOne
<1>7. Finish
  BY <1>2, <1>3, <1>4, <1>5, <1>6 DEF Next, RunStep, User
<1> QED
  BY <1>7 DEF Finish, Settle

LEMMA FinishExit ==
  ASSUME IInv, Finish, ~all
  PROVE  ExitIsTrue'
<1>1. pc = "plan" /\ Ended("ok") /\ target \in DOMAIN results' /\ now' = now
  BY DEF Finish, Settle
<1>2. Run.n = now /\ Run.label = target[1] /\ Run.mode = Mode /\ target[2] \in {None, Mode}
  BY <1>1 DEF IInv, PlanInv
<1>3. /\ last'[Place].state = "ok" /\ last'[Place].n = now /\ last'[Place].label = target[1]
      /\ last'[Place].mode = Mode
  BY <1>1, <1>2, Ending DEF States
<1>4. <<Out[target[1]], Actual(target[1])>> = Place
  BY DEF Place, Mode
<1> QED
  BY <1>1, <1>2, <1>3, <1>4 DEF ExitIsTrue, Actual

\* run_one: a single run that exits with 0 has profiled its target, in the mode
\* of its tag.
THEOREM ExitTells == Spec => []ExitIsTrue
<1>1. Init => ExitIsTrue
  BY DEF Init, ExitIsTrue, None
<1>2. ASSUME IInv, ExitIsTrue, [Next]_vars
      PROVE  ExitIsTrue'
  <2>1. CASE Next
    <3>1. ASSUME pc' = "idle", ~all', exit' = "ok"
          PROVE  ExitIsTrue'
      BY <1>2, <2>1, <3>1, EndsWell, FinishExit
    <3> QED
      BY <3>1 DEF ExitIsTrue
  <2>2. CASE UNCHANGED vars
    BY <1>2, <2>2 DEF ExitIsTrue, Actual, vars, invocation
  <2> QED
    BY <1>2, <2>1, <2>2
<1> QED
  BY <1>1, <1>2, Inductive, PTL DEF Spec
=============================================================================
