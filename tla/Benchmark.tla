------------------------------ MODULE Benchmark -------------------------------
(***************************************************************************)
(* The programs that measure jittest by running the pipeline (module       *)
(* Pipeline) on many pairs of revisions.  In the mode "bugs" it is         *)
(* run_bugsinpy.main: each bug of a list is measured in a clone that is    *)
(* kept from one run of the program to the next, also when the program is  *)
(* killed.  In the mode "ladder" it is fp_ladder.main: the same pairs are  *)
(* run once for each threshold, summarised as false_positives.main does,   *)
(* and compared.  With one rung this is false_positives.main itself.       *)
(***************************************************************************)
EXTENDS Pipeline

CONSTANTS
  Modes,
  Bugs,         \* the list of bugs: a sequence of pairs
  Projects, Project,    \* Project[p]: the project of pair p
  Commits,
  Needs,        \* Needs[p]: the commits of a bug; none when its ids are missing
  OnBranches,   \* OnBranches[j]: what a clone of project j brings
  Fetchable,    \* Fetchable[j]: what origin gives when it is asked by name
  FreshClone,   \* --fresh-clone
  Merges,       \* the pairs of the ladder
  Thresholds    \* its rungs, descending

ASSUME BenchmarkAssumption ==
  /\ Modes \subseteq {"bugs", "ladder"} /\ FreshClone \in BOOLEAN
  /\ Bugs \in Seq(Pairs) /\ Merges \in Seq(Pairs) /\ Thresholds \in Seq(Nat) \ {<<>>}
  /\ Project \in [Pairs -> Projects] /\ Needs \in [Pairs -> SUBSET Commits]
  /\ OnBranches \in [Projects -> SUBSET Commits] /\ Fetchable \in [Projects -> SUBSET Commits]
  /\ \A i, j \in DOMAIN Thresholds : i < j => Thresholds[i] > Thresholds[j]

VARIABLES
  drive,   \* the driver: what is left to do, the rows and the summaries
  clone    \* the clone of each project: a directory on disk

vars == <<drive, clone, pipelineVars, oracleVars>>

(* A husk is a directory without .git.                                     *)
NoClone == [is |-> "absent", has |-> {}]
Start(mode) == [mode |-> mode, stage |-> "next", todo |-> IF mode = "bugs" THEN Bugs ELSE Merges,
                rung |-> 1, rows |-> <<>>, summaries |-> <<>>, verdict |-> "none"]

Init ==
  /\ PipelineInit /\ clone = [j \in Projects |-> NoClone]
  /\ \E mode \in Modes : drive = Start(mode)

Idle == drive.stage = "next" /\ run.stage = "idle"
Current == Head(drive.todo)

(* The row of a pair.  limited is what the rows leave out: whether a rate  *)
(* limit cost this run a candidate.                                        *)
Row(outcome, rep) ==
  [outcome |-> outcome, diff |-> rep.status, requests |-> rep.requests,
   considered |-> rep.considered, generated |-> rep.generated, limited |-> rep.throttled > 0]
NoRow(outcome) == Row(outcome, NoReport)
Advance(row) == [drive EXCEPT !.stage = "next", !.todo = Tail(@), !.rows = Append(@, row)]
RunOver == run' = NoRun /\ report' = NoReport /\ recorded' = <<>> /\ FreshWorktrees

-----------------------------------------------------------------------------
(* run_bugsinpy *)

Here == Project[Current]
Cloned(j) == [is |-> "repo", has |-> OnBranches[j]]

(* A directory that is not a repository is removed; what is missing is     *)
(* cloned, which may fail; then the commits that are not there are fetched *)
(* one by one, which may fail too.                                         *)
Usable == clone[Here].is = "repo" /\ ~FreshClone
CloneFails ==
  /\ drive.mode = "bugs" /\ Idle /\ drive.todo # <<>> /\ ~Usable
  /\ clone' = [clone EXCEPT ![Here] = NoClone] /\ drive' = Advance(NoRow("skipped"))
  /\ UNCHANGED <<pipelineVars, oracleVars>>

(* Mutant of EnsureRepo: whatever directory is there is taken. *)
EnsureDirectory ==
  /\ drive.mode = "bugs" /\ Idle /\ drive.todo # <<>>
  /\ clone' = [clone EXCEPT ![Here] = IF @.is = "absent" \/ FreshClone THEN Cloned(Here) ELSE @]
  /\ drive' = [drive EXCEPT !.stage = "ensured"]
  /\ UNCHANGED <<pipelineVars, oracleVars>>

EnsureRepo ==
  /\ drive.mode = "bugs" /\ Idle /\ drive.todo # <<>>
  /\ LET start == IF Usable THEN clone[Here] ELSE Cloned(Here)
     IN  \E fetched \in SUBSET ((Needs[Current] \ start.has) \cap Fetchable[Here]) :
           LET has == start.has \cup fetched
           IN  /\ clone' = [clone EXCEPT ![Here] = [is |-> "repo", has |-> has]]
               /\ drive' = IF Needs[Current] \subseteq has THEN [drive EXCEPT !.stage = "ensured"]
                           ELSE Advance(NoRow("commits_missing"))
  /\ UNCHANGED <<pipelineVars, oracleVars>>

(* evaluate_one: a bug without commit ids is not run. *)
EvaluateOne ==
  /\ drive.mode = "bugs" /\ drive.stage = "ensured"
  /\ IF Needs[Current] = {}
       THEN drive' = Advance(NoRow("skipped")) /\ UNCHANGED <<pipelineVars, oracleVars>>
       ELSE BeginRun(Current, Thresholds[1]) /\ drive' = [drive EXCEPT !.stage = "running"]
  /\ UNCHANGED clone

Classify(rep) ==
  IF rep.status = "git_failed" THEN "git_failed"
  ELSE IF rep.requests = 0 THEN "not_measured"
  ELSE IF rep.findings # <<>> THEN "caught" ELSE "missed"

(* A model that is gone is gone for every bug. *)
BugDone ==
  /\ drive.mode = "bugs" /\ drive.stage = "running" /\ run.stage = "returned"
  /\ LET after == Advance(Row(Classify(report), report))
     IN  drive' = IF report.status \in GoneStatuses THEN [after EXCEPT !.todo = <<>>] ELSE after
  /\ RunOver /\ UNCHANGED clone

BugRaised ==
  /\ drive.mode = "bugs" /\ drive.stage = "running" /\ run.stage = "raised"
  /\ drive' = Advance(NoRow("error")) /\ RunOver /\ UNCHANGED clone

Count(rows, outcomes) == Len(SelectSeq(rows, LAMBDA r : r.outcome \in outcomes))

(* summarize: the headline rate is caught / eligible. *)
BugSummary(rows) ==
  [attempted |-> Len(rows), eligible |-> Len(rows) - Count(rows, {"git_failed", "commits_missing"}),
   measured |-> Count(rows, {"caught", "missed"}), caught |-> Count(rows, {"caught"})]
SummarizeBugs ==
  /\ drive.mode = "bugs" /\ Idle /\ drive.todo = <<>>
  /\ drive' = [drive EXCEPT !.stage = "done", !.summaries = <<BugSummary(drive.rows)>>]
  /\ UNCHANGED <<clone, pipelineVars, oracleVars>>

(* The program is killed and started again: the rows were in memory, the   *)
(* clones stay as they are, and one that was being made is left half done. *)
Kill ==
  /\ drive.mode = "bugs" /\ drive.stage # "done"
  /\ \/ UNCHANGED clone
     \/ /\ Idle /\ drive.todo # <<>> /\ ~Usable
        /\ \E half \in {[is |-> "husk", has |-> {}]} \cup [is : {"repo"}, has : SUBSET OnBranches[Here]] :
             clone' = [clone EXCEPT ![Here] = half]
  /\ drive' = Start("bugs") /\ RunOver

-----------------------------------------------------------------------------
(* fp_ladder and false_positives *)

StartPair ==
  /\ drive.mode = "ladder" /\ Idle /\ drive.todo # <<>>
  /\ BeginRun(Current, Thresholds[drive.rung]) /\ drive' = [drive EXCEPT !.stage = "running"]
  /\ UNCHANGED clone

PairDone ==
  /\ drive.mode = "ladder" /\ drive.stage = "running" /\ run.stage \in {"returned", "raised"}
  /\ drive' = Advance(IF run.stage = "raised" THEN NoRow("error") ELSE Row("run", report))
  /\ RunOver /\ UNCHANGED clone

(* classify_unmeasured: the bucket of a row that was not measured. *)
Screened == {"no_python_in_diff", "inverted_range", "all_targets_ignored", "below_risk_threshold",
             "sandbox_unavailable", "git_failed", "empty", "rate_limited"}
Measured == "measured"

Bucket(row) ==
  CASE row.outcome = "error"                        -> "error"
    [] row.outcome # "error" /\ row.requests > 0    -> Measured
    [] row.outcome # "error" /\ row.requests = 0    ->
         IF row.diff \in Screened THEN row.diff
         ELSE IF row.considered = 0 THEN "no_targets"
         ELSE IF row.generated = 0 THEN "no_candidates" ELSE "no_requests"

(* summarize_rows; limited is left out of what it sums. *)
RungSummary(rows) ==
  LET buckets == {Bucket(rows[i]) : i \in DOMAIN rows} \ {Measured}
  IN  [threshold |-> Thresholds[drive.rung], attempted |-> Len(rows),
       analysed |-> Len(SelectSeq(rows, LAMBDA r : r.outcome # "error" /\ r.requests > 0)),
       requests |-> FoldLeft(LAMBDA sum, r : sum + r.requests, 0, rows),
       reasons  |-> [b \in buckets |-> Len(SelectSeq(rows, LAMBDA r : Bucket(r) = b))],
       limited  |-> \E i \in DOMAIN rows : rows[i].limited]

(* ladder_verdict. *)
LadderVerdict(rungs) ==
  LET first == rungs[1].requests
      last  == rungs[Len(rungs)].requests
  IN  IF \E i \in DOMAIN rungs : "rate_limited" \in DOMAIN rungs[i].reasons THEN "inconclusive_throttled"
      ELSE IF \A i \in DOMAIN rungs : rungs[i].requests = 0
        THEN IF Thresholds[Len(Thresholds)] = 0 THEN "upstream_of_the_gate" ELSE "inconclusive"
      ELSE IF Len(rungs) < 2 THEN "inconclusive"
      ELSE IF last > first THEN "gate_was_binding"
      ELSE IF \A i \in DOMAIN rungs : rungs[i].requests = first THEN "gate_was_not_binding"
      ELSE "inconclusive"

FinishRung ==
  /\ drive.mode = "ladder" /\ Idle /\ drive.todo = <<>>
  /\ LET summaries == Append(drive.summaries, RungSummary(drive.rows))
     IN  drive' = IF drive.rung < Len(Thresholds)
                    THEN [drive EXCEPT !.rung = @ + 1, !.todo = Merges, !.rows = <<>>, !.summaries = summaries]
                    ELSE [drive EXCEPT !.stage = "done", !.rows = <<>>, !.summaries = summaries,
                                       !.verdict = LadderVerdict(summaries)]
  /\ UNCHANGED <<clone, pipelineVars, oracleVars>>

-----------------------------------------------------------------------------
RunPipeline == PipelineStep /\ UNCHANGED <<drive, clone>>

Next ==
  \/ CloneFails \/ EnsureRepo \/ EvaluateOne \/ BugDone \/ BugRaised \/ SummarizeBugs \/ Kill
  \/ StartPair \/ PairDone \/ FinishRung \/ RunPipeline
Spec == Init /\ [][Next]_vars

(* Type correctness. *)
TypeOK ==
  /\ PipelineTypeOK
  /\ drive.mode \in Modes /\ drive.stage \in {"next", "ensured", "running", "done"}
  /\ drive.stage = "running" <=> run.stage # "idle"
  /\ drive.rung \in DOMAIN Thresholds /\ Len(drive.summaries) <= Len(Thresholds)
  /\ \A j \in Projects : clone[j].is \in {"absent", "husk", "repo"} /\ clone[j].has \subseteq Commits

(* ensure_repo: a bug is run only in a repository that has both of its     *)
(* revisions, whatever an earlier run of the program, or an earlier bug of *)
(* the same project, has left in the directory.                            *)
RevisionsArePresent ==
  drive.mode = "bugs" /\ drive.stage = "running" =>
    clone[Here].is = "repo" /\ Needs[Current] \subseteq clone[Here].has

(* verdict_note, INCONCLUSIVE_THROTTLED: when a rate limit cost a run of   *)
(* the ladder a candidate the ladder decides nothing.                      *)
ThrottlingWithheld ==
  drive.verdict # "none" /\ (\E i \in DOMAIN drive.summaries : drive.summaries[i].limited) =>
    drive.verdict = "inconclusive_throttled"
=============================================================================
