------------------------------- MODULE WebRuns -------------------------------
(***************************************************************************)
(* The pages of the web service about the runs under its runs directory:   *)
(* which runs are listed and in which order, how three reports of a run,   *)
(* each of which may be missing, become one line and one page, and what a  *)
(* browser finds behind a line of a list it loaded a while ago.            *)
(*                                                                         *)
(* The reports are written by a tool that is not part of the repository:   *)
(* one at a time, each once, at the hour it names, and each is there only  *)
(* in part for a while.  A directory changes when it gets a new entry,     *)
(* which a report, one directory below, is not.                            *)
(***************************************************************************)
EXTENDS Integers, Sequences, FiniteSets, SequencesExt

CONSTANTS
    Runs,           \* names of the directories, in the order of their names
    MaxRecentRuns,  \* how many are listed
    MaxHours,       \* bound of the hours
    MaxReports      \* bound of the reports

\* Where Runs \subseteq Nat /\ MaxRecentRuns \in Nat \ {0}.

VARIABLES
    hour,
    changed,    \* the directories, the one that changed last comes first
    report,
    line        \* the line of a list that a browser shows, if any
vars == <<hour, changed, report, line>>

Kinds == {"run", "timing", "verify"}
Missing == [st |-> "missing", ok |-> "none", at |-> 0]
Outcomes == {"yes", "no", "none"}
IsMissing(x) == x.st = "missing"

\* has_native_report.
HasReport(r) == \E k \in Kinds : ~IsMissing(report[r][k])
FirstOf(s) == SubSeq(s, 1, IF Len(s) < MaxRecentRuns THEN Len(s) ELSE MaxRecentRuns)

\* Mutant of CandidateRunRoots: cut before those without reports are left out.
CandidateRunRootsCut == SelectSeq(FirstOf(changed), HasReport)
\* candidate_run_roots: the directories with a report that changed last.
CandidateRunRoots == FirstOf(SelectSeq(changed, HasReport))

\* read_json_optional: a report that is there and cannot be parsed is an error.
Unreadable(r) == \E k \in Kinds : report[r][k].st = "partial"

\* load_native_run_detail: the time is the verifier's, else the run's, else
\* that of the timings.
GeneratedAt(r) ==
    LET x == report[r] IN
    IF ~IsMissing(x["verify"]) THEN x["verify"].at
    ELSE IF ~IsMissing(x["run"]) THEN x["run"].at ELSE x["timing"].at

\* Mutant of OverallStatus: the report of the run decides.
OverallStatusRun(r) ==
    IF report[r]["run"].ok = "yes" THEN "passed"
    ELSE IF "no" \in {report[r]["run"].ok, report[r]["verify"].ok} THEN "failed"
    ELSE IF report[r]["verify"].ok = "yes" THEN "passed" ELSE "unknown"
\* overall_status and status_label: missing reports have no outcome.
OverallStatus(r) ==
    LET said == {report[r]["run"].ok, report[r]["verify"].ok} IN
    IF "no" \in said THEN "failed" ELSE IF "yes" \in said THEN "passed" ELSE "unknown"
\* verifier_label.
VerifierLabel(r) ==
    CASE report[r]["verify"].ok = "yes" -> "ok" [] report[r]["verify"].ok = "no" -> "failed"
      [] IsMissing(report[r]["verify"]) -> "not run" [] OTHER -> "unknown"
\* stage_rows: the timings, else the results of the run.
StageRowsOf(r) ==
    IF ~IsMissing(report[r]["timing"]) THEN "timing"
    ELSE IF ~IsMissing(report[r]["run"]) THEN "run" ELSE "none"
Detail(r) ==
    [id |-> r, at |-> GeneratedAt(r), status |-> OverallStatus(r), verifier |-> VerifierLabel(r),
     rows |-> StageRowsOf(r)]

\* load_recent_native_runs, sorted by the time of the reports, then by name;
\* one report that cannot be read is enough for an error.
IndexFails == \E r \in Range(CandidateRunRoots) : Unreadable(r)
RecentRuns ==
    LET Above(a, b) == GeneratedAt(a) > GeneratedAt(b) \/ (GeneratedAt(a) = GeneratedAt(b) /\ a > b)
        listed == SetToSortSeq(Range(CandidateRunRoots), Above)
    IN  [k \in DOMAIN listed |-> Detail(listed[k])]

\* show_run, for the directory of that name among the candidates.
RunPage(r) ==
    IF r \notin Range(CandidateRunRoots) THEN [status |-> "not found"]
    ELSE IF Unreadable(r) THEN [status |-> "error"] ELSE Detail(r)

-----------------------------------------------------------------------------
Init ==
    /\ hour = 1 /\ changed = <<>> /\ line = {}
    /\ report = [r \in Runs |-> [k \in Kinds |-> Missing]]

\* A directory is made, or gets a new entry.
Change(r) ==
    /\ changed' = <<r>> \o SelectSeq(changed, LAMBDA q : q # r)
    /\ UNCHANGED <<hour, report, line>>

\* The tool begins a report, and ends it.
Reports == {x \in Runs \X Kinds : ~IsMissing(report[x[1]][x[2]])}
Begin(r, k) ==
    /\ r \in Range(changed) /\ IsMissing(report[r][k])
    /\ Cardinality(Reports) < MaxReports /\ \A q \in Runs : ~Unreadable(q)
    /\ report' = [report EXCEPT ![r][k] = [st |-> "partial", ok |-> "none", at |-> 0]]
    /\ UNCHANGED <<hour, changed, line>>
End(r, k, ok) ==
    /\ report[r][k].st = "partial" /\ (k = "timing" => ok = "none")
    /\ report' = [report EXCEPT ![r][k] = [st |-> "whole", ok |-> ok, at |-> hour]]
    /\ UNCHANGED <<hour, changed, line>>
Pass == hour < MaxHours /\ hour' = hour + 1 /\ UNCHANGED <<changed, report, line>>

\* A browser loads the list, and shows one of its lines from then on.
Load(k) ==
    /\ ~IndexFails /\ k \in DOMAIN RecentRuns
    /\ line' = {RecentRuns[k]}
    /\ UNCHANGED <<hour, changed, report>>

Next ==
    \/ \E r \in Runs : Change(r)
    \/ \E r \in Runs, k \in Kinds : Begin(r, k)
    \/ \E r \in Runs, k \in Kinds, ok \in Outcomes : End(r, k, ok)
    \/ Pass
    \/ \E k \in 1..MaxRecentRuns : Load(k)
Spec == Init /\ [][Next]_vars

-----------------------------------------------------------------------------
TypeOK ==
    /\ hour \in 1..MaxHours
    /\ \A r \in Runs \ Range(changed) : \A k \in Kinds : IsMissing(report[r][k])
    /\ Range(changed) \subseteq Runs /\ Len(changed) = Cardinality(Range(changed))
    /\ \A l \in line : l.id \in Range(changed)

\* Better news than before.
Improves(before, after) ==
    \/ before = "failed" /\ after # "failed"
    \/ before = "passed" /\ after = "unknown"

(* Behind a line that was loaded at any earlier time is the page of that   *)
(* run, and what came in since only adds to it: no failure is taken back,  *)
(* no verdict or row is lost, the time does not go back.  The page is      *)
(* missing only when as many other runs as the list holds have changed     *)
(* since, and an error only while the tool writes a report of this run.    *)
LineHolds ==
    \A l \in line :
        LET page == RunPage(l.id)
            newer == {q \in Runs : HasReport(q) /\ \E i, j \in DOMAIN changed :
                         i < j /\ changed[i] = q /\ changed[j] = l.id}
        IN  CASE page.status = "not found" -> Cardinality(newer) >= MaxRecentRuns
              [] page.status = "error" -> \E k \in Kinds : report[l.id][k].st = "partial"
              [] OTHER ->
                    /\ page.id = l.id /\ page.at >= l.at
                    /\ ~Improves(l.status, page.status)
                    /\ l.rows # "none" => page.rows # "none"
                    /\ l.verifier \in {"ok", "failed"} => page.verifier = l.verifier
=============================================================================
