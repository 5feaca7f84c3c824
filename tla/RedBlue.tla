------------------------------ MODULE RedBlue ------------------------------
(***************************************************************************)
(* The red and blue report (shared/red_blue.py, red_blue_view.py) on the   *)
(* result of a run of the pipeline.  It is computed when it is asked for,  *)
(* from the result file or from the database, which keeps the status of a  *)
(* patch and not what the security scan said of it.                        *)
(***************************************************************************)
EXTENDS PatchPipeline

CONSTANT
    MaxRemoved      \* bound of the model: findings that a scan misses of the original

ASSUME RedBlueAssumption == MaxRemoved \in Nat \ {0}

Finished == pc \in {"finish", "returned"}

\* A patch as the file has it.  An empty dict stands for no scan.
FromFile(p) ==
    [id |-> id[p.of], status |-> p.status, code |-> ~p.blank, scanned |-> p.scan # "none",
     passed |-> p.scan \in {"clean", "error"}, introduced |-> p.scan = "new"]

\* The same patch as _patch_to_dict has it.
FromDatabase(p) ==
    [FromFile(p) EXCEPT !.scanned = FALSE, !.passed = FALSE, !.introduced = FALSE]

\* Mutant of DefenseOutcome: the status is not looked at.
OutcomeOfScan(d) ==
    IF d.passed THEN "validated_defense"
    ELSE IF d.introduced THEN "needs_review"
    ELSE IF d.code THEN "drafted_defense" ELSE "not_generated"

DefenseOutcome(d) ==
    IF d.passed \/ d.status = "verified" THEN "validated_defense"
    ELSE IF d.status = "failed" \/ d.introduced THEN "needs_review"
    ELSE IF d.code THEN "drafted_defense" ELSE "not_generated"

DefenseStatus(outcome) ==
    CASE outcome = "validated_defense" -> "BLOCKED"
      [] outcome = "drafted_defense"   -> "MITIGATING"
      [] outcome = "needs_review"      -> "REVIEW"
      [] OTHER                         -> "OPEN"

ResidualRisk(d) ==
    IF DefenseOutcome(d) = "validated_defense" THEN "low"
    ELSE IF d.introduced THEN "high"
    ELSE IF DefenseOutcome(d) = "drafted_defense" THEN "medium" ELSE "unknown"

BestPriority == <<"validated_defense", "drafted_defense", "needs_review", "not_generated">>

\* Mutant of BestOutcome: the worst.
WorstOutcome(ds) == BestPriority[CHOOSE k \in 1..4 :
    /\ \E d \in ds : DefenseOutcome(d) = BestPriority[k]
    /\ \A d \in ds : \E j \in 1..k : DefenseOutcome(d) = BestPriority[j]]

BestOutcome(ds) == BestPriority[CHOOSE k \in 1..4 :
    /\ \E d \in ds : DefenseOutcome(d) = BestPriority[k]
    /\ \A d \in ds : \E j \in k..4 : DefenseOutcome(d) = BestPriority[j]]

\* The row of build_attack_paths for report r: patches are looked up by its id.
RowStatus(r, ds) ==
    LET related == {d \in ds : d.id = id[r]}
    IN  IF related = {} THEN "OPEN" ELSE DefenseStatus(BestOutcome(related))

\* removed_count of the patches: how many fewer findings the scan of each has than
\* that of the original.  It goes into the report and nowhere else; a scan that
\* could not be made has none.
RemovedCounts ==
    {c \in [DOMAIN patches -> 0..MaxRemoved] :
        \A i \in DOMAIN patches : patches[i].scan \in {"none", "error"} => c[i] = 0}

\* Mutant of CountsFor: a patch with a scan counts by the scan alone.
CountsAsScanned(d, n) ==
    IF d.scanned THEN n ELSE IF DefenseOutcome(d) = "validated_defense" THEN 1 ELSE 0

\* What a patch adds to fixed_count: with a scan what that removed, be the patch
\* failed or not, and at least one if it passed; without one, what its outcome is.
CountsFor(d, n) ==
    IF d.scanned
    THEN IF d.passed /\ n = 0 /\ d.code THEN 1 ELSE n
    ELSE IF DefenseOutcome(d) = "validated_defense" THEN 1 ELSE 0

\* The sum, as the number of pairs of a patch and a finding that it counts for.
Removals(ds, c) ==
    {x \in (DOMAIN ds) \X (1..MaxRemoved) : x[2] <= CountsFor(ds[x[1]], c[x[1]])}

\* fixed_count of build_defense_comparison, which is clamped to before_total.
FixedCount(ds, c) ==
    LET n == Cardinality(Removals(ds, c))
    IN  IF n < Len(id) THEN n ELSE Len(id)

FileView     == [i \in DOMAIN patches |-> FromFile(patches[i])]
DatabaseView == [i \in DOMAIN rows |-> FromDatabase(patches[i])]
Members(view) == {view[i] : i \in DOMAIN view}
Blocked(view) == {r \in Reports : RowStatus(r, Members(view)) = "BLOCKED"}

-----------------------------------------------------------------------------

\* The report of the file and that of the database, which does not have the
\* scans, say the same of every patch and of every finding.  They differ in what
\* risk is left after a patch that brought in new findings, and the file may have
\* more findings fixed, never fewer.
ViewsAgree ==
    Finished /\ DOMAIN rows = DOMAIN patches =>
        /\ \A i \in DOMAIN patches :
             /\ DefenseOutcome(FileView[i]) = DefenseOutcome(DatabaseView[i])
             /\ ResidualRisk(FileView[i]) # ResidualRisk(DatabaseView[i]) => patches[i].scan = "new"
        /\ \A r \in Reports : RowStatus(r, Members(FileView)) = RowStatus(r, Members(DatabaseView))
        /\ \A c \in RemovedCounts : FixedCount(DatabaseView, c) <= FixedCount(FileView, c)

\* A finding is called blocked exactly if one of the patches under its id has been
\* verified, however many others failed, and open exactly if nobody has answered
\* it.  The ids of the blocked ones are never more than what the same report calls
\* fixed, although that is a sum over the scans of all patches, in which a finding
\* may count several times and a patch that failed counts too.
BlockedIsVerified ==
    Finished =>
        /\ \A r \in Reports :
             LET own == {i \in DOMAIN patches : id[patches[i].of] = id[r]}
                 row == RowStatus(r, Members(FileView))
             IN  /\ row = "BLOCKED" <=> \E i \in own : patches[i].status = "verified"
                 /\ row = "OPEN" <=> own = {}
        /\ \A c \in RemovedCounts :
             Cardinality({id[r] : r \in Blocked(FileView)}) <= FixedCount(FileView, c)

=============================================================================
