--------------------------- MODULE PatchPipeline ---------------------------
(***************************************************************************)
(* One run of execute_pipeline (analyzer/pipeline.py): from the findings   *)
(* of the static analysis, or of the LLM audit of code without any, to     *)
(* patches that the LLM agent (agent/llm_agent.py) asks a provider with    *)
(* several API keys for, their validation (validator/), and the database.  *)
(*                                                                         *)
(* A report is known by its position in the list of reports.  Its id, made *)
(* from the rule and the line, is what patches refer to it by, and two     *)
(* reports may have the same one.  Which reports the deduplication and the *)
(* optimisation of the input select, what a model answers, and what the    *)
(* validators find, is any outcome they may have.                          *)
(***************************************************************************)
EXTENDS Integers, Sequences, FiniteSets

CONSTANTS
    Id,             \* ids of reports
    MaxReports,     \* bound of the model: reports of a run
    MaxOptions,     \* options that a model is asked for in multi mode
    NumKeys,        \* API keys of the provider
    MaxRetries      \* max_retries of the agent

ASSUME PipelineAssumption ==
    /\ MaxReports \in Nat \ {0} /\ MaxOptions \in Nat \ {0}
    /\ NumKeys \in Nat \ {0} /\ MaxRetries \in Nat

VARIABLES
    pc,             \* the stage
    opts,           \* the options of the run
    id,             \* id[r]: the id of report r
    targets,        \* reports selected for the LLM
    todo,           \* those of them that the agent has not turned to
    target,         \* the one that it works on
    mode,           \* what it asks for: one patch or several options
    attempt,        \* of max_retries + 1
    key,            \* _current_key_idx of the provider
    refused,        \* keys that were rate limited in the attempts for target
    spoilt,         \* one of these attempts failed for another reason
    patches,
    llmError,       \* pipeline_result.llm_error is set
    rows            \* rows[i]: the report that the database has patch i under

agentVars == <<todo, target, mode, attempt, key, refused, spoilt>>
vars == <<pc, opts, id, targets, agentVars, patches, llmError, rows>>

Option  == [use_llm: BOOLEAN, multi: BOOLEAN, audit: BOOLEAN, optimize: BOOLEAN]
Reports == 1..Len(id)
Key     == 0..(NumKeys - 1)

\* scan: the outcome of the security check; against: the report whose code the
\* patched code was compared with, 0 if there was no check.
Patch == [of: 1..MaxReports, blank: BOOLEAN, status: {"generated", "verified", "failed"},
          valid: BOOLEAN, scan: {"none", "clean", "new", "error"},
          against: 0..MaxReports, refused: SUBSET Key, spoilt: BOOLEAN]

Stage == {"static", "select", "audit", "generate", "call", "syntax", "security",
          "build", "save", "finish", "returned", "raised"}

TypeOK ==
    /\ pc \in Stage /\ opts \in Option
    /\ \E n \in 0..MaxReports : id \in [1..n -> Id]
    /\ targets \subseteq Reports /\ todo \subseteq targets
    /\ target \in Reports \cup {0}
    /\ mode \in {"single", "multi"}
    /\ attempt \in 0..MaxRetries
    /\ key \in Key /\ refused \subseteq Key
    /\ spoilt \in BOOLEAN /\ llmError \in BOOLEAN
    /\ \A i \in DOMAIN patches : patches[i] \in Patch /\ patches[i].of \in targets
    /\ \A i \in DOMAIN rows : rows[i] \in Reports

Init ==
    /\ pc = "static" /\ opts \in Option
    /\ id = <<>> /\ targets = {} /\ todo = {} /\ target = 0
    /\ mode = "single" /\ attempt = 0 /\ key = 0 /\ refused = {} /\ spoilt = FALSE
    /\ patches = <<>> /\ llmError = FALSE /\ rows = <<>>

-----------------------------------------------------------------------------
(* The findings, and which of them the LLM gets                            *)

\* detect_and_run: nothing keeps two findings of one rule on one line apart.
RunStaticAnalysis ==
    /\ pc = "static"
    /\ \E n \in 0..MaxReports : id' \in [1..n -> Id]
    /\ pc' = "select"
    /\ UNCHANGED <<opts, targets, agentVars, patches, llmError, rows>>

\* Representatives of the duplicates, which are some if there is a finding; the
\* optimisation may narrow them to none.
Select ==
    /\ pc = "select"
    /\ targets' \in SUBSET Reports
    /\ targets' = {} => Reports = {} \/ opts.optimize
    /\ todo' = IF opts.use_llm THEN targets' ELSE {}
    /\ pc' = CASE opts.use_llm /\ targets' # {}             -> "generate"
               [] opts.use_llm /\ opts.audit /\ id = <<>>   -> "audit"
               [] OTHER                                     -> "build"
    /\ UNCHANGED <<opts, id, target, mode, attempt, key, refused, spoilt,
                   patches, llmError, rows>>

\* _generate_clean_audit asks once; each finding gets an id of its own.
Audit ==
    /\ pc = "audit"
    /\ \/ llmError' = TRUE /\ pc' = "build" /\ UNCHANGED <<id, targets, todo>>
       \/ /\ \E n \in 0..MaxReports :
               id' \in {s \in [1..n -> Id] : \A i, j \in DOMAIN s : s[i] = s[j] => i = j}
          /\ targets' \in SUBSET DOMAIN id'
          /\ targets' = {} => id' = <<>> \/ opts.optimize
          /\ todo' = targets'
          /\ pc' = IF targets' = {} THEN "build" ELSE "generate"
          /\ UNCHANGED llmError
    /\ UNCHANGED <<opts, target, mode, attempt, key, refused, spoilt, patches, rows>>

-----------------------------------------------------------------------------
(* The agent                                                               *)

\* An attempt that begins afresh, in the mode m.
FirstAttempt(m) == mode' = m /\ attempt' = 0 /\ refused' = {} /\ spoilt' = FALSE

\* generate_patches turns to the next target.
NextTarget ==
    /\ pc = "generate"
    /\ \E t \in todo : target' = t /\ todo' = todo \ {t}
    /\ FirstAttempt(IF opts.multi THEN "multi" ELSE "single")
    /\ pc' = "call"
    /\ UNCHANGED <<opts, id, targets, key, patches, llmError, rows>>

Generated == [of |-> target, blank |-> FALSE, status |-> "generated", valid |-> FALSE,
              scan |-> "none", against |-> 0, refused |-> {}, spoilt |-> FALSE]

\* The provider answers with code, or with some of the options asked for.
Answer ==
    /\ pc = "call"
    /\ \E n \in 1..(IF mode = "multi" THEN MaxOptions ELSE 1) :
         patches' = patches \o [i \in 1..n |-> Generated]
    /\ FirstAttempt(mode)
    /\ pc' = "generate"
    /\ UNCHANGED <<opts, id, targets, todo, target, key, llmError, rows>>

\* Mutant of GiveUp: the target is passed over.
GiveUpSilently(limited, other) ==
    /\ pc' = "generate"
    /\ FirstAttempt("single")
    /\ UNCHANGED patches

\* All attempts for a single patch have failed: an empty patch says so.
GiveUp(limited, other) ==
    /\ patches' = Append(patches, [Generated EXCEPT !.blank = TRUE, !.status = "failed",
                                     !.refused = limited, !.spoilt = other])
    /\ FirstAttempt("single")
    /\ pc' = "generate"

\* An attempt has failed; `limited` and `other` say why those so far did.  The
\* last failure in multi mode falls back on generate_patch, with all attempts.
Retry(limited, other) ==
    \/ /\ attempt < MaxRetries
       /\ attempt' = attempt + 1 /\ refused' = limited /\ spoilt' = other
       /\ UNCHANGED <<pc, mode, patches>>
    \/ /\ attempt = MaxRetries /\ mode = "multi"
       /\ FirstAttempt("single")
       /\ UNCHANGED <<pc, patches>>
    \/ attempt = MaxRetries /\ mode = "single" /\ GiveUp(limited, other)

\* Mutant of RotateKey: the last key is not followed by the first.
RotateToLast == key' = IF key + 1 < NumKeys THEN key + 1 ELSE key

\* rotate_key; the only key there is stays, and the agent waits instead.
RotateKey == key' = (key + 1) % NumKeys

\* Mutant of RateLimited: an attempt that found its key limited does not count.
RateLimitedForFree ==
    /\ pc = "call"
    /\ RotateKey
    /\ refused' = refused \cup {key}
    /\ UNCHANGED <<pc, mode, attempt, spoilt, patches>>
    /\ UNCHANGED <<opts, id, targets, todo, target, llmError, rows>>

\* The provider answers 429.  The key is changed after the last attempt, too.
RateLimited ==
    /\ pc = "call"
    /\ RotateKey
    /\ Retry(refused \cup {key}, spoilt)
    /\ UNCHANGED <<opts, id, targets, todo, target, llmError, rows>>

\* The call fails otherwise, or its answer has no code in it.
NoAnswer ==
    /\ pc = "call"
    /\ Retry(refused, TRUE)
    /\ UNCHANGED <<opts, id, targets, todo, target, key, llmError, rows>>

\* An exception that the agent does not catch: there is no key or provider, or
\* the client for the next key cannot be made.  _generate_patches absorbs it,
\* and all patches are lost.
LosePatches ==
    /\ pc = "call" \/ (pc = "generate" /\ todo # {})
    /\ patches' = <<>> /\ llmError' = TRUE
    /\ todo' = {} /\ pc' = "build"
    /\ FirstAttempt("single")
    /\ UNCHANGED <<opts, id, targets, target, key, rows>>

AllAnswered ==
    /\ pc = "generate" /\ todo = {}
    /\ pc' = "syntax"
    /\ UNCHANGED <<opts, id, targets, agentVars, patches, llmError, rows>>

-----------------------------------------------------------------------------
(* Validation                                                              *)

\* SyntaxChecker.check: a blank patch is failed, as is one that does not parse.
ValidateSyntax ==
    /\ pc = "syntax"
    /\ \E bad \in SUBSET DOMAIN patches :
         patches' = [i \in DOMAIN patches |->
                       IF patches[i].blank \/ i \in bad
                       THEN [patches[i] EXCEPT !.status = "failed"]
                       ELSE [patches[i] EXCEPT !.valid = TRUE]]
    /\ pc' = "security"
    /\ UNCHANGED <<opts, id, targets, agentVars, llmError, rows>>

\* A dict of the reports by id has the last one with that id.
ByIdOf(r) == CHOOSE s \in Reports : /\ id[s] = id[r]
                                    /\ \A t \in Reports : id[t] = id[r] => t <= s

Scanned(p, outcome) ==
    [p EXCEPT !.scan = outcome, !.against = ByIdOf(p.of),
              !.status = IF outcome = "new" THEN "failed" ELSE "verified"]

\* Mutant of ValidateSecurity: failed patches are not skipped.
ValidateSecurityOfAll ==
    /\ pc = "security"
    /\ \E outcome \in [DOMAIN patches -> {"clean", "new", "error"}] :
         patches' = [i \in DOMAIN patches |->
                       IF patches[i].blank THEN patches[i]
                       ELSE Scanned(patches[i], outcome[i])]
    /\ pc' = "build"
    /\ UNCHANGED <<opts, id, targets, agentVars, llmError, rows>>

\* SecurityChecker.check of those that have not failed: a scan that cannot be
\* made counts as passed.
ValidateSecurity ==
    /\ pc = "security"
    /\ \E outcome \in [DOMAIN patches -> {"clean", "new", "error"}] :
         patches' = [i \in DOMAIN patches |->
                       IF patches[i].status = "failed" THEN patches[i]
                       ELSE Scanned(patches[i], outcome[i])]
    /\ pc' = "build"
    /\ UNCHANGED <<opts, id, targets, agentVars, llmError, rows>>

-----------------------------------------------------------------------------
(* The result                                                              *)

Build ==
    /\ pc = "build" /\ pc' = "save"
    /\ UNCHANGED <<opts, id, targets, agentVars, patches, llmError, rows>>

\* Mutant of Save: a dict that keeps the first report with an id.
SaveUnderFirst ==
    /\ pc = "save"
    /\ \/ rows' = [i \in DOMAIN patches |->
                     CHOOSE s \in Reports : /\ id[s] = id[patches[i].of]
                                            /\ \A t \in Reports : id[t] = id[s] => s <= t]
       \/ UNCHANGED rows
    /\ pc' = "finish"
    /\ UNCHANGED <<opts, id, targets, agentVars, patches, llmError>>

\* save_analysis in one transaction; _persist_to_db absorbs its failure.
Save ==
    /\ pc = "save"
    /\ \/ rows' = [i \in DOMAIN patches |-> ByIdOf(patches[i].of)]
       \/ UNCHANGED rows
    /\ pc' = "finish"
    /\ UNCHANGED <<opts, id, targets, agentVars, patches, llmError>>

Return ==
    /\ pc = "finish" /\ pc' = "returned"
    /\ UNCHANGED <<opts, id, targets, agentVars, patches, llmError, rows>>

\* on_progress, which every stage calls first, raises, or the stage does: the
\* last one after the result was saved.
Raise ==
    /\ pc \notin {"generate", "call", "save", "returned", "raised"}
    /\ pc' = "raised"
    /\ UNCHANGED <<opts, id, targets, agentVars, patches, llmError, rows>>

-----------------------------------------------------------------------------

Generate == NextTarget \/ Answer \/ RateLimited \/ NoAnswer \/ LosePatches \/ AllAnswered

Next ==
    \/ RunStaticAnalysis \/ Select \/ Audit \/ Generate
    \/ ValidateSyntax \/ ValidateSecurity \/ Build \/ Save \/ Return \/ Raise

Spec == Init /\ [][Next]_vars

\* The thread of the pipeline runs, and every call that it makes returns.  The
\* commands that it runs have timeouts; for a provider this is an assumption.
FairSpec == Spec /\ WF_vars(Next)

-----------------------------------------------------------------------------

\* No target is passed over in silence: each has a patch, be it one that says
\* that there is none, unless the error that lost all patches is reported.
AnsweredOrExplained ==
    pc \in {"syntax", "security", "build", "save", "finish", "returned"} /\ opts.use_llm =>
        IF llmError THEN patches = <<>>
        ELSE targets = {patches[i].of : i \in DOMAIN patches}

\* No patch is handed out unchecked: in a result each is verified or failed,
\* and a verified one has code that parses and was scanned, although a failed
\* one is skipped by the scan and a scan that cannot be made counts as passed.
NothingUnchecked ==
    pc \in {"build", "save", "finish", "returned"} =>
        \A i \in DOMAIN patches :
            LET p == patches[i]
            IN  \/ p.status = "failed" /\ (p.blank \/ ~p.valid \/ p.scan = "new")
                \/ p.status = "verified" /\ ~p.blank /\ p.valid /\ p.scan \in {"clean", "error"}

\* The database has all patches of a result or none, and each under the very
\* report that its scan took for the original, although both go by an id that
\* other reports may share.
StoredUnderScanned ==
    /\ rows # <<>> => DOMAIN rows = DOMAIN patches
    /\ \A i \in DOMAIN rows :
         /\ id[rows[i]] = id[patches[i].of]
         /\ patches[i].scan # "none" => rows[i] = patches[i].against

\* A target is not given up for rate limits while a key has not been tried, as
\* long as there are no more keys than attempts, and although a run begins with
\* the key that the target before it ended with.
AllKeysTried ==
    NumKeys <= MaxRetries + 1 =>
        \A i \in DOMAIN patches :
            patches[i].blank => patches[i].spoilt \/ patches[i].refused = Key

\* Every run ends, however often its keys are limited.
PipelineEnds == <>(pc \in {"returned", "raised"})

=============================================================================
