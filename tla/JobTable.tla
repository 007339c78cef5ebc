------------------------------ MODULE JobTable ------------------------------
(***************************************************************************)
(* The job table of the scheduler (internal/scheduler/scheduler.go,        *)
(* app/module/scheduler_component.go): an Engine created on first use, its *)
(* map from names to jobs, and the entries of robfig/cron behind it.       *)
(*                                                                         *)
(* cron is external: it parses a spec, which is of five fields             *)
(* ("minutes"), of six ("seconds") or malformed, and numbers its entries.  *)
(***************************************************************************)
EXTENDS Integers

VARIABLES
    location,           \* SetLocation was called
    parser,             \* the engine's parser, or "none" before there is an engine
    panicOnAnyAddError,
    jobInfo,            \* jobInfo[name]: the id of the job added under the name
    entries,            \* the ids cron runs
    lastID              \* the id cron gave last

jobVars == <<location, parser, panicOnAnyAddError, jobInfo, entries, lastID>>

InitJobs ==
    /\ location = FALSE /\ parser = "none" /\ panicOnAnyAddError = FALSE
    /\ jobInfo = << >> /\ entries = {} /\ lastID = 0

\* New: the option for the location replaces the one for the parser.
New(located) == IF located THEN "standard" ELSE "secondOptional"

ensureEngine == IF parser = "none" THEN New(location) ELSE parser

\* Every parser reads five fields, and only the optional one a sixth.
parses(spec) ==
    spec = "minutes" \/ (spec = "seconds" /\ ensureEngine = "secondOptional")

SetLocation ==
    /\ location' = TRUE
    /\ UNCHANGED <<parser, panicOnAnyAddError, jobInfo, entries, lastID>>

SetPanicOnAnyAddError ==
    /\ parser' = ensureEngine
    /\ panicOnAnyAddError' = TRUE
    /\ UNCHANGED <<location, jobInfo, entries, lastID>>

\* AddFuncWithName panics ...
addPanics(spec, action) ==
    action \in DOMAIN jobInfo \/ (~parses(spec) /\ panicOnAnyAddError)

\* ... or adds the job, unless cron refuses the spec and the error is returned.
AddFuncWithName(spec, action) ==
    /\ parser' = ensureEngine
    /\ IF parses(spec)
       THEN /\ lastID' = lastID + 1
            /\ entries' = entries \cup {lastID + 1}
            /\ jobInfo' = [a \in DOMAIN jobInfo \cup {action} |->
                              IF a = action THEN lastID + 1 ELSE jobInfo[a]]
       ELSE UNCHANGED <<jobInfo, entries, lastID>>
    /\ UNCHANGED <<location, panicOnAnyAddError>>

\* Remove, given the id AddFuncWithName returned, which is 0 after an error: the
\* entry goes, and the name stays in jobInfo.
RemoveJob(action) ==
    /\ parser' = ensureEngine
    /\ entries' = IF action \in DOMAIN jobInfo THEN entries \ {jobInfo[action]} ELSE entries
    /\ UNCHANGED <<location, panicOnAnyAddError, jobInfo, lastID>>

\* JobsInfo lists the names of the table; only those with an entry run.
Runs(action) == action \in DOMAIN jobInfo /\ jobInfo[action] \in entries
=============================================================================
