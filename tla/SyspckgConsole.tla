--------------------------- MODULE SyspckgConsole ---------------------------
(***************************************************************************)
(* One syspckg command and its terminal (tools/syspckg/main.cpp): the      *)
(* thread that runs the command, the thread of a spinner that redraws a    *)
(* status line, and the thread in which libdnf5 loads metadata and logs.   *)
(*                                                                         *)
(* Log lines and the status line share the terminal under console_mutex;   *)
(* the tables, the question and the error details of the command are       *)
(* printed without it. A MetadataActivity belongs to prepare_base, but the *)
(* logger and the download callbacks, which outlive it, keep pointers to   *)
(* it. What is under state_mutex_ is one step: everything it guards is     *)
(* touched under it only. Texts, byte counts and times are left out.       *)
(***************************************************************************)
EXTENDS Integers, Sequences, FiniteSetsExt

CONSTANTS
    Repos,              \* enabled repositories
    Planned,            \* metadata items planned for every repository
    Loads,              \* sequences of items libdnf5 may load for a repository
    MaxTransfers,       \* bound: transfers per repository
    MaxArchives,        \* bound: archives, and RPM callbacks, of a transaction
    MAX_MIRROR_TRIES

ASSUME ConsoleAssumption ==
    /\ IsFiniteSet(Repos) /\ Repos # {}
    /\ IsFiniteSet(Planned)
    /\ \A l \in Loads : l \in Seq(STRING) /\ l # <<>>
    /\ MaxTransfers \in Nat /\ MaxArchives \in Nat
    /\ MAX_MIRROR_TRIES \in Nat \ {0}

Items == Planned \cup UNION {{l[k] : k \in DOMAIN l} : l \in Loads}

Free == "free"

\* Places of the command; "acquire" and "write" are a call that prints.
Steps == {"create", "lock", "load", "ended", "count", "finish", "unset",
          "exchange", "join", "report", "leave", "thrown", "resolve", "resolving",
          "resolved", "print", "archive", "transfer", "retry", "arrived", "rpm",
          "callbacks", "finished", "error", "details", "done", "acquire", "write"}

VARIABLES
    tty,                    \* interactive_terminal()
    terminal,               \* the line of the cursor: "clean", "status" or
                            \* "garbled", text written behind a status line
    status_line_active,
    console_mutex,          \* the thread that holds it, or Free
    pc, call,               \* the command, and the printing call it makes
    left, attempt,          \* archives or callbacks to come; DownloadState
    activity,               \* what the latest spinner object is: "none" when
                            \* it is destroyed, "metadata" or "spinner"
    running_, worker,       \* of that object: the flag and the thread
    shown,                  \* the worker's copy of the progress
    logger,                 \* metadata_activity_ of the logger is set
    loader, loading,        \* libdnf5's thread; the repository and its items
    transfers,              \* transfers of each repository so far
    course,                 \* what libdnf5 has done with each repository
    ended,                  \* the transfer whose end callback runs
    successful,             \* Result: repositories with a successful transfer
    finished, failed,       \* RepoProgress
    completed_,
    plans_, processing_total_, processed_items_, processed_per_repo_,
    misused                 \* history: a destroyed object was used

screen   == <<terminal, status_line_active, console_mutex>>
main     == <<pc, call>>
package  == <<left, attempt>>
spinner  == <<running_, worker, shown>>
external == <<loader, loading, transfers, course, ended>>
repos    == <<successful, finished, failed, completed_>>
progress == <<plans_, processing_total_, processed_items_, processed_per_repo_>>
vars     == <<tty, screen, main, package, activity, spinner, logger, external,
              repos, progress, misused>>

TypeOK ==
    /\ tty \in BOOLEAN
    /\ terminal \in {"clean", "status", "garbled"}
    /\ status_line_active \in BOOLEAN
    /\ console_mutex \in {Free, "main", "worker", "loader"}
    /\ pc \in Steps
    /\ call \in [what : {"log", "draw", "clear"}, next : Steps]
    /\ left \in 0..MaxArchives /\ attempt \in 1..MAX_MIRROR_TRIES
    /\ activity \in {"none", "metadata", "spinner"}
    /\ running_ \in BOOLEAN
    /\ worker \in {"none", "check", "look", "acquire", "draw", "returned"}
    /\ shown \in [processed : Nat, total : Nat]
    /\ logger \in BOOLEAN
    /\ loader \in {"none", "idle", "item", "acquire", "write"}
    /\ loading \in [repo : Repos, items : Seq(Items)]
    /\ transfers \in [Repos -> 0..MaxTransfers]
    /\ course \in [Repos -> {"waiting", "fetched", "loaded", "dropped"}]
    /\ ended \in [repo : Repos, success : BOOLEAN]
    /\ successful \subseteq Repos
    /\ failed \subseteq finished /\ finished \subseteq Repos
    /\ completed_ \in Nat
    /\ plans_ \in [Repos -> SUBSET Items]
    /\ processing_total_ \in Nat
    /\ processed_items_ \subseteq Repos \X Items
    /\ processed_per_repo_ \in [Repos -> Nat]
    /\ misused \in BOOLEAN

-----------------------------------------------------------------------------
(* The terminal. Only the holder of console_mutex calls the first three.   *)

clear_status_line_locked ==
    IF status_line_active /\ tty
    THEN terminal' = "clean" /\ status_line_active' = FALSE
    ELSE UNCHANGED <<terminal, status_line_active>>

\* Text behind a status line garbles it; a line ends with a line feed.
Garble(line) == IF line = "clean" THEN "clean" ELSE "garbled"

\* Faulty variant of log_line: the line goes behind the status line.
LogUncleared ==
    terminal' = Garble(terminal) /\ UNCHANGED status_line_active

log_line ==
    IF status_line_active /\ tty
    THEN terminal' = "clean" /\ status_line_active' = FALSE
    ELSE terminal' = Garble(terminal) /\ UNCHANGED status_line_active

\* The old status line is erased; nothing is drawn when not on a terminal.
render_status_line ==
    IF tty THEN terminal' = "status" /\ status_line_active' = TRUE
           ELSE UNCHANGED <<terminal, status_line_active>>

Goto(label) == pc' = label /\ UNCHANGED call

\* The command calls log_line or render_status_line and goes on with next.
PrintThen(what, next) == pc' = "acquire" /\ call' = [what |-> what, next |-> next]

\* std::lock_guard of the command.
Acquire ==
    /\ pc = "acquire" /\ console_mutex = Free
    /\ console_mutex' = "main"
    /\ Goto("write")
    /\ UNCHANGED <<tty, terminal, status_line_active, package, activity, spinner,
                   logger, external, repos, progress, misused>>

Write ==
    /\ pc = "write"
    /\ CASE call.what = "log"   -> log_line
         [] call.what = "draw"  -> render_status_line
         [] call.what = "clear" -> clear_status_line_locked
    /\ console_mutex' = Free
    /\ Goto(call.next)
    /\ UNCHANGED <<tty, package, activity, spinner, logger, external, repos,
                   progress, misused>>

-----------------------------------------------------------------------------
(* The spinner objects and their thread.                                   *)

\* The constructors start the thread on a terminal and log otherwise.
Construct(kind, next) ==
    /\ activity' = kind
    /\ running_' = tty
    /\ worker' = IF tty THEN "check" ELSE "none"
    /\ UNCHANGED shown
    /\ IF tty THEN Goto(next) ELSE PrintThen("log", next)

\* The command calls stop(), or a destructor does, and goes on with next.
Stop(next) == pc' = "exchange" /\ call' = [what |-> "clear", next |-> next]

\* Faulty variant of Exchange: the flag of the thread stays set.
ExchangeKept ==
    /\ pc = "exchange"
    /\ Goto(IF running_ THEN "join" ELSE call.next)
    /\ UNCHANGED <<tty, screen, package, activity, spinner, logger, external,
                   repos, progress, misused>>

\* if (!running_.exchange(false)) return;
Exchange ==
    /\ pc = "exchange"
    /\ running_' = FALSE
    /\ Goto(IF running_ THEN "join" ELSE call.next)
    /\ UNCHANGED <<tty, screen, package, activity, worker, shown, logger, external,
                   repos, progress, misused>>

\* The status line is cleared after the thread has returned.
Join ==
    /\ pc = "join" /\ worker = "returned"
    /\ worker' = "none"
    /\ Goto("acquire")
    /\ UNCHANGED <<tty, screen, package, activity, running_, shown, logger,
                   external, repos, progress, misused>>

\* The thread uses the object it was started by.
OfObject == misused' = (misused \/ activity = "none")

Loop ==
    /\ worker = "check"
    /\ worker' = CASE ~running_ -> "returned"
                   [] running_ /\ activity = "metadata" -> "look"
                   [] OTHER -> "acquire"
    /\ OfObject
    /\ UNCHANGED <<tty, screen, main, package, activity, running_, shown, logger,
                   external, repos, progress>>

\* The progress is copied under state_mutex_.
Look ==
    /\ worker = "look"
    /\ shown' = [processed |-> Cardinality(processed_items_),
                 total |-> processing_total_]
    /\ worker' = "acquire"
    /\ OfObject
    /\ UNCHANGED <<tty, screen, main, package, activity, running_, logger, external,
                   repos, progress>>

WorkerAcquire ==
    /\ worker = "acquire" /\ console_mutex = Free
    /\ console_mutex' = "worker"
    /\ worker' = "draw"
    /\ UNCHANGED <<tty, terminal, status_line_active, main, package, activity,
                   running_, shown, logger, external, repos, progress, misused>>

WorkerDraw ==
    /\ worker = "draw"
    /\ render_status_line
    /\ console_mutex' = Free
    /\ worker' = "check"
    /\ UNCHANGED <<tty, main, package, activity, running_, shown, logger, external,
                   repos, progress, misused>>

-----------------------------------------------------------------------------
(* prepare_base: the repositories.                                         *)

\* recalculate_processing_total_locked
Total(plans, without) ==
    MapThenSumSet(LAMBDA r : Cardinality(plans[r]), Repos \ without)

\* The activity is constructed; the logger and the callbacks get pointers.
Create ==
    /\ pc = "create"
    /\ Construct("metadata", "lock")
    /\ logger' = TRUE
    /\ UNCHANGED <<tty, screen, package, external, repos, progress, misused>>

LockSystemRepo ==
    /\ pc = "lock"
    /\ loader' = "idle"
    /\ Goto("load")
    /\ UNCHANGED <<tty, screen, package, activity, spinner, logger, loading,
                   transfers, course, ended, repos, progress, misused>>

\* Faulty variant of LockFails: the exception passes a running thread.
LockFailsRunning ==
    /\ pc = "lock"
    /\ Goto("thrown")
    /\ UNCHANGED <<tty, screen, package, activity, spinner, logger, external,
                   repos, progress, misused>>

\* The lock throws: the destructor stops the thread; the logger's pointer stays.
LockFails ==
    /\ pc = "lock"
    /\ Stop("thrown")
    /\ UNCHANGED <<tty, screen, package, activity, spinner, logger, external,
                   repos, progress, misused>>

\* add_new_download and mirror_failure for metadata: lines in the log.
QueueMetadata(r) ==
    /\ pc = "load" /\ course[r] = "waiting" /\ transfers[r] < MaxTransfers
    /\ transfers' = [transfers EXCEPT ![r] = @ + 1]
    /\ \E ok \in BOOLEAN : ended' = [repo |-> r, success |-> ok]
    /\ PrintThen("log", "ended")
    /\ UNCHANGED <<tty, screen, package, activity, spinner, logger, loader, loading,
                   course, repos, progress, misused>>

\* libdnf5 gives a repository up after a failed transfer (skip_if_unavailable).
Ended ==
    course' = IF ended.success THEN course
              ELSE [course EXCEPT ![ended.repo] = "dropped"]

\* DownloadState.repository_metadata: only these downloads use the activity.
repository_metadata(kind) == kind = "REPOSITORY"

\* A callback that uses the activity for downloads of a kind.
Callback(kind) ==
    misused' = (misused \/ (repository_metadata(kind) /\ activity # "metadata"))

\* end and repository_finished: the first transfer of a repository decides.
repository_finished ==
    /\ pc = "ended"
    /\ Ended /\ Callback("REPOSITORY")
    /\ successful' = IF ended.success THEN successful \cup {ended.repo}
                                      ELSE successful
    /\ IF ended.repo \notin finished
       THEN /\ finished' = finished \cup {ended.repo}
            /\ failed' = IF ended.success THEN failed ELSE failed \cup {ended.repo}
            /\ processing_total_' = Total(plans_, failed')
            /\ Goto("count")
       ELSE /\ UNCHANGED <<finished, failed, processing_total_>>
            /\ IF ended.success THEN Goto("load") ELSE PrintThen("log", "load")
    /\ UNCHANGED <<tty, screen, package, activity, spinner, logger, loader, loading,
                   transfers, ended, completed_, plans_, processed_items_,
                   processed_per_repo_>>

\* ++completed_, outside the mutex; a failure is logged.
Count ==
    /\ pc = "count"
    /\ completed_' = completed_ + 1
    /\ IF ended.success /\ tty THEN Goto("load") ELSE PrintThen("log", "load")
    /\ UNCHANGED <<tty, screen, package, activity, spinner, logger, external,
                   successful, finished, failed, progress, misused>>

\* libdnf5 has the metadata, after successful transfers or in its cache.
Fetched(r) ==
    /\ pc = "load" /\ course[r] = "waiting"
    /\ course' = [course EXCEPT ![r] = "fetched"]
    /\ UNCHANGED <<tty, screen, main, package, activity, spinner, logger, loader,
                   loading, transfers, ended, repos, progress, misused>>

-----------------------------------------------------------------------------
(* libdnf5's loader thread and the logger.                                 *)

TakeRepo(r) ==
    /\ loader = "idle" /\ course[r] = "fetched"
    /\ \E l \in Loads : loading' = [repo |-> r, items |-> l]
    /\ loader' = "item"
    /\ UNCHANGED <<tty, screen, main, package, activity, spinner, logger, transfers,
                   course, ended, repos, progress, misused>>

\* Faulty variant of processing_item: an item that was not planned does not
\* change the total.
ItemUnplanned ==
    LET r == loading.repo  item == Head(loading.items) IN
    /\ loader = "item" /\ loading.items # <<>> /\ logger
    /\ misused' = (misused \/ activity # "metadata")
    /\ plans_' = [plans_ EXCEPT ![r] = @ \cup {item}]
    /\ processed_items_' = processed_items_ \cup {<<r, item>>}
    /\ IF <<r, item>> \in processed_items_
       THEN loader' = "item" /\ UNCHANGED processed_per_repo_
       ELSE /\ loader' = "acquire"
            /\ processed_per_repo_' = [processed_per_repo_ EXCEPT ![r] = @ + 1]
    /\ loading' = [loading EXCEPT !.items = Tail(@)]
    /\ UNCHANGED <<tty, screen, main, package, activity, spinner, logger, transfers,
                   course, ended, repos, processing_total_>>

\* The logger recognises the message and calls processing_item; an item seen
\* for the first time is logged.
processing_item ==
    LET r == loading.repo  item == Head(loading.items) IN
    /\ loader = "item" /\ loading.items # <<>> /\ logger
    /\ misused' = (misused \/ activity # "metadata")
    /\ plans_' = [plans_ EXCEPT ![r] = @ \cup {item}]
    /\ processing_total_' = IF item \in plans_[r] THEN processing_total_
                            ELSE Total(plans_', failed)
    /\ processed_items_' = processed_items_ \cup {<<r, item>>}
    /\ IF <<r, item>> \in processed_items_
       THEN loader' = "item" /\ UNCHANGED processed_per_repo_
       ELSE /\ loader' = "acquire"
            /\ processed_per_repo_' = [processed_per_repo_ EXCEPT ![r] = @ + 1]
    /\ loading' = [loading EXCEPT !.items = Tail(@)]
    /\ UNCHANGED <<tty, screen, main, package, activity, spinner, logger, transfers,
                   course, ended, repos>>

LoaderAcquire ==
    /\ loader = "acquire" /\ console_mutex = Free
    /\ console_mutex' = "loader"
    /\ loader' = "write"
    /\ UNCHANGED <<tty, terminal, status_line_active, main, package, activity,
                   spinner, logger, loading, transfers, course, ended, repos,
                   progress, misused>>

LoaderWrite ==
    /\ loader = "write"
    /\ log_line
    /\ console_mutex' = Free
    /\ loader' = "item"
    /\ UNCHANGED <<tty, main, package, activity, spinner, logger, loading, transfers,
                   course, ended, repos, progress, misused>>

RepoLoaded ==
    /\ loader = "item" /\ loading.items = <<>>
    /\ course' = [course EXCEPT ![loading.repo] = "loaded"]
    /\ loader' = "idle"
    /\ UNCHANGED <<tty, screen, main, package, activity, spinner, logger, loading,
                   transfers, ended, repos, progress, misused>>

-----------------------------------------------------------------------------
(* prepare_base: the rest. load_repos joins the loader before it returns.  *)

LoadRepos ==
    /\ pc = "load" /\ loader = "idle"
    /\ \A r \in Repos : course[r] \in {"loaded", "dropped"}
    /\ loader' = "none"
    /\ Goto("finish")
    /\ UNCHANGED <<tty, screen, package, activity, spinner, logger, loading,
                   transfers, course, ended, repos, progress, misused>>

\* catch (...): the pointer is taken back and the thread stopped.
LoadFails ==
    /\ pc = "load" /\ loader = "idle"
    /\ loader' = "none"
    /\ logger' = FALSE
    /\ Stop("thrown")
    /\ UNCHANGED <<tty, screen, package, activity, spinner, loading, transfers,
                   course, ended, repos, progress, misused>>

\* Everything planned for a repository that did not fail counts as processed.
finish_processing ==
    /\ pc = "finish"
    /\ processed_items_' = processed_items_ \cup
            {i \in Repos \X Items : i[1] \notin failed /\ i[2] \in plans_[i[1]]}
    /\ processed_per_repo_' = [r \in Repos |->
            IF r \in failed THEN processed_per_repo_[r] ELSE Cardinality(plans_[r])]
    /\ Goto("unset")
    /\ UNCHANGED <<tty, screen, package, activity, spinner, logger, external, repos,
                   plans_, processing_total_, misused>>

Unset ==
    /\ pc = "unset"
    /\ logger' = FALSE
    /\ Stop("report")
    /\ UNCHANGED <<tty, screen, package, activity, spinner, external, repos,
                   progress, misused>>

\* A repository without any transfer is usable when its packages are visible.
Report ==
    /\ pc = "report"
    /\ \E visible \in SUBSET {r \in Repos : transfers[r] = 0} :
        PrintThen("log", IF successful \cup visible = {} THEN "thrown" ELSE "leave")
    /\ UNCHANGED <<tty, screen, package, activity, spinner, logger, external, repos,
                   progress, misused>>

\* prepare_base returns or throws: the activity is destroyed. main logs what
\* was thrown.
Leave ==
    /\ pc \in {"leave", "thrown"}
    /\ activity' = "none"
    /\ IF pc = "leave" THEN Goto("resolve") ELSE PrintThen("log", "done")
    /\ UNCHANGED <<tty, screen, package, spinner, logger, external, repos, progress,
                   misused>>

-----------------------------------------------------------------------------
(* run_goal: resolving, the downloads and the RPM transaction.             *)

Resolve ==
    /\ pc = "resolve"
    /\ Construct("spinner", "resolving")
    /\ UNCHANGED <<tty, screen, package, logger, external, repos, progress, misused>>

\* goal.resolve() returns or throws; the spinner is stopped in both cases.
Resolving ==
    /\ pc = "resolving"
    /\ \E next \in {"resolved", "thrown"} : Stop(next)
    /\ UNCHANGED <<tty, screen, package, activity, spinner, logger, external, repos,
                   progress, misused>>

\* The problems are fatal or there is nothing to do, or the command goes on.
Resolved ==
    /\ pc = "resolved"
    /\ \E next \in {"print", "done"} : PrintThen("log", next)
    /\ UNCHANGED <<tty, screen, package, activity, spinner, logger, external, repos,
                   progress, misused>>

\* print_transaction and the question, without console_mutex; the answer.
PrintTransaction ==
    /\ pc = "print"
    /\ terminal' = Garble(terminal)
    /\ \/ PrintThen("log", "done") /\ UNCHANGED left
       \/ PrintThen("log", "archive") /\ left' \in 0..MaxArchives
    /\ UNCHANGED <<tty, status_line_active, console_mutex, attempt, activity, spinner,
                   logger, external, repos, progress, misused>>

\* A progress line: drawn on a terminal, logged otherwise.
Draw(next) == PrintThen(IF tty THEN "draw" ELSE "log", next)

\* add_new_download for an archive.
StartArchive ==
    /\ pc = "archive" /\ left > 0
    /\ left' = left - 1
    /\ attempt' = 1
    /\ Draw("transfer")
    /\ UNCHANGED <<tty, screen, activity, spinner, logger, external, repos, progress,
                   misused>>

\* end for an archive: it is there or cached, or it failed.
EndArchive ==
    /\ pc = "transfer"
    /\ Callback("PACKAGE")
    /\ \/ IF tty THEN PrintThen("draw", "arrived") ELSE PrintThen("log", "archive")
       \/ PrintThen("log", "archive")
    /\ UNCHANGED <<tty, screen, package, activity, spinner, logger, external, repos,
                   progress>>

Arrived ==
    /\ pc = "arrived"
    /\ PrintThen("log", "archive")
    /\ UNCHANGED <<tty, screen, package, activity, spinner, logger, external, repos,
                   progress, misused>>

\* mirror_failure logs and starts the next attempt; librepo gives up after
\* MAX_MIRROR_TRIES of them.
mirror_failure ==
    /\ pc = "transfer"
    /\ PrintThen("log", IF attempt < MAX_MIRROR_TRIES THEN "retry" ELSE "arrived")
    /\ UNCHANGED <<tty, screen, package, activity, spinner, logger, external, repos,
                   progress, misused>>

Retry ==
    /\ pc = "retry"
    /\ attempt' = attempt + 1
    /\ Draw("transfer")
    /\ UNCHANGED <<tty, screen, left, activity, spinner, logger, external, repos,
                   progress, misused>>

\* The downloads have ended: all archives are there, some are missing, or the
\* downloader threw.
Downloaded ==
    /\ pc = "archive" /\ left = 0
    /\ \/ \E next \in {"rpm", "done"} : PrintThen("log", next)
       \/ Goto("error")
    /\ UNCHANGED <<tty, screen, package, activity, spinner, logger, external, repos,
                   progress, misused>>

RunTransaction ==
    /\ pc = "rpm"
    /\ left' \in 0..MaxArchives
    /\ Construct("spinner", "callbacks")
    /\ UNCHANGED <<tty, screen, attempt, logger, external, repos, progress, misused>>

\* SyspckgTransactionCallbacks log while the spinner draws.
TransactionCallback ==
    /\ pc = "callbacks" /\ left > 0
    /\ left' = left - 1
    /\ PrintThen("log", "callbacks")
    /\ UNCHANGED <<tty, screen, attempt, activity, spinner, logger, external, repos,
                   progress, misused>>

\* transaction.run() returns, or throws past the spinner's destructor.
TransactionEnds ==
    /\ pc = "callbacks" /\ left = 0
    /\ \E next \in {"finished", "error"} : Stop(next)
    /\ UNCHANGED <<tty, screen, package, activity, spinner, logger, external, repos,
                   progress, misused>>

\* The result is logged; a failed transaction prints its problems.
Finished ==
    /\ pc \in {"finished", "error"}
    /\ activity' = "none"
    /\ \E next \in {"details", "done"} :
        (pc = "error" => next = "details") /\ PrintThen("log", next)
    /\ UNCHANGED <<tty, screen, package, spinner, logger, external, repos, progress,
                   misused>>

\* print_rpm_failure_details and the like, without console_mutex.
Details ==
    /\ pc = "details"
    /\ terminal' = Garble(terminal)
    /\ Goto("done")
    /\ UNCHANGED <<tty, status_line_active, console_mutex, package, activity, spinner,
                   logger, external, repos, progress, misused>>

-----------------------------------------------------------------------------
Init ==
    /\ tty \in BOOLEAN
    /\ terminal = "clean" /\ status_line_active = FALSE /\ console_mutex = Free
    /\ pc = "create" /\ call = [what |-> "log", next |-> "create"]
    /\ left = 0 /\ attempt = 1
    /\ activity = "none" /\ running_ = FALSE /\ worker = "none"
    /\ shown = [processed |-> 0, total |-> 0]
    /\ logger = FALSE
    /\ loader = "none"
    /\ \E r \in Repos : /\ loading = [repo |-> r, items |-> <<>>]
                        /\ ended = [repo |-> r, success |-> TRUE]
    /\ transfers = [r \in Repos |-> 0]
    /\ course = [r \in Repos |-> "waiting"]
    /\ successful = {} /\ finished = {} /\ failed = {} /\ completed_ = 0
    /\ plans_ = [r \in Repos |-> Planned]
    /\ processing_total_ = Total(plans_, {})
    /\ processed_items_ = {}
    /\ processed_per_repo_ = [r \in Repos |-> 0]
    /\ misused = FALSE

\* The thread of the command.
Command ==
    \/ Acquire \/ Write \/ Exchange \/ Join
    \/ Create \/ LockSystemRepo \/ LockFails
    \/ (\E r \in Repos : QueueMetadata(r) \/ Fetched(r))
    \/ repository_finished \/ Count
    \/ LoadRepos \/ LoadFails \/ finish_processing \/ Unset \/ Report \/ Leave
    \/ Resolve \/ Resolving \/ Resolved \/ PrintTransaction
    \/ StartArchive \/ EndArchive \/ Arrived \/ mirror_failure \/ Retry \/ Downloaded
    \/ RunTransaction \/ TransactionCallback \/ TransactionEnds
    \/ Finished \/ Details

\* The thread of a spinner.
Spinner == Loop \/ Look \/ WorkerAcquire \/ WorkerDraw

\* The loader thread of libdnf5.
Loader ==
    \/ (\E r \in Repos : TakeRepo(r))
    \/ processing_item \/ LoaderAcquire \/ LoaderWrite \/ RepoLoaded

Done == pc = "done" /\ UNCHANGED vars

Next == Command \/ Spinner \/ Loader \/ Done

Spec == Init /\ [][Next]_vars

\* The scheduler runs every thread that can run, and a thread that waits for
\* console_mutex again and again gets it.
FairSpec ==
    /\ Spec
    /\ WF_vars(Command) /\ WF_vars(Spinner) /\ WF_vars(Loader)
    /\ SF_vars(Acquire) /\ SF_vars(WorkerAcquire) /\ SF_vars(LoaderAcquire)

-----------------------------------------------------------------------------
(* Properties.                                                             *)

\* Nothing the command or libdnf5's thread prints lands behind a status line:
\* lines under console_mutex clear it, and the text printed without the mutex
\* comes when every spinner thread has been joined and its line erased.
NotGarbled == terminal # "garbled"

\* No thread, callback or logger uses a MetadataActivity or a spinner after
\* its destruction, on the paths of the exceptions too, although the logger
\* and the callbacks outlive it.
NoDangling == ~misused

\* The progress that is drawn never exceeds its total, and the counters of the
\* repositories agree with the set of processed items, whichever thread came
\* first: the one that reports transfers or the one that loads. A repository is
\* counted once, however many transfers it takes: this count is drawn without
\* a clamp.
ProgressConsistent ==
    /\ Cardinality(processed_items_) <= processing_total_
    /\ shown.processed <= shown.total
    /\ \A r \in Repos :
        processed_per_repo_[r] = Cardinality({i \in processed_items_ : i[1] = r})
    /\ completed_ <= Cardinality(Repos)

\* Every command ends: stop() never waits for a thread that waits for the
\* command, and the mutex never stays taken.
CommandEnds == <>(pc = "done")

=============================================================================
