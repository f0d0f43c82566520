----------------------------- MODULE SourceSync ------------------------------
(***************************************************************************)
(* Reading the event source of one store (backend/app/operations:          *)
(* scheduling.py, jobs.py and the cursor part of repository.ingest).       *)
(*                                                                         *)
(* At most one sync_events job of a store is open.  A sync asked for while *)
(* it waits is merged into it; one asked for while it runs is remembered   *)
(* in SourceSchedule.rerun_requested and queued when the running one is    *)
(* done.  The running job reads the cursor in one transaction, fetches a   *)
(* page in none, and takes the page in in another: meanwhile the source    *)
(* may log more and a pushed batch may move the cursor.                    *)
(*                                                                         *)
(* The lease protocol is JobRuns': a claim that lost its lease publishes   *)
(* nothing, so the model keeps only the memory of the claim that holds the *)
(* row.  READY and RETRY_WAIT are one status here, WAITING.                *)
(***************************************************************************)
EXTENDS Integers

CONSTANTS
    MaxLog,      \* bound: events the source logs
    PageSize     \* most events the source puts on a page

ASSUME SourceSyncAssumption ==
    /\ MaxLog \in Nat
    /\ PageSize \in Nat \ {0}

VARIABLES
    log,      \* source_head_sequence: events the source has logged
    cursor,   \* SourceCursor.last_sequence
    fresh,    \* source_fresh(): last_error is NULL, last_success_at recent
    sync,     \* status of the newest sync_events JobRun
    rerun,    \* SourceSchedule.rerun_requested
    page,     \* what the running claim holds in memory
    wanted    \* history: the source's head when a sync was last asked for

syncVars == <<log, cursor, fresh, sync, rerun, page, wanted>>

Sequences == 0 .. MaxLog

\* before anything was read; after = the cursor was read; upto, more = a page
\* of the events after+1 .. upto, of a source that had more to give or not.
NoPage == [got |-> "nothing", after |-> 0, upto |-> 0, more |-> FALSE]

Pages == [got : {"nothing", "cursor", "page"}, after : Sequences,
          upto : Sequences, more : BOOLEAN]

JobStatus == {"WAITING", "RUNNING", "SUCCEEDED", "FAILED"}

SyncTypeOK ==
    /\ log    \in Sequences
    /\ cursor \in Sequences
    /\ fresh  \in BOOLEAN
    /\ sync   \in JobStatus
    /\ rerun  \in BOOLEAN
    /\ page   \in Pages
    /\ wanted \in Sequences

\* apply_init(): the store exists and its first sync is queued.
SyncInit ==
    /\ log = 0 /\ cursor = 0 /\ wanted = 0
    /\ fresh = FALSE /\ rerun = FALSE
    /\ sync = "WAITING"
    /\ page = NoPage

-----------------------------------------------------------------------------
(* Asking for a sync: queue_source() *)

\* Mutant: a sync asked for while one runs is merged into it like any other.
MergedIntoAny(status, again, interval) ==
    [status |-> IF status \in {"WAITING", "RUNNING"} THEN status ELSE "WAITING",
     rerun  |-> IF status \in {"WAITING", "RUNNING"} THEN again ELSE FALSE]

\* An open job absorbs the request; only one already running, which may have
\* read its page, is to be repeated, and not for the timer's sake.
Merged(status, again, interval) ==
    [status |-> IF status = "RUNNING" THEN "RUNNING" ELSE "WAITING",
     rerun  |-> IF status = "RUNNING" THEN again \/ ~interval
                ELSE IF status = "WAITING" THEN again ELSE FALSE]

QueueSource(interval) ==
    /\ sync'  = Merged(sync, rerun, interval).status
    /\ rerun' = Merged(sync, rerun, interval).rerun

\* A scenario advanced, a purchase answered or an operator asked: the source
\* has already logged what the sync is wanted for.
RequestSync ==
    /\ QueueSource(FALSE)
    /\ wanted' = log
    /\ UNCHANGED <<log, cursor, fresh, page>>

\* dispatch_due(): the next occurrence of the five-second schedule.
IntervalSync ==
    /\ QueueSource(TRUE)
    /\ UNCHANGED <<log, cursor, fresh, page, wanted>>

-----------------------------------------------------------------------------
(* The source, the clock and pushed batches *)

SourceLogs ==
    /\ log < MaxLog
    /\ log' = log + 1
    /\ UNCHANGED <<cursor, fresh, sync, rerun, page, wanted>>

\* source_stale_seconds pass without a successful sync.
GoesStale ==
    /\ fresh
    /\ fresh' = FALSE
    /\ UNCHANGED <<log, cursor, sync, rerun, page, wanted>>

\* ingest() of a batch the source pushed: duplicates are skipped, the rest
\* must extend the cursor; no head proof, so the freshness stays.
Push(n) ==
    /\ n \in cursor + 1 .. log
    /\ cursor' = n
    /\ UNCHANGED <<log, fresh, sync, rerun, page, wanted>>

-----------------------------------------------------------------------------
(* The job *)

ClaimSync ==
    /\ sync = "WAITING"
    /\ sync' = "RUNNING"
    /\ page' = NoPage
    /\ UNCHANGED <<log, cursor, fresh, rerun, wanted>>

\* prepare_sync(): the cursor, read in a transaction of its own.
ReadCursor ==
    /\ sync = "RUNNING" /\ page.got = "nothing"
    /\ page' = [page EXCEPT !.got = "cursor", !.after = cursor]
    /\ UNCHANGED <<log, cursor, fresh, sync, rerun, wanted>>

\* The source answers with a contiguous snapshot of what follows, and says
\* whether its log goes on (the check at the head of apply_page).
FetchPage(n) ==
    /\ sync = "RUNNING" /\ page.got = "cursor"
    /\ n \in page.after .. log
    /\ n <= page.after + PageSize
    /\ n = page.after => log = page.after
    /\ page' = [page EXCEPT !.got = "page", !.upto = n, !.more = n < log]
    /\ UNCHANGED <<log, cursor, fresh, sync, rerun, wanted>>

AfterPage == IF page.upto > cursor THEN page.upto ELSE cursor

\* after_sync(): the job is SUCCEEDED by now, so a request it absorbed
\* becomes a new job.
Followup(again) ==
    IF again THEN Merged("SUCCEEDED", again, FALSE)
    ELSE [status |-> "SUCCEEDED", rerun |-> again]

\* mark_caught_up(): the page ended at the source's head and at the cursor.
CaughtUp == ~page.more /\ AfterPage = page.upto

\* apply_sync() and after_sync() in the publication transaction.
ApplyPage ==
    /\ sync = "RUNNING" /\ page.got = "page"
    /\ cursor' = AfterPage
    /\ fresh' = (CaughtUp \/ (fresh /\ ~page.more))
    /\ LET after == Followup(rerun \/ page.more)
       IN  sync' = after.status /\ rerun' = after.rerun
    /\ page' = NoPage
    /\ UNCHANGED <<log, wanted>>

\* sync_error(): the source is marked unreadable; the job is retried or, its
\* attempts used up or the error permanent, FAILED.
SyncFails ==
    /\ sync = "RUNNING"
    /\ sync' \in {"WAITING", "FAILED"}
    /\ fresh' = FALSE
    /\ page' = NoPage
    /\ UNCHANGED <<log, cursor, rerun, wanted>>

\* recover_expired() takes the row back from a claim that died or stalled.
SyncLeaseLost ==
    /\ sync = "RUNNING"
    /\ sync' \in {"WAITING", "FAILED"}
    /\ page' = NoPage
    /\ UNCHANGED <<log, cursor, fresh, rerun, wanted>>

-----------------------------------------------------------------------------
\* The steps that touch nothing but the source and its job.
SyncStep ==
    \/ RequestSync \/ IntervalSync \/ SourceLogs \/ GoesStale
    \/ ClaimSync \/ ReadCursor \/ SyncFails \/ SyncLeaseLost
    \/ \E n \in Sequences : FetchPage(n)

SyncNext == SyncStep \/ ApplyPage \/ \E n \in Sequences : Push(n)

SyncSpec == SyncInit /\ [][SyncNext]_syncVars

-----------------------------------------------------------------------------
(* Properties *)

\* A sync that was asked for is not swallowed by one that was already running:
\* when the newest job SUCCEEDED, with nothing left open, the store has read
\* all the source had logged when a sync was last asked for (scheduling.py
\* 70-73, jobs.py 37-41 and 109-112).
RequestedSyncsAreRead == sync = "SUCCEEDED" => cursor >= wanted

\* What the running claim still owes: it repeats itself, has more to read, or
\* its page reaches what was asked for.
OwedByRunningSync ==
    sync = "RUNNING" /\ page.got = "page" =>
        rerun \/ page.more \/ page.upto >= wanted

WithinLog ==
    /\ cursor <= log
    /\ wanted <= log
    /\ page.upto <= log

SyncInv ==
    /\ SyncTypeOK
    /\ WithinLog
    /\ OwedByRunningSync
    /\ RequestedSyncsAreRead
=============================================================================
