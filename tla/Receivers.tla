------------------------------ MODULE Receivers ------------------------------
(***************************************************************************)
(* The table of receivers and the poll jobs that go with it: what the      *)
(* administrator's handlers of app/routers/admin.py and the start of the   *)
(* process do to both.                                                     *)
(*                                                                         *)
(* The handlers are plain functions: they run in a thread, so that a poll, *)
(* a channel refresh or a crash can come between a change of the table and *)
(* the change of the scheduler.  A handler is two actions for that reason. *)
(*                                                                         *)
(* Abstracted: the columns (PATCH only changes those), row ids, two        *)
(* administrators at a time; of the rows that refer to a receiver          *)
(* (bouquets, availability, sessions), only whether there are any.         *)
(***************************************************************************)

CONSTANTS
    Receivers,   \* the names a receiver may be given
    Seeds,       \* those in settings.receivers
    None         \* no handler runs

ASSUME NamesAssumption == Seeds \subseteq Receivers /\ None \notin Receivers

VARIABLES
    listed,      \* names in table receivers
    referred,    \* those that rows of other tables refer to
    polled,      \* names with a poll job in the scheduler
    handler,     \* the administrator's request under way
    botched      \* history: deletes that failed since the process started

receiverVars == <<listed, referred, polled, handler, botched>>

Handler == [op : {"create", "delete"}, name : Receivers]

ASSUME HandlerAssumption == None \notin Handler

ReceiversTypeOK ==
    /\ listed \in SUBSET Receivers
    /\ referred \in SUBSET listed
    /\ polled \in SUBSET Receivers
    /\ handler \in Handler \cup {None}
    /\ botched \in SUBSET listed

\* seed_db fills an empty table from the settings.
Seeded(names) == IF names = {} THEN Seeds ELSE names

\* A first installation.
ReceiversInit ==
    /\ listed = Seeded({})
    /\ referred = {}
    /\ polled = listed
    /\ handler = None
    /\ botched = {}

\* create_receiver commits the row ...
CreateCommits(n) ==
    /\ handler = None
    /\ n \notin listed
    /\ listed' = listed \cup {n}
    /\ handler' = [op |-> "create", name |-> n]
    /\ UNCHANGED <<referred, polled, botched>>

\* Mutant: the new receiver waits for the next start.
CreateSchedulesNothing == polled' = polled

\* ... and adds its poll job, unless there is one (_add_poll_job).
CreateSchedules == polled' = polled \cup {handler.name}

CreateReturns ==
    /\ handler # None /\ handler.op = "create"
    /\ CreateSchedules
    /\ handler' = None
    /\ UNCHANGED <<listed, referred, botched>>

\* Mutant: the job is left to find out.
JobsKept(n) == polled

\* remove_poll_job
JobsWithout(n) == polled \ {n}

\* delete_receiver removes the poll job ...
DeleteUnschedules(n) ==
    /\ handler = None
    /\ n \in listed
    /\ polled' = JobsWithout(n)
    /\ handler' = [op |-> "delete", name |-> n]
    /\ UNCHANGED <<listed, referred, botched>>

\* ... and commits, which fails as soon as another row refers to the receiver:
\* no relationship and no foreign key of it cascades.
DeleteCommits ==
    /\ handler # None /\ handler.op = "delete"
    /\ IF handler.name \in referred
       THEN /\ botched' = botched \cup {handler.name}
            /\ UNCHANGED listed
       ELSE /\ listed' = listed \ {handler.name}
            /\ botched' = botched \ {handler.name}
    /\ handler' = None
    /\ UNCHANGED <<referred, polled>>

\* A channel refresh stores bouquets of the receiver, a poll a session.
RowsRefer(n) ==
    /\ n \in listed
    /\ referred' = referred \cup {n}
    /\ UNCHANGED <<listed, polled, handler, botched>>

\* Mutant: jobs for the receivers of the settings only.
SeedJobs == Seeds

\* start_scheduler adds a poll job for every receiver in the table.
StartupJobs == listed'

\* The process dies, wherever the handler was, and starts again.
ReceiversRestart ==
    /\ listed' = Seeded(listed)
    /\ polled' = StartupJobs
    /\ handler' = None
    /\ botched' = {}
    /\ UNCHANGED referred

AdminNext ==
    \/ \E n \in Receivers : CreateCommits(n) \/ DeleteUnschedules(n) \/ RowsRefer(n)
    \/ CreateReturns
    \/ DeleteCommits

ReceiversNext == AdminNext \/ ReceiversRestart

-----------------------------------------------------------------------------
(* Properties.                                                             *)

\* Nothing is polled that is not in the table.  Every receiver in it is polled,
\* but for one whose handler has not come to its job yet and one whose delete
\* has failed: that one is polled again only after a restart (admin.py:171-173,
\* 248-252, poller.py:647-656).
JobsMatchTable ==
    /\ polled \subseteq listed
    /\ \A n \in listed :
          \/ n \in polled
          \/ n \in botched
          \/ handler # None /\ handler.name = n

\* The same without the proviso about failed deletes, which is more than the
\* code does.
ListedIsAlwaysPolled ==
    \A n \in listed : n \in polled \/ (handler # None /\ handler.name = n)

=============================================================================
