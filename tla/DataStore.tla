------------------------------ MODULE DataStore ------------------------------
(***************************************************************************)
(* rq_data_store_fs.c keeps the calendars of a system as one file each.    *)
(* A save deletes what is there and then writes; the program may end at    *)
(* any moment and start again with an empty system.                        *)
(***************************************************************************)
EXTENDS Integers, Sequences, FiniteSets

CONSTANTS
    CalendarId,  \* ids of calendars
    Unnameable,  \* those that are no file names, for instance with a '/'
    Calendar     \* what a calendar's file says

ASSUME StoreAssumption == Unnameable \subseteq CalendarId

VARIABLES
    calendars,  \* the system's, by id
    made,       \* on the disk: how much of the store was created
    files,      \* on the disk: the files of the directory `calendars', by id
    base_dir,   \* whether the store is open
    work,       \* what a save that runs has to do
    tells,      \* readdir says which entries are files
    saved,      \* history: the calendars of the last save
    before,     \* history: the files when it began
    fate,       \* history: how far that save came
    failed      \* the program ended by a write to a stream that is NULL

storeVars == <<calendars, made, files, base_dir, work, tells, saved, before, fate, failed>>

\* What rq_data_store_fs_create makes, in this order: the last are the two directories
\* and the index that nothing is kept in.
Layout == <<"dirname", "calendars", "others">>
Has(part) == \E i \in 1..made : Layout[i] = part

None == [id \in {} |-> ""]
Idle == [step |-> "idle", ids |-> {}, id |-> ""]
Part(f, g) == \A i \in DOMAIN f : i \in DOMAIN g /\ f[i] = g[i]
Less(f, id) == [i \in DOMAIN f \ {id} |-> f[i]]
With(f, id, x) == [i \in DOMAIN f \cup {id} |-> IF i = id THEN x ELSE f[i]]

StoreInit ==
    /\ calendars = None /\ made = 0 /\ files = None /\ base_dir = FALSE /\ work = Idle
    /\ tells \in BOOLEAN /\ saved = None /\ before = None /\ fate = "none" /\ failed = FALSE

Ready == work.step = "idle" /\ ~failed
-----------------------------------------------------------------------------
\* rq_calendar_mgr_add, of an id that is not there, and rq_calendar_mgr_clear.
AddCalendar(id, c) ==
    /\ Ready /\ id \notin DOMAIN calendars
    /\ calendars' = With(calendars, id, c)
    /\ UNCHANGED <<made, files, base_dir, work, tells, saved, before, fate, failed>>
ClearCalendars ==
    /\ Ready /\ calendars' = None
    /\ UNCHANGED <<made, files, base_dir, work, tells, saved, before, fate, failed>>

\* Directories that are there are no error; an error after some of them leaves the
\* store closed.
Create ==
    /\ Ready
    /\ \E n \in 0..Len(Layout) :
          /\ made' = IF n > made THEN n ELSE made
          /\ base_dir' = (n = Len(Layout))
    /\ UNCHANGED <<calendars, files, work, tells, saved, before, fate, failed>>

\* The index is opened for writing, so that a directory is all that opening takes.
Open ==
    /\ Ready
    /\ base_dir' = Has("dirname")
    /\ UNCHANGED <<calendars, made, files, work, tells, saved, before, fate, failed>>

CloseStore ==
    /\ Ready /\ base_dir' = FALSE
    /\ UNCHANGED <<calendars, made, files, work, tells, saved, before, fate, failed>>

\* The calendars are cleared, and of the files none is added: a calendar that was read
\* is freed, since rq_calendar_read_from_stream never returns RQ_OK.
Load ==
    /\ Ready /\ base_dir
    /\ calendars' = None
    /\ UNCHANGED <<made, files, base_dir, work, tells, saved, before, fate, failed>>
-----------------------------------------------------------------------------
(* rq_data_store_fs_system_save, a file at a time. *)

\* Slip: only the files of calendars that are gone, the others being written anyway.
Stale_Slip == IF tells THEN DOMAIN files \ DOMAIN calendars ELSE {}
\* What is deleted first: entries that are told to be files.
Stale == IF tells THEN DOMAIN files ELSE {}

Save ==
    /\ Ready /\ base_dir
    /\ work' = [step |-> "unlink", ids |-> Stale, id |-> ""]
    /\ saved' = calendars /\ before' = files /\ fate' = "begun"
    /\ UNCHANGED <<calendars, made, files, base_dir, tells, failed>>

Unlink ==
    /\ work.step = "unlink"
    /\ IF work.ids = {}
       THEN work' = [step |-> "write", ids |-> DOMAIN calendars, id |-> ""] /\ UNCHANGED files
       ELSE \E id \in work.ids : /\ files' = Less(files, id)
                                 /\ work' = [work EXCEPT !.ids = @ \ {id}]
    /\ UNCHANGED <<calendars, made, base_dir, tells, saved, before, fate, failed>>

\* The file of the next calendar is opened and empty.  Where it cannot be, the stream is
\* NULL and is written to.
OpenFile ==
    /\ work.step = "write" /\ work.id = "" /\ ~failed
    /\ \E id \in work.ids :
          IF id \in Unnameable \/ ~Has("calendars")
          THEN failed' = TRUE /\ fate' = "cut" /\ UNCHANGED <<files, work>>
          ELSE /\ files' = With(files, id, "")
               /\ work' = [work EXCEPT !.id = id]
               /\ UNCHANGED <<failed, fate>>
    /\ UNCHANGED <<calendars, made, base_dir, tells, saved, before>>

\* rq_calendar_write_to_stream and the stream's close.
WriteFile ==
    /\ work.step = "write" /\ work.id # ""
    /\ files' = With(files, work.id, calendars[work.id])
    /\ work' = [work EXCEPT !.id = "", !.ids = @ \ {work.id}]
    /\ UNCHANGED <<calendars, made, base_dir, tells, saved, before, fate, failed>>

Saved ==
    /\ work.step = "write" /\ work.ids = {}
    /\ work' = Idle /\ fate' = "done"
    /\ UNCHANGED <<calendars, made, files, base_dir, tells, saved, before, failed>>

\* The program ends and is started again.
Restart ==
    /\ calendars' = None /\ base_dir' = FALSE /\ work' = Idle /\ failed' = FALSE
    /\ fate' = IF fate = "begun" THEN "cut" ELSE fate
    /\ UNCHANGED <<made, files, tells, saved, before>>

StoreNext ==
    \/ \E id \in CalendarId, c \in Calendar : AddCalendar(id, c)
    \/ ClearCalendars \/ Create \/ Open \/ CloseStore \/ Load
    \/ Save \/ Unlink \/ OpenFile \/ WriteFile \/ Saved \/ Restart
-----------------------------------------------------------------------------
\* After a save the disk has the calendars of the system, and nothing else; whenever
\* the program ends, what a save that was begun has left there is of that system or of
\* the one before, never of both, and one file at most is incomplete.  Where readdir
\* does not tell files, old ones stay.
StoreKept ==
    /\ fate = "done" => /\ Part(saved, files)
                        /\ tells => files = saved
    /\ tells => /\ \/ Part(files, before)
                   \/ \A id \in DOMAIN files : id \in DOMAIN saved /\ files[id] \in {"", saved[id]}
                /\ Cardinality({id \in DOMAIN files : files[id] = ""}) <= 1
=============================================================================
