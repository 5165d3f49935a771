-------------------------------- MODULE Backups --------------------------------
(***************************************************************************)
(* Backups and their retention (services/backup_service.py, services/       *)
(* retention_service.py, POST /api/backup, `cli retention`): processes back *)
(* up the database and prune the records of earlier backups, at the same    *)
(* time if the owner or a script asks for it.                                *)
(*                                                                          *)
(* run_backup commits each stage of a record of its own, and works on the   *)
(* files of that record between the commits.  The age that encrypts is a     *)
(* process of its own, and is neither awaited nor killed where pg_dump fails *)
(* or run_backup is stopped.  apply_retention reads the completed records    *)
(* once, decides in memory and commits its deletions later; files go after   *)
(* that, if at all.                                                          *)
(***************************************************************************)
EXTENDS Integers, FiniteSets

CONSTANTS
  Clients,      \* processes that back up or prune
  Backups,      \* bound: the ids of the records that are ever made
  LastInstant,  \* bound: the last instant of the clock
  DayLength, WeekLength, MonthLength,  \* periods, in instants
  Days, Weeks, Months                  \* how many periods retention keeps: 7, 4, 12

ASSUME PeriodsAssumption ==
  {DayLength, WeekLength, MonthLength, Days, Weeks, Months} \subseteq Nat \ {0}
ASSUME InstantsAssumption == LastInstant \in Nat

VARIABLES
  now,      \* the clock
  records,  \* committed rows of backup_records
  files,    \* what is in the destination directory
  starting, \* backups whose age has been started and has not created its output yet
  client,   \* where each process is in run_backup or apply_retention
  refused,  \* history: backups of which verification said that they cannot be restored
  ever      \* history: backups that were completed at any time, those deleted since included

backupVars == <<now, records, files, starting, client, refused, ever>>

-------------------------------------------------------------------------------
Never      == -1
Statuses   == {"requested", "running", "verifying", "completed", "failed"}
Categories == {"none", "period", "locked"}
Record     == [status : Statuses, hashed : BOOLEAN, at : {Never} \cup (1..LastInstant),
               category : Categories]
Absent     == [status |-> "absent"]
Deleted    == [status |-> "deleted"]

\* The work is done on <id>.age, by way of two temporary files.  file_path is another name,
\* made of the time at which the record was created.
Artifact(b) == <<"artifact", b>>
Dump(b)     == <<"dump", b>>
Plain(b)    == <<"plain", b>>
FilePath(b) == <<"stamped", b>>
Names       == {"artifact", "dump", "plain", "stamped"} \X Backups

NoWork == [at |-> "idle"]
Work == [at : {"requested", "dump", "hash", "verify"}, of : Backups]
          \cup [at : {"stamped"}, of : Backups, instant : 1..LastInstant]
          \cup [at : {"prune"}, drop : SUBSET Backups, touch : SUBSET Backups,
                latest : Backups]
          \cup [at : {"unlink"}, drop : SUBSET Backups]
          \cup {[at |-> "retention"]}

AtStage(c, place) == client[c].at = place
Mine(c)           == client[c].of
SetsStatus(b, x)  == records' = [records EXCEPT ![b].status = x]
Moves(c, to)      == client' = [client EXCEPT ![c] = to]
GoesOn(c, place)  == Moves(c, [at |-> place, of |-> Mine(c)])
Completed         == {b \in Backups : records[b].status = "completed"}

BackupInit ==
  /\ now = 0
  /\ records = [b \in Backups |-> Absent]
  /\ files = {}
  /\ starting = {}
  /\ client = [c \in Clients |-> NoWork]
  /\ refused = {}
  /\ ever = {}

-------------------------------------------------------------------------------
(* run_backup *)

NewRecord(status) == [status |-> status, hashed |-> FALSE, at |-> Never, category |-> "none"]

\* check_destination finds fault: the record is born failed.
Rejects(c, b) ==
  /\ AtStage(c, "idle") /\ records[b] = Absent
  /\ records' = [records EXCEPT ![b] = NewRecord("failed")]
  /\ UNCHANGED <<now, files, starting, client, refused, ever>>

Requests(c, b) ==
  /\ AtStage(c, "idle") /\ records[b] = Absent
  /\ records' = [records EXCEPT ![b] = NewRecord("requested")]
  /\ Moves(c, [at |-> "requested", of |-> b])
  /\ UNCHANGED <<now, files, starting, refused, ever>>

\* 'running' is committed, pg_dump and age are started.
Dumps(c) ==
  /\ AtStage(c, "requested")
  /\ SetsStatus(Mine(c), "running")
  /\ starting' = starting \cup {Mine(c)}
  /\ GoesOn(c, "dump")
  /\ UNCHANGED <<now, files, refused, ever>>

\* age creates its output, whether or not somebody still waits for it.
AgeOpens(b) ==
  /\ b \in starting
  /\ starting' = starting \ {b}
  /\ files' = files \cup {Dump(b)}
  /\ UNCHANGED <<now, records, client, refused, ever>>

\* It could not be started, or ends before that.
AgeDies(b) ==
  /\ b \in starting
  /\ starting' = starting \ {b}
  /\ UNCHANGED <<now, records, files, client, refused, ever>>

\* Both end well: the file is renamed into place, then the size is committed.
Encrypts(c) ==
  /\ AtStage(c, "dump")
  /\ Mine(c) \notin starting /\ Dump(Mine(c)) \in files
  /\ files' = (files \ {Dump(Mine(c))}) \cup {Artifact(Mine(c))}
  /\ GoesOn(c, "hash")
  /\ UNCHANGED <<now, records, starting, refused, ever>>

\* The hash is committed, then 'verifying'; age writes what it decrypts beside the artifact.
Hashes(c) ==
  /\ AtStage(c, "hash")
  /\ records' = [records EXCEPT ![Mine(c)].hashed = TRUE, ![Mine(c)].status = "verifying"]
  /\ files' = files \cup {Plain(Mine(c))}
  /\ GoesOn(c, "verify")
  /\ UNCHANGED <<now, starting, refused, ever>>

\* Whatever _do_verify returns, nobody looks at it.  completed_at is read from the clock.
Verifies(c) ==
  /\ AtStage(c, "verify")
  /\ files' = files \ {Plain(Mine(c))}
  /\ refused' \in {refused, refused \cup {Mine(c)}}
  /\ \E t \in (now + 1)..LastInstant :
       /\ now' = t
       /\ Moves(c, [at |-> "stamped", of |-> Mine(c), instant |-> t])
  /\ UNCHANGED <<records, starting, ever>>

\* The last commit; trigger_backup goes on with retention.
Completes(c) ==
  /\ AtStage(c, "stamped")
  /\ records' = [records EXCEPT ![Mine(c)].status = "completed", ![Mine(c)].at = client[c].instant]
  /\ ever' = ever \cup {[of |-> Mine(c), at |-> client[c].instant]}
  /\ Moves(c, [at |-> "retention"])
  /\ UNCHANGED <<now, files, starting, refused>>

\* Mutant: what was decrypted is removed only where verification returns.
BackupFails_KeepsPlain(c) ==
  /\ client[c].at \in {"requested", "dump", "hash", "verify"}
  /\ SetsStatus(Mine(c), "failed")
  /\ files' = files \ {Dump(Mine(c))}
  /\ Moves(c, NoWork)
  /\ UNCHANGED <<now, starting, refused, ever>>

\* A tool fails, or takes longer than it may: the temporary files there are now are removed,
\* 'failed' is committed, an artifact that is in place stays.  An age that encrypts runs on;
\* one that decrypts has been killed and awaited by subprocess.run.
BackupFails(c) ==
  /\ client[c].at \in {"requested", "dump", "hash", "verify"}
  /\ SetsStatus(Mine(c), "failed")
  /\ files' = files \ {Dump(Mine(c)), Plain(Mine(c))}
  /\ Moves(c, NoWork)
  /\ UNCHANGED <<now, starting, refused, ever>>

\* The process is stopped.  Where a commit is refused, the handler's commit is refused too
\* and the request ends in an error: rows are left as they are.
Stops(c) ==
  /\ ~AtStage(c, "idle")
  /\ Moves(c, NoWork)
  /\ UNCHANGED <<now, records, files, starting, refused, ever>>

-------------------------------------------------------------------------------
(* apply_retention *)

When(b) == records[b].at

\* Mutant: the records are walked from the oldest on.
Tops_Oldest(S, length, limit) ==
  {b \in S :
    /\ \A x \in S : When(x) < When(b) => When(x) \div length # When(b) \div length
    /\ Cardinality({When(x) \div length : x \in {y \in S : When(y) < When(b)}}) < limit}

\* _distinct_dates: the newest of each of the last periods in which there is one.
Tops(S, length, limit) ==
  {b \in S :
    /\ \A x \in S : When(x) > When(b) => When(x) \div length # When(b) \div length
    /\ Cardinality({When(x) \div length : x \in {y \in S : When(y) > When(b)}}) < limit}

Kept(S) ==
  Tops(S, DayLength, Days) \cup Tops(S, WeekLength, Weeks) \cup Tops(S, MonthLength, Months)

Latest(S) == CHOOSE b \in S : \A x \in S : When(x) <= When(b)
Oldest(S) == CHOOSE b \in S : \A x \in S : When(x) >= When(b)

\* Also of its own, from the command line.  The latest is kept with the others: it is the
\* newest of its day.
ReadsRecords(c) ==
  /\ client[c].at \in {"idle", "retention"}
  /\ IF Cardinality(Completed) <= 1 THEN Moves(c, NoWork)
     ELSE LET latest == Latest(Completed)
              fresh  == {b \in Kept(Completed) : records[b].category = "none"}
              relock == IF records[latest].category = "locked" THEN {} ELSE {latest}
          IN  Moves(c, [at |-> "prune", drop |-> Completed \ Kept(Completed),
                        touch |-> fresh \cup relock, latest |-> latest])
  /\ UNCHANGED <<now, records, files, starting, refused, ever>>

\* _is_last_healthy, asked of the database as it is now, one record after the other, spares
\* the last of them if nothing else is left.
Doomed(c) ==
  LET drop == client[c].drop
  IN  IF drop # {} /\ Completed \subseteq drop THEN drop \ {Oldest(drop)} ELSE drop

\* A record that somebody else has deleted is deleted once more without complaint.
Prunes(c) ==
  /\ AtStage(c, "prune")
  /\ client[c].touch \subseteq Completed
  /\ records' = [b \in Backups |->
       CASE b \in Doomed(c) -> Deleted
         [] b \in client[c].touch \cup (client[c].drop \ Doomed(c)) ->
              [records[b] EXCEPT !.category = IF b = client[c].latest \/ b \in client[c].drop
                                              THEN "locked" ELSE "period"]
         [] OTHER -> records[b]]
  /\ Moves(c, [at |-> "unlink", drop |-> Doomed(c)])
  /\ UNCHANGED <<now, files, starting, refused, ever>>

\* A record whose category is to be written is gone: StaleDataError, nothing is deleted.
GivesUp(c) ==
  /\ AtStage(c, "prune")
  /\ ~(client[c].touch \subseteq Completed)
  /\ Moves(c, NoWork)
  /\ UNCHANGED <<now, records, files, starting, refused, ever>>

\* A file that does not exist is passed over.
Unlinks(c) ==
  /\ AtStage(c, "unlink")
  /\ files' = files \ {FilePath(b) : b \in client[c].drop}
  /\ Moves(c, NoWork)
  /\ UNCHANGED <<now, records, starting, refused, ever>>

-------------------------------------------------------------------------------
RunsBackup(c) ==
  \/ \E b \in Backups : Rejects(c, b) \/ Requests(c, b)
  \/ Dumps(c) \/ Encrypts(c) \/ Hashes(c) \/ Verifies(c) \/ Completes(c) \/ BackupFails(c)

AppliesRetention(c) == ReadsRecords(c) \/ Prunes(c) \/ GivesUp(c) \/ Unlinks(c)

BackupNext ==
  \/ \E c \in Clients : RunsBackup(c) \/ AppliesRetention(c) \/ Stops(c)
  \/ \E b \in Backups : AgeOpens(b) \/ AgeDies(b)

BackupSpec == BackupInit /\ [][BackupNext]_backupVars

-------------------------------------------------------------------------------
(* Properties *)

BackupTypeOK ==
  /\ now \in 0..LastInstant
  /\ records \in [Backups -> Record \cup {Absent, Deleted}]
  /\ files \subseteq Names
  /\ starting \subseteq Backups
  /\ \A c \in Clients : client[c] = NoWork \/ client[c] \in Work
  /\ refused \subseteq Backups
  /\ ever \subseteq [of : Backups, at : 1..LastInstant]

\* A record and its files never disagree, wherever a process fails or is stopped: what is
\* 'completed' has its artifact in place, its hash and its time; what was decrypted is left
\* only beside a record that shows 'verifying'; and a half-written file, or an age that may
\* still write one, only beside one that shows 'running' or 'failed' and has no artifact.
BackupsAgree ==
  /\ BackupTypeOK
  /\ \A b \in Completed : records[b].hashed /\ Artifact(b) \in files /\ When(b) # Never
  /\ \A b \in Backups :
       /\ Plain(b) \in files => records[b].status = "verifying"
       /\ Dump(b) \in files \/ b \in starting => /\ records[b].status \in {"running", "failed"}
                                                 /\ Artifact(b) \notin files

\* The newest of all backups that ever ended in each of the last periods of a length.
Promised(length, limit) ==
  {e \in ever :
    /\ \A x \in ever : x.at > e.at => x.at \div length # e.at \div length
    /\ Cardinality({x.at \div length : x \in {y \in ever : y.at > e.at}}) < limit}

\* Retention keeps the pyramid of all that was ever backed up, not of what happens to be
\* left: however many of them run at once, decide on records that others delete meanwhile,
\* or miss a backup that ended earlier but is committed later, the newest backup of each of
\* the last days, weeks and months is there.
PyramidKept ==
  \A e \in Promised(DayLength, Days) \cup Promised(WeekLength, Weeks)
             \cup Promised(MonthLength, Months) : e.of \in Completed

\* Not so: docs/sprints/SPRINT_007_TECHNICAL_DESIGN.md has every backup verified before it
\* is 'completed', and a failed verification end in 'failed'.
CompletedIsVerified == Completed \cap refused = {}

\* Not so: the same document has the partial file removed where a backup ends in 'failed'.
PartialFileRemoved ==
  \A b \in Backups : records[b].status = "failed" => Dump(b) \notin files

\* Not so: the same document has retention delete the backups that are in no category.
RetentionReclaims ==
  \A b \in Backups : records[b] = Deleted /\ (\A c \in Clients : AtStage(c, "idle")) =>
    Artifact(b) \notin files
===============================================================================
