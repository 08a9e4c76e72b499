---------------------------- MODULE SymbolCache ----------------------------
(***************************************************************************)
(* automagic/symbol_cache.py: the database that maps the identifiers of    *)
(* symbol tables to the files that hold them.  Every program that is run   *)
(* opens it (SymbolCacheMagic.__init__) and brings it up to date (update)  *)
(* before its plugin is constructed; programs that run at the same time    *)
(* share the file.                                                         *)
(*                                                                         *)
(* SQLite is modelled by how it is used: one program at a time may have    *)
(* changed rows that it has not committed, and may in that time have the   *)
(* whole file to itself (its page cache spilled).  Nobody can commit while *)
(* another has not fetched all rows of a SELECT; who fails to keeps what   *)
(* it has changed, and keeps the others from reading.  Who finds the file  *)
(* locked waits, and gets an exception in the end.                         *)
(***************************************************************************)
EXTENDS ResourceCache

CONSTANTS
  Locations,     \* URLs of files in the symbol directories
  Identifiers,   \* what identifies the table in a file
  Broken,        \* content of a file that is no JSON
  RemoteLists,   \* what a remote list may hold: [entries, raises], entries a sequence of [location, identifier]
  Period,        \* cache_period, without its sign
  Day,           \* how long a day is
  MaxClock       \* bound

\* the writer of a database that nobody has changed
Nobody == "nobody"

ASSUME NobodyIsNoProgram == Nobody \notin Programs

\* Remote lists name files elsewhere, not those in the symbol directories
ASSUME ListsAssumption ==
  \A list \in RemoteLists : \A i \in DOMAIN list.entries : list.entries[i].location \notin Locations

ASSUME PeriodAssumption == Period \in Nat /\ Day \in Nat \ {0}

VARIABLES
  clock,
  skew,       \* local time minus UTC; never changes
  offline,    \* constants.OFFLINE, or no REMOTE_ISF_URL; never changes
  disk,       \* of each location that exists: [content, mtime]
  databases,  \* the files that were created for the database: [rows, draft, writer, spilled];
              \* the last one is the one that the path leads to
  programs    \* [pc, conn, listed, since, todo, hand, reading, disturbed, raised]: reading if it
              \* has not fetched the rows of its SELECT; the last two not in the code: was something
              \* not stored, or deleted by another program; why update() ended with an exception

symbolVars == <<resourceVars, clock, skew, offline, disk, databases, programs>>

Off == [pc |-> "off", conn |-> 0, listed |-> {}, since |-> 0, todo |-> {}, hand |-> <<>>,
        reading |-> FALSE, disturbed |-> FALSE, raised |-> ""]

Db(p) == databases[programs[p].conn]
Current == Len(databases)

\* What a program sees of the rows: its own changes too
View(p) == IF Db(p).writer = p THEN Db(p).draft ELSE Db(p).rows
LocalRows(rows) == {r \in rows : r.local}
Row(rows, l) == {r \in LocalRows(rows) : r.location = l}

MayRead(p) == Db(p).writer \in {p, Nobody} \/ ~Db(p).spilled
MayWrite(p) == Db(p).writer \in {p, Nobody}

Become(p, q) == programs' = [programs EXCEPT ![p] = q]
Over(p, why) == [Off EXCEPT !.pc = "idle", !.conn = programs[p].conn, !.raised = why]

\* DELETE FROM cache WHERE location IN ...
Delete(rows, locations) == {r \in rows : r.location \notin locations}

\* INSERT OR REPLACE: the location is unique
Replace(rows, row) == Delete(rows, {row.location}) \cup {row}

\* An exception that ends update(); automagic.run goes on with the next automagic
Raises(p, why) == Become(p, Over(p, why))

\* p has changed the rows it sees; it is the writer until it commits
Drafted(p, rows, spilled) ==
  [databases EXCEPT ![programs[p].conn] = [@ EXCEPT !.draft = rows, !.writer = p, !.spilled = spilled]]
Changes(p, rows) == \E spilled \in BOOLEAN : (Db(p).spilled => spilled) /\ databases' = Drafted(p, rows, spilled)

CommittedRows(p, rows) ==
  [databases EXCEPT ![programs[p].conn] =
     [rows |-> rows, draft |-> {}, writer |-> Nobody, spilled |-> FALSE]]

\* Who keeps p from committing
Readers(p) == {q \in Programs \ {p} : programs[q].reading /\ programs[q].conn = programs[p].conn}

\* Files whose rows the other programs will miss
Deletes(p, rows) == {r.location : r \in LocalRows(Db(p).rows)} \ {r.location : r \in LocalRows(rows)}

\* p commits rows and becomes q, or it cannot: then its transaction stays open
Commit(p, rows, q) ==
  IF Readers(p) # {} THEN databases' = Drafted(p, rows, TRUE) /\ Raises(p, "commit")
  ELSE /\ databases' = CommittedRows(p, rows)
       /\ programs' = [r \in Programs |->
            IF r = p THEN q
            ELSE IF programs[r].conn = programs[p].conn /\ Deletes(p, rows) # {}
              THEN [programs[r] EXCEPT !.disturbed = TRUE]
            ELSE programs[r]]

\* With nothing to commit, commit() does nothing
CommitChanges(p, q) ==
  IF Db(p).writer = p THEN Commit(p, View(p), q) ELSE Become(p, q) /\ UNCHANGED databases

\* date(): the day that a time is in begins
Midnight(time) == Day * (time \div Day)

-----------------------------------------------------------------------------
(* Deviations a bug could introduce; only the mutants of PROJECT.json use them. *)

\* A file is looked at again if it is older than its row
OutdatedBackwards(row) ==
  /\ row.cached < Midnight(clock - Period)
  /\ row.location \in DOMAIN disk /\ disk[row.location].mtime + skew < row.cached

\* One commit at the end of the update is enough
FilesCommittedLater(p, q) == IF offline THEN CommitChanges(p, q) ELSE Become(p, q) /\ UNCHANGED databases

-----------------------------------------------------------------------------
(* SqliteCache.__init__, _connect_storage *)

NewDatabase == [rows |-> {}, draft |-> {}, writer |-> Nobody, spilled |-> FALSE]

Connect(p) ==
  /\ programs[p].pc = "off"
  /\ IF databases[Current].writer = Nobody \/ ~databases[Current].spilled
       THEN Become(p, [Off EXCEPT !.pc = "idle", !.conn = Current]) /\ UNCHANGED databases
       \* the database is locked: that is a DatabaseError, so that the file is unlinked
       ELSE /\ Current < MaxInodes
            /\ databases' = Append(databases, NewDatabase)
            /\ Become(p, [Off EXCEPT !.pc = "idle", !.conn = Current + 1])
  /\ UNCHANGED <<resourceVars, clock, skew, offline, disk>>

\* The program ends, or is killed: what it has not committed is rolled back
Exit(p) ==
  /\ programs[p].pc # "off" /\ fetches[p].state # "writing"
  /\ databases' = [databases EXCEPT ![programs[p].conn] =
                     IF @.writer = p THEN [@ EXCEPT !.writer = Nobody, !.draft = {}, !.spilled = FALSE] ELSE @]
  /\ Become(p, Off)
  /\ fetches' = [fetches EXCEPT ![p] = Idle]
  /\ UNCHANGED <<hasLength, path, files, clock, skew, offline, disk>>

-----------------------------------------------------------------------------
(* SqliteCache.update *)

\* file_symbol_url("")
List(p) ==
  /\ programs[p].pc = "idle"
  /\ Become(p, [programs[p] EXCEPT !.pc = "listed", !.listed = DOMAIN disk, !.since = clock,
                                   !.disturbed = FALSE, !.raised = ""])
  /\ UNCHANGED <<resourceVars, clock, skew, offline, disk, databases>>

\* get_local_locations; the missing entries are deleted, and the deletion committed
Compare(p) ==
  LET rows == View(p)
      cached == {r.location : r \in LocalRows(rows)}
      listed == programs[p].listed
      missing == cached \ listed
      ready == [programs[p] EXCEPT !.pc = "compared", !.todo = listed \ cached]
  IN /\ programs[p].pc = "listed"
     /\ IF ~MayRead(p) \/ (missing # {} /\ ~MayWrite(p))
          THEN Raises(p, "locked") /\ UNCHANGED databases
        ELSE IF missing = {} THEN Become(p, ready) /\ UNCHANGED databases
        ELSE Commit(p, Delete(rows, missing), ready)
     /\ UNCHANGED <<resourceVars, clock, skew, offline, disk>>

\* The row is from before the day that the period begins in, and the file newer than the row
Outdated(row) ==
  /\ row.cached < Midnight(clock - Period)
  /\ row.location \in DOMAIN disk /\ row.cached < disk[row.location].mtime + skew

\* Files that are not new are looked at again if their row is outdated
Check(p) ==
  LET known == programs[p].listed \ programs[p].todo
      again == {r.location : r \in {q \in LocalRows(View(p)) : q.location \in known /\ Outdated(q)}}
  IN /\ programs[p].pc = "compared"
     /\ IF known # {} /\ ~MayRead(p) THEN Raises(p, "locked")
        ELSE Become(p, [programs[p] EXCEPT !.pc = "files", !.todo = @ \cup again])
     /\ UNCHANGED <<resourceVars, clock, skew, offline, disk, databases>>

\* A file is opened and read; what is wrong with it is only logged
Read(p, l) ==
  /\ programs[p].pc = "files" /\ l \in programs[p].todo
  /\ IF l \in DOMAIN disk /\ disk[l].content # Broken
       THEN Become(p, [programs[p] EXCEPT !.pc = "read",
              !.hand = <<[location |-> l, identifier |-> disk[l].content, local |-> TRUE,
                          cached |-> 0, read |-> clock]>>])
       ELSE Become(p, [programs[p] EXCEPT !.todo = @ \ {l}])
  /\ UNCHANGED <<resourceVars, clock, skew, offline, disk, databases>>

\* Its row is stored, with the time of now; a locked database is only logged
Store(p) ==
  LET row == [programs[p].hand[1] EXCEPT !.cached = clock]
      stored == [programs[p] EXCEPT !.pc = "files", !.todo = @ \ {row.location}, !.hand = <<>>]
  IN /\ programs[p].pc = "read"
     /\ IF MayWrite(p) THEN Changes(p, Replace(View(p), row)) /\ Become(p, stored)
        ELSE Become(p, [stored EXCEPT !.disturbed = TRUE]) /\ UNCHANGED databases
     /\ UNCHANGED <<resourceVars, clock, skew, offline, disk>>

\* What was stored is committed, come what may
FilesCommitted(p, q) == CommitChanges(p, q)

EndOfFiles(p) ==
  /\ programs[p].pc = "files" /\ programs[p].todo = {}
  /\ FilesCommitted(p, IF offline THEN Over(p, "") ELSE [Over(p, "") EXCEPT !.pc = "remote"])
  /\ UNCHANGED <<resourceVars, clock, skew, offline, disk>>

-----------------------------------------------------------------------------
(* The remote list, RemoteIdentifierFormat *)

\* Old rows are selected, and not fetched; then the list is opened through the resource cache
AskForList(p) ==
  /\ programs[p].pc = "remote" /\ fetches[p].state = "none"
  /\ IF MayRead(p)
       THEN /\ Become(p, [programs[p] EXCEPT !.reading =
                           \E r \in View(p) : ~r.local /\ r.cached < clock - Period])
            /\ fetches' = To(p, "asking")
       ELSE Raises(p, "locked") /\ UNCHANGED fetches
  /\ UNCHANGED <<hasLength, path, files, clock, skew, offline, disk, databases>>

FetchList(p) ==
  /\ programs[p].pc = "remote" /\ Fetch(p)
  /\ UNCHANGED <<clock, skew, offline, disk, databases, programs>>

\* It cannot be had, or is no JSON
NoList(p) ==
  /\ fetches[p].state \in {"failed", "part"}
  /\ Raises(p, "no list") /\ fetches' = [fetches EXCEPT ![p] = Idle]
  /\ UNCHANGED <<hasLength, path, files, clock, skew, offline, disk, databases>>

Entered(e) ==
  [location |-> e.location, identifier |-> e.identifier, local |-> FALSE, cached |-> clock, read |-> clock]

\* The rows with those of the entries of a list: the last one that names a location stays
Stored(p, entries) ==
  LET named == {entries[i].location : i \in DOMAIN entries}
  IN Delete(View(p), named)
       \cup {Entered(entries[i]) : i \in {j \in DOMAIN entries :
               \A k \in DOMAIN entries : k > j => entries[k].location # entries[j].location}}

\* process: the entries of the list are stored, and then those of the lists it names, of which
\* one may be of another version, be no list at all or name itself.  The cursor that stores them
\* gives up the rows it has not fetched
EnterList(p) ==
  /\ fetches[p].state = "whole" /\ fetches' = [fetches EXCEPT ![p] = Idle]
  /\ \E list \in RemoteLists :
       IF list.entries # <<>> /\ ~MayWrite(p) THEN Raises(p, "locked") /\ UNCHANGED databases
       ELSE IF list.raises
         THEN /\ Raises(p, "list")
              /\ IF list.entries = <<>> THEN UNCHANGED databases ELSE Changes(p, Stored(p, list.entries))
       ELSE IF list.entries = <<>> THEN CommitChanges(p, Over(p, ""))
       ELSE Commit(p, Stored(p, list.entries), Over(p, ""))
  /\ UNCHANGED <<hasLength, path, files, clock, skew, offline, disk>>

-----------------------------------------------------------------------------
(* The files in the symbol directories, and time *)

ChangeFile(l) ==
  /\ clock < MaxClock /\ clock' = clock + 1
  /\ \/ \E c \in Identifiers \cup {Broken} :
          disk' = [x \in DOMAIN disk \cup {l} |-> IF x = l THEN [content |-> c, mtime |-> clock + 1] ELSE disk[x]]
     \/ l \in DOMAIN disk /\ disk' = [x \in DOMAIN disk \ {l} |-> disk[x]]
  /\ UNCHANGED <<resourceVars, skew, offline, databases, programs>>

Tick == clock < MaxClock /\ clock' = clock + 1 /\ UNCHANGED <<resourceVars, skew, offline, disk, databases, programs>>

-----------------------------------------------------------------------------

Init ==
  /\ ResourceInit
  /\ clock = 0 /\ skew \in {-1, 0} /\ offline \in BOOLEAN
  /\ disk \in UNION {[S -> [content : Identifiers, mtime : {0}]] : S \in SUBSET Locations}
  /\ databases = <<NewDatabase>>
  /\ programs = [p \in Programs |-> Off]

Next ==
  \/ \E p \in Programs :
       \/ Connect(p) \/ Exit(p) \/ List(p) \/ Compare(p) \/ Check(p) \/ Store(p) \/ EndOfFiles(p)
       \/ AskForList(p) \/ FetchList(p) \/ NoList(p) \/ EnterList(p)
       \/ \E l \in Locations : Read(p, l)
  \/ \E l \in Locations : ChangeFile(l)
  \/ Tick

Spec == Init /\ [][Next]_symbolVars

-----------------------------------------------------------------------------
(* Properties *)

\* What find_location answers from when an update has come to the end of the files: the row of
\* a file that has not changed since its directory was listed is there and names what is in
\* the file.  But it may be from before a change if it was stored since the day in which the
\* period began, or if the file was changed after it was read and (in local time) not after the
\* row was stored: that change is never noticed.  Other programs must not have kept the database
\* locked, or deleted rows of files that were new to them.
RowsRight ==
  [][\A p \in Programs : EndOfFiles(p) /\ ~programs[p].disturbed =>
       \A l \in programs[p].listed \cap DOMAIN disk :
         disk[l].content # Broken /\ disk[l].mtime <= programs[p].since =>
           \E r \in Row(View(p)', l) :
             \/ r.identifier = disk[l].content
             \/ r.cached >= Midnight(programs[p].since - Period)
             \/ r.read < disk[l].mtime /\ disk[l].mtime + skew <= r.cached]_symbolVars

\* A program that is not updating does not keep the others from it.  It holds on to the database,
\* for as long as it runs, only if a list that the remote list names could not be used, or if it
\* could not commit because of one that was waiting for the remote list: then nobody can read either.
LockHeldForCause ==
  \A i \in DOMAIN databases, p \in Programs :
    databases[i].writer = p /\ programs[p].pc \in {"off", "idle"} =>
      /\ programs[p].pc = "idle"
      /\ programs[p].raised = "list" \/ (programs[p].raised = "commit" /\ databases[i].spilled)
=============================================================================
