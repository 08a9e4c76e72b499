------------------------- MODULE SymbolCacheProofs -------------------------
(***************************************************************************)
(* For any number of programs: what lies in the directory of downloads is  *)
(* whole unless there is a reason, the database is not held by who has no  *)
(* use of it, unless a list of the remote list could not be used or others *)
(* kept it from committing, and what an update leaves in it is right about *)
(* the files.                                                              *)
(***************************************************************************)
EXTENDS SymbolCache, TLAPS

-----------------------------------------------------------------------------
(* The directory of downloads *)

States == {"none", "asking", "cached", "creating", "writing", "failed", "killed", "whole", "part"}
Files == [blocks : SUBSET (1 .. Blocks), size : 0 .. Blocks, abandoned : BOOLEAN]

ResourceTypes ==
  /\ hasLength \in BOOLEAN
  /\ files \in Seq(Files) /\ path \in 0 .. Len(files)
  /\ fetches \in [Programs -> [state : States, file : Nat, count : 0 .. Blocks]]
  /\ \A p \in Programs : fetches[p].state = "writing" => fetches[p].file \in DOMAIN files

\* p has written everything up to where it is, and nobody has truncated that
KeepsWhatItWrote(p) ==
  /\ fetches[p].state = "writing" /\ fetches[p].file = path
  /\ 1 .. fetches[p].count \subseteq files[path].blocks

\* The last program that has created the file is still at it, if it is not whole
SomebodyCompletes ==
  path # 0 /\ ~Whole(path) /\ ~files[path].abandoned => \E p \in Programs : KeepsWhatItWrote(p)

ResourceInv == ResourceTypes /\ SomebodyCompletes

LEMMA PartsFollow ==
  ASSUME ResourceInv
  PROVE  PartsForCause
  BY DEF ResourceInv, SomebodyCompletes, KeepsWhatItWrote, PartsForCause, Downloading

\* Programs that do not write may do what they like.
LEMMA IdlePrograms ==
  ASSUME ResourceInv, UNCHANGED <<hasLength, path, files>>, NEW p \in Programs,
         fetches[p].state # "writing",
         NEW f \in [state : States \ {"writing"}, file : Nat, count : 0 .. Blocks],
         fetches' = [fetches EXCEPT ![p] = f]
  PROVE  ResourceInv'
  <1>1. ResourceTypes'
    BY DEF ResourceInv, ResourceTypes
  <1>2. ASSUME NEW q \in Programs, KeepsWhatItWrote(q)
        PROVE  KeepsWhatItWrote(q)'
    BY <1>2 DEF KeepsWhatItWrote, ResourceInv, ResourceTypes
  <1>3. SomebodyCompletes'
    BY <1>2 DEF ResourceInv, SomebodyCompletes, Whole
  <1> QED
    BY <1>1, <1>3 DEF ResourceInv

\* The step of a program that creates the file: all that others have written is gone.
LEMMA CreateKeeps ==
  ASSUME ResourceInv, NEW p \in Programs, Create(p)
  PROVE  ResourceInv'
  <1> USE BlocksAssumption
  <1> USE DEF File
  <1>1. /\ files' \in Seq(Files) /\ path' \in DOMAIN files' /\ Len(files) <= Len(files')
        /\ fetches' = [fetches EXCEPT ![p] = [state |-> "writing", file |-> path', count |-> 0]]
        /\ hasLength' = hasLength
    <2>1. CASE path = 0
      <3> DEFINE new == [blocks |-> {}, size |-> 0, abandoned |-> FALSE]
      <3>1. new \in Files
        BY DEF Files
      <3>2. files' = Append(files, new) /\ path' = Len(files) + 1
        BY <2>1 DEF Create
      <3> QED
        BY <3>1, <3>2 DEF Create, ResourceInv, ResourceTypes
    <2>2. CASE path # 0
      <3>1. path \in DOMAIN files /\ files[path] \in Files
        BY <2>2 DEF ResourceInv, ResourceTypes
      <3>2. /\ files' = [files EXCEPT ![path] = File({}, 0, files[path].abandoned)]
            /\ path' = path
        BY <2>2, <3>1 DEF Create, ResourceInv, ResourceTypes
      <3>3. File({}, 0, files[path].abandoned) \in Files
        BY <3>1 DEF Files
      <3> QED
        BY <3>1, <3>2, <3>3 DEF Create, ResourceInv, ResourceTypes
    <2> QED
      BY <2>1, <2>2
  <1>2. ResourceTypes'
    BY <1>1 DEF ResourceInv, ResourceTypes, States
  <1>3. KeepsWhatItWrote(p)'
    BY <1>1 DEF KeepsWhatItWrote, ResourceInv, ResourceTypes
  <1> QED
    BY <1>2, <1>3 DEF ResourceInv, SomebodyCompletes

\* A block more: what is whole stays whole.
LEMMA WriteKeeps ==
  ASSUME ResourceInv, NEW p \in Programs, Write(p)
  PROVE  ResourceInv'
  <1> USE BlocksAssumption
  <1> DEFINE b == fetches[p].count + 1
             i == fetches[p].file
             new == File(files[i].blocks \cup {b}, IF files[i].size < b THEN b ELSE files[i].size, files[i].abandoned)
  <1> USE DEF File
  <1>1. /\ i \in DOMAIN files /\ files[i] \in Files /\ b \in 1 .. Blocks
        /\ files' = [files EXCEPT ![i] = new] /\ path' = path /\ hasLength' = hasLength
        /\ fetches' = [fetches EXCEPT ![p].count = b]
    BY DEF Write, ResourceInv, ResourceTypes
  <1>2. new \in Files /\ new.blocks = files[i].blocks \cup {b} /\ new.abandoned = files[i].abandoned
    BY <1>1 DEF Files
  <1>3. ResourceTypes'
    BY <1>1, <1>2 DEF ResourceInv, ResourceTypes
  <1>4. \A j \in DOMAIN files : files[j].blocks \subseteq files'[j].blocks
        /\ files'[j].abandoned = files[j].abandoned /\ files'[j].blocks \subseteq 1 .. Blocks
    <2>1. \A j \in DOMAIN files : files'[j] = (IF j = i THEN new ELSE files[j]) /\ files[j] \in Files
      BY <1>1 DEF ResourceInv, ResourceTypes
    <2> QED
      BY <1>2, <2>1 DEF Files
  <1>5. ASSUME NEW q \in Programs, KeepsWhatItWrote(q)
        PROVE  KeepsWhatItWrote(q)'
    <2>1. path \in DOMAIN files
      BY <1>5 DEF KeepsWhatItWrote, ResourceInv, ResourceTypes
    <2>2. CASE q = p
      <3>1. files'[path].blocks = files[path].blocks \cup {b} /\ 1 .. b = 1 .. fetches[p].count \cup {b}
        BY <1>1, <1>2, <1>5, <2>1, <2>2 DEF KeepsWhatItWrote, ResourceInv, ResourceTypes
      <3> QED
        BY <1>1, <1>5, <2>2, <3>1 DEF KeepsWhatItWrote, ResourceInv, ResourceTypes
    <2>3. CASE q # p
      BY <1>1, <1>4, <1>5, <2>1, <2>3 DEF KeepsWhatItWrote, ResourceInv, ResourceTypes
    <2> QED
      BY <2>2, <2>3
  <1>6. SomebodyCompletes'
    <2> SUFFICES ASSUME path' # 0, ~Whole(path)', ~files'[path'].abandoned
                 PROVE  \E q \in Programs : KeepsWhatItWrote(q)'
      BY DEF SomebodyCompletes
    <2>1. path \in DOMAIN files
      BY <1>1 DEF ResourceInv, ResourceTypes
    <2>2. ~Whole(path) /\ ~files[path].abandoned
      BY <1>1, <1>4, <2>1 DEF Whole
    <2> QED
      BY <1>1, <1>5, <2>2 DEF ResourceInv, SomebodyCompletes
  <1> QED
    BY <1>3, <1>6 DEF ResourceInv

\* Whoever stops before the end leaves a file that is marked, removed, or not the one at
\* the path; whoever has come to the end leaves one that is whole, or that another completes.
LEMMA StopKeeps ==
  ASSUME ResourceInv, NEW p \in Programs, Ends(p) \/ Breaks(p) \/ Kill(p)
  PROVE  ResourceInv'
  <1> USE BlocksAssumption
  <1> DEFINE i == fetches[p].file
  <1>1. i \in DOMAIN files /\ files[i] \in Files /\ fetches[p].state = "writing"
    BY DEF Ends, Breaks, Kill, ResourceInv, ResourceTypes
  <1>2. PICK mark \in BOOLEAN : files' = [files EXCEPT ![i].abandoned = mark] /\ (files[i].abandoned => mark)
    BY <1>1 DEF Ends, Breaks, Kill, Files
  <1>3. PICK state \in States \ {"writing"} : fetches' = [fetches EXCEPT ![p].state = state]
    BY DEF Ends, Finish, Breaks, Kill, To, States
  <1>4. path' \in {0, path} /\ hasLength' = hasLength
    BY DEF Ends, Finish, Breaks, Kill, RemoveFile
  <1>5. ResourceTypes'
    <2>1. [files[i] EXCEPT !.abandoned = mark] \in Files
      BY <1>1 DEF Files
    <2> QED
      BY SMTT(20), <1>1, <1>2, <1>3, <1>4, <2>1 DEF ResourceInv, ResourceTypes
  <1>6. \A j \in DOMAIN files : files'[j].blocks = files[j].blocks
        /\ files'[j].abandoned = (IF j = i THEN mark ELSE files[j].abandoned)
    <2>1. \A j \in DOMAIN files : files'[j] = (IF j = i THEN [files[i] EXCEPT !.abandoned = mark] ELSE files[j])
      BY <1>1, <1>2 DEF ResourceInv, ResourceTypes
    <2> QED
      BY <1>1, <2>1 DEF Files
  <1>7. ASSUME path' # 0, i = path, ~mark
        PROVE  fetches[p].count = Blocks
    <2>1. files'[i].abandoned = FALSE
      BY <1>1, <1>6, <1>7
    <2>2. ~Kill(p)
      <3> SUFFICES ASSUME Kill(p)
                   PROVE  FALSE
        OBVIOUS
      <3>1. files'[i] = [files[i] EXCEPT !.abandoned = TRUE]
        BY <1>1 DEF Kill, ResourceInv, ResourceTypes
      <3> QED
        BY <1>1, <2>1, <3>1 DEF Files
    <2>3. ~Breaks(p)
      <3> SUFFICES ASSUME Breaks(p)
                   PROVE  FALSE
        OBVIOUS
      <3>1. ~hasLength
        BY <1>7 DEF Breaks, TooShort, RemoveFile
      <3>2. (files[i].abandoned \/ ~hasLength) = TRUE
        BY <3>1
      <3>3. files'[i] = [files[i] EXCEPT !.abandoned = TRUE]
        BY <1>1, <3>2 DEF Breaks, ResourceInv, ResourceTypes
      <3> QED
        BY <1>1, <2>1, <3>3 DEF Files
    <2>4. ASSUME Ends(p), fetches[p].count # Blocks
          PROVE  FALSE
      <3>1. fetches[p].count < Blocks
        BY <2>4 DEF ResourceInv, ResourceTypes
      <3>2. hasLength => files[i].size = Blocks
        BY <1>1, <1>7, <2>4 DEF Ends, Finish, TooShort, RemoveFile, Files
      <3>3. (files[i].abandoned \/ (fetches[p].count < Blocks /\ (~hasLength \/ files[i].size = Blocks))) = TRUE
        BY <3>1, <3>2
      <3>4. files'[i] = [files[i] EXCEPT !.abandoned = TRUE]
        BY <1>1, <2>4, <3>3 DEF Ends, ResourceInv, ResourceTypes
      <3> QED
        BY <1>1, <2>1, <3>4 DEF Files
    <2> QED
      BY <2>2, <2>3, <2>4
  <1>8. SomebodyCompletes'
    <2> SUFFICES ASSUME path' # 0, ~Whole(path)', ~files'[path'].abandoned
                 PROVE  \E q \in Programs : KeepsWhatItWrote(q)'
      BY DEF SomebodyCompletes
    <2>1. path' = path /\ path \in DOMAIN files
      BY <1>4 DEF ResourceInv, ResourceTypes
    <2>2. ~Whole(path) /\ ~files[path].abandoned
      BY <1>2, <1>6, <2>1 DEF Whole
    <2>3. PICK q \in Programs : KeepsWhatItWrote(q)
      BY <2>1, <2>2 DEF ResourceInv, SomebodyCompletes
    <2>4. q # p
      <3> SUFFICES ASSUME q = p
                   PROVE  FALSE
        OBVIOUS
      <3>1. i = path /\ ~mark
        BY <1>6, <2>1, <2>3 DEF KeepsWhatItWrote
      <3>2. 1 .. Blocks \subseteq files[path].blocks
        BY <1>7, <2>3, <3>1 DEF KeepsWhatItWrote
      <3> QED
        BY <1>1, <2>2, <3>1, <3>2 DEF Whole, Files
    <2>5. KeepsWhatItWrote(q)'
      BY <1>3, <1>6, <2>1, <2>3, <2>4 DEF KeepsWhatItWrote, ResourceInv, ResourceTypes
    <2> QED
      BY <2>5
  <1> QED
    BY <1>5, <1>8 DEF ResourceInv

\* Every step of a download keeps the directory in order.
LEMMA FetchKeeps ==
  ASSUME ResourceInv, NEW p \in Programs, Fetch(p)
  PROVE  ResourceInv'
  <1> USE BlocksAssumption
  <1>1. CASE Unreachable(p) \/ AlreadyCached(p) \/ NotCached(p)
    <2>1. PICK state \in States \ {"writing"} : fetches' = To(p, state)
      BY <1>1 DEF Unreachable, AlreadyCached, NotCached, States
    <2>2. fetches' = [fetches EXCEPT ![p] = [fetches[p] EXCEPT !.state = state]]
      BY <2>1 DEF To, ResourceInv, ResourceTypes
    <2>3. [fetches[p] EXCEPT !.state = state] \in [state : States \ {"writing"}, file : Nat, count : 0 .. Blocks]
      BY DEF ResourceInv, ResourceTypes
    <2>4. fetches[p].state # "writing" /\ UNCHANGED <<hasLength, path, files>>
      BY <1>1 DEF Unreachable, AlreadyCached, NotCached
    <2> HIDE DEF States
    <2> QED
      BY <2>2, <2>3, <2>4, IdlePrograms
  <1>2. CASE Reopen(p)
    <2>1. PICK state \in States \ {"writing"} : fetches' = [fetches EXCEPT ![p] = [Idle EXCEPT !.state = state]]
      BY <1>2 DEF Reopen, States
    <2>2. [Idle EXCEPT !.state = state] \in [state : States \ {"writing"}, file : Nat, count : 0 .. Blocks]
      BY DEF Idle, States
    <2>3. fetches[p].state # "writing" /\ UNCHANGED <<hasLength, path, files>>
      BY <1>2 DEF Reopen
    <2> QED
      BY <2>1, <2>2, <2>3, IdlePrograms
  <1> QED
    BY <1>1, <1>2, CreateKeeps, WriteKeeps, StopKeeps DEF Fetch

-----------------------------------------------------------------------------
(* The database *)

ProgramFields == {"pc", "conn", "listed", "since", "todo", "hand", "reading", "disturbed", "raised"}

HasLocks(d) == "writer" \in DOMAIN d /\ "spilled" \in DOMAIN d

Shape ==
  /\ \E D : databases \in Seq(D)
  /\ databases # <<>>
  /\ \A i \in DOMAIN databases : HasLocks(databases[i])
  /\ DOMAIN programs = Programs
  /\ \A p \in Programs : DOMAIN programs[p] = ProgramFields
  /\ \A p \in Programs : programs[p].pc # "off" => programs[p].conn \in DOMAIN databases

\* Where a program may have rows that it has not committed
MayHold(i, p) ==
  /\ programs[p].conn = i
  /\ \/ programs[p].pc \in {"listed", "compared", "files", "read"}
     \/ programs[p].pc = "idle" /\ programs[p].raised = "list"
     \/ programs[p].pc = "idle" /\ programs[p].raised = "commit" /\ databases[i].spilled

WritersHold == \A i \in DOMAIN databases, p \in Programs : databases[i].writer = p => MayHold(i, p)

FetchesAreRemote == \A p \in Programs : fetches[p].state # "none" => programs[p].pc = "remote"

DatabaseInv == Shape /\ WritersHold /\ FetchesAreRemote

LEMMA HoldersFollow ==
  ASSUME DatabaseInv
  PROVE  LockHeldForCause
  BY DEF DatabaseInv, WritersHold, MayHold, LockHeldForCause

\* A program that leaves the database alone, and either holds nothing or may go on to.
LEMMA DatabaseUntouched ==
  ASSUME DatabaseInv, NEW p \in Programs, databases' = databases, NEW q, Become(p, q),
         DOMAIN q = ProgramFields, q.pc # "off" => q.conn \in DOMAIN databases,
         \A i \in DOMAIN databases : databases[i].writer = p => MayHold(i, p)'
  PROVE  Shape' /\ WritersHold'
  <1>1. /\ DOMAIN programs' = Programs /\ programs'[p] = q
        /\ \A r \in Programs \ {p} : programs'[r] = programs[r]
    BY DEF Become, DatabaseInv, Shape
  <1>2. Shape'
    BY <1>1 DEF DatabaseInv, Shape
  <1>3. ASSUME NEW i \in DOMAIN databases, NEW r \in Programs, databases[i].writer = r
        PROVE  MayHold(i, r)'
    BY <1>1, <1>3 DEF DatabaseInv, WritersHold, MayHold
  <1> QED
    BY <1>2, <1>3 DEF WritersHold

\* It may hold a database d
HoldsNow(p, d) ==
  \/ programs'[p].pc \in {"listed", "compared", "files", "read"}
  \/ programs'[p].pc = "idle" /\ programs'[p].raised = "list"
  \/ programs'[p].pc = "idle" /\ programs'[p].raised = "commit" /\ d.spilled

\* A program that changes the database it is connected to.
LEMMA DatabaseChanged ==
  ASSUME DatabaseInv, NEW p \in Programs, programs[p].pc # "off", Db(p).writer \in {p, Nobody},
         NEW d, HasLocks(d), databases' = [databases EXCEPT ![programs[p].conn] = d],
         DOMAIN programs' = Programs, DOMAIN programs'[p] = ProgramFields,
         \A r \in Programs \ {p} :
           /\ DOMAIN programs'[r] = ProgramFields
           /\ programs'[r].pc = programs[r].pc /\ programs'[r].conn = programs[r].conn
           /\ programs'[r].raised = programs[r].raised,
         programs'[p].pc # "off" => programs'[p].conn = programs[p].conn,
         \/ d.writer = Nobody
         \/ d.writer = p /\ programs'[p].pc # "off" /\ HoldsNow(p, d)
  PROVE  Shape' /\ WritersHold'
  <1> DEFINE c == programs[p].conn
  <1>1. /\ c \in DOMAIN databases /\ DOMAIN databases' = DOMAIN databases /\ databases'[c] = d
        /\ \A i \in DOMAIN databases \ {c} : databases'[i] = databases[i]
    BY DEF DatabaseInv, Shape
  <1>2. /\ \E D : databases' \in Seq(D)
        /\ databases' # <<>>
    <2>1. PICK D : databases \in Seq(D)
      BY DEF DatabaseInv, Shape
    <2>2. databases' \in Seq(D \cup {d})
      BY <1>1, <2>1
    <2> QED
      BY <1>1, <2>1, <2>2
  <1>3. Shape'
    BY <1>1, <1>2 DEF DatabaseInv, Shape
  <1>4. ASSUME NEW i \in DOMAIN databases, NEW r \in Programs, databases'[i].writer = r
        PROVE  MayHold(i, r)'
    <2>1. CASE i = c
      <3>1. d.writer = r /\ r = p
        BY <1>1, <1>4, <2>1, NobodyIsNoProgram
      <3>2. programs'[p].conn = i /\ HoldsNow(p, d) /\ databases'[i] = d
        BY <1>1, <2>1, <3>1, NobodyIsNoProgram
      <3> QED
        BY <3>1, <3>2 DEF HoldsNow, MayHold
    <2>2. CASE i # c
      <3>1. databases[i].writer = r /\ databases'[i] = databases[i]
        BY <1>1, <1>4, <2>2
      <3>2. r # p
        BY <2>2, <3>1 DEF DatabaseInv, WritersHold, MayHold
      <3> QED
        BY <3>1, <3>2 DEF DatabaseInv, WritersHold, MayHold
    <2> QED
      BY <2>1, <2>2
  <1> QED
    BY <1>1, <1>3, <1>4 DEF WritersHold

\* A program that does not fetch the list, or still does.
LEMMA FetchesStay ==
  ASSUME DatabaseInv, fetches' = fetches, NEW p \in Programs,
         \A r \in Programs \ {p} : programs'[r].pc = programs[r].pc,
         programs[p].pc # "remote" \/ programs'[p].pc = "remote"
  PROVE  FetchesAreRemote'
  BY DEF DatabaseInv, FetchesAreRemote

LEMMA ConnectKeeps ==
  ASSUME DatabaseInv, NEW p \in Programs, Connect(p)
  PROVE  DatabaseInv'
  <1>1. \A i \in DOMAIN databases : databases[i].writer # p
    BY DEF Connect, DatabaseInv, WritersHold, MayHold
  <1>2. Current \in DOMAIN databases /\ Len(databases) \in Nat /\ DOMAIN databases = 1 .. Len(databases)
    BY DEF Current, DatabaseInv, Shape
  <1>3. CASE databases' = databases
    <2> DEFINE q == [Off EXCEPT !.pc = "idle", !.conn = Current]
    <2>1. CASE Become(p, q)
      <3>1. DOMAIN q = ProgramFields /\ q.pc = "idle" /\ q.conn = Current
        BY DEF Off, ProgramFields
      <3>2. programs'[p] = q /\ \A r \in Programs \ {p} : programs'[r] = programs[r]
        BY <2>1 DEF Become, DatabaseInv, Shape
      <3>3. Shape' /\ WritersHold'
        BY <1>1, <1>2, <1>3, <2>1, <3>1, DatabaseUntouched
      <3>4. FetchesAreRemote'
        BY <3>2, FetchesStay DEF Connect, resourceVars
      <3> QED
        BY <3>3, <3>4 DEF DatabaseInv
    <2>2. CASE databases' = Append(databases, NewDatabase)
      BY <1>2, <1>3, <2>2 DEF DatabaseInv, Shape
    <2> QED
      BY <2>1, <2>2 DEF Connect
  <1>4. CASE databases' # databases
    <2> DEFINE q == [Off EXCEPT !.pc = "idle", !.conn = Current + 1]
    <2>1. databases' = Append(databases, NewDatabase) /\ Become(p, q)
      BY <1>4 DEF Connect
    <2>2. DOMAIN q = ProgramFields /\ q.pc = "idle" /\ q.conn = Current + 1
      BY DEF Off, ProgramFields
    <2>3. programs'[p] = q /\ DOMAIN programs' = Programs /\ \A r \in Programs \ {p} : programs'[r] = programs[r]
      BY <2>1 DEF Become, DatabaseInv, Shape
    <2>4. /\ \E D : databases' \in Seq(D)
          /\ DOMAIN databases' = 1 .. (Current + 1) /\ databases' # <<>>
          /\ databases'[Current + 1] = NewDatabase
          /\ \A i \in DOMAIN databases : databases'[i] = databases[i]
      <3>1. PICK D : databases \in Seq(D)
        BY DEF DatabaseInv, Shape
      <3>2. databases \in Seq(D \cup {NewDatabase})
        BY <3>1
      <3>3. databases' \in Seq(D \cup {NewDatabase})
        BY <2>1, <3>2
      <3> QED
        BY <1>2, <2>1, <3>2, <3>3 DEF Current
    <2>5. NewDatabase.writer = Nobody /\ HasLocks(NewDatabase)
      BY DEF NewDatabase, HasLocks
    <2>6. Shape'
      <3> HIDE DEF q
      <3>1. DOMAIN databases \subseteq DOMAIN databases' /\ Current + 1 \in DOMAIN databases'
        BY <1>2, <2>4 DEF Current
      <3>2. \A i \in DOMAIN databases' : HasLocks(databases'[i])
        BY <1>2, <2>4, <2>5 DEF DatabaseInv, Shape, Current
      <3>3. \A r \in Programs : DOMAIN programs'[r] = ProgramFields
        BY <2>2, <2>3 DEF DatabaseInv, Shape
      <3>4. \A r \in Programs : programs'[r].pc # "off" => programs'[r].conn \in DOMAIN databases'
        BY <2>2, <2>3, <3>1 DEF DatabaseInv, Shape
      <3> QED
        BY <2>3, <2>4, <3>2, <3>3, <3>4 DEF Shape
    <2>7. ASSUME NEW i \in DOMAIN databases', NEW r \in Programs, databases'[i].writer = r
          PROVE  MayHold(i, r)'
      <3>1. i \in DOMAIN databases /\ databases[i].writer = r /\ databases'[i] = databases[i]
        BY <1>2, <2>4, <2>5, <2>7, NobodyIsNoProgram DEF Current
      <3> QED
        BY <1>1, <2>3, <3>1 DEF DatabaseInv, WritersHold, MayHold
    <2>8. FetchesAreRemote'
      BY <2>2, <2>3, FetchesStay DEF Connect, resourceVars
    <2> QED
      BY <2>6, <2>7, <2>8 DEF DatabaseInv, WritersHold
  <1> QED
    BY <1>3, <1>4

LEMMA ExitKeeps ==
  ASSUME DatabaseInv, NEW p \in Programs, Exit(p), ResourceInv
  PROVE  DatabaseInv'
  <1> DEFINE c == programs[p].conn
             d == IF databases[c].writer = p
                  THEN [databases[c] EXCEPT !.writer = Nobody, !.draft = {}, !.spilled = FALSE] ELSE databases[c]
  <1>1. programs'[p] = Off /\ DOMAIN programs' = Programs /\ \A r \in Programs \ {p} : programs'[r] = programs[r]
    BY DEF Exit, Become, DatabaseInv, Shape
  <1>2. DOMAIN Off = ProgramFields /\ Off.pc = "off"
    BY DEF Off, ProgramFields
  <1>3. fetches'[p].state = "none" /\ \A r \in Programs \ {p} : fetches'[r] = fetches[r]
    BY DEF Exit, Idle, ResourceInv, ResourceTypes
  <1>4. FetchesAreRemote'
    BY <1>1, <1>3 DEF DatabaseInv, FetchesAreRemote
  <1>5. c \in DOMAIN databases /\ databases' = [databases EXCEPT ![c] = d] /\ HasLocks(databases[c])
    BY DEF Exit, DatabaseInv, Shape
  <1>6. CASE databases[c].writer = p
    <2>1. HasLocks(d) /\ d.writer = Nobody
      BY <1>5, <1>6 DEF HasLocks
    <2>2. programs[p].pc # "off" /\ Db(p).writer \in {p, Nobody}
      BY <1>6 DEF Exit, Db
    <2> HIDE DEF d
    <2>3. Shape' /\ WritersHold'
      BY <1>1, <1>2, <1>5, <2>1, <2>2, DatabaseChanged DEF DatabaseInv, Shape
    <2> QED
      BY <1>4, <2>3 DEF DatabaseInv
  <1>7. CASE databases[c].writer # p
    <2>1. databases' = databases
      <3>1. PICK D : databases \in Seq(D)
        BY DEF DatabaseInv, Shape
      <3>2. databases \in [1 .. Len(databases) -> D] /\ d = databases[c]
        BY <1>7, <3>1
      <3> HIDE DEF d
      <3> QED
        BY <1>5, <3>2
    <2>2. \A i \in DOMAIN databases : databases[i].writer # p
      BY <1>7 DEF DatabaseInv, WritersHold, MayHold
    <2>3. Become(p, Off)
      BY DEF Exit
    <2>4. Shape' /\ WritersHold'
      BY <1>2, <2>1, <2>2, <2>3, DatabaseUntouched
    <2> QED
      BY <1>4, <2>4 DEF DatabaseInv
  <1> QED
    BY <1>6, <1>7

\* The steps of update() that leave the rows alone, or find the database locked.
LEMMA UpdateKeeps ==
  ASSUME DatabaseInv, NEW p \in Programs, NEW q, Become(p, q), fetches' = fetches, databases' = databases,
         DOMAIN q = ProgramFields, q.conn = programs[p].conn,
         \/ q.pc \in {"listed", "compared", "files", "read"}
         \/ q.pc \in {"idle", "remote"} /\ \A i \in DOMAIN databases : databases[i].writer # p,
         programs[p].pc \notin {"off", "remote"}
  PROVE  DatabaseInv'
  <1>1. programs'[p] = q /\ \A r \in Programs \ {p} : programs'[r] = programs[r]
    BY DEF Become, DatabaseInv, Shape
  <1>2. \A i \in DOMAIN databases : databases[i].writer = p => MayHold(i, p)'
    BY <1>1 DEF DatabaseInv, WritersHold, MayHold
  <1>3. q.pc # "off" => q.conn \in DOMAIN databases
    BY DEF DatabaseInv, Shape
  <1>4. Shape' /\ WritersHold'
    BY <1>2, <1>3, DatabaseUntouched
  <1>5. FetchesAreRemote'
    BY <1>1, FetchesStay
  <1> QED
    BY <1>4, <1>5 DEF DatabaseInv

\* The steps of update() that write rows or commit them; the writer is p while it goes on.
LEMMA WritingKeeps ==
  ASSUME DatabaseInv, NEW p \in Programs, NEW d, MayWrite(p), fetches' = fetches,
         databases' = [databases EXCEPT ![programs[p].conn] = d], HasLocks(d),
         DOMAIN programs' = Programs, DOMAIN programs'[p] = ProgramFields,
         \A r \in Programs \ {p} :
           /\ DOMAIN programs'[r] = ProgramFields
           /\ programs'[r].pc = programs[r].pc /\ programs'[r].conn = programs[r].conn
           /\ programs'[r].raised = programs[r].raised,
         programs'[p].conn = programs[p].conn,
         d.writer = Nobody \/ (d.writer = p /\ programs'[p].pc \in {"listed", "compared", "files", "read"}),
         programs[p].pc \notin {"off", "remote"}
  PROVE  DatabaseInv'
  <1>1. Shape' /\ WritersHold'
    BY DatabaseChanged DEF MayWrite, HoldsNow
  <1>2. FetchesAreRemote'
    BY FetchesStay
  <1> QED
    BY <1>1, <1>2 DEF DatabaseInv

\* A commit, of a program that goes on as q.
LEMMA CommitKeeps ==
  ASSUME DatabaseInv, NEW p \in Programs, programs[p].pc # "off", MayWrite(p), NEW rows,
         NEW q, DOMAIN q = ProgramFields, q.conn = programs[p].conn, Commit(p, rows, q)
  PROVE  /\ Shape' /\ WritersHold'
         /\ programs'[p] = q \/ programs'[p] = Over(p, "commit")
         /\ \A r \in Programs \ {p} : programs'[r].pc = programs[r].pc
  <1>1. /\ DOMAIN programs = Programs /\ \A r \in Programs : DOMAIN programs[r] = ProgramFields
        /\ programs[p].conn \in DOMAIN databases /\ HasLocks(databases[programs[p].conn])
    BY DEF DatabaseInv, Shape
  <1>2. Db(p).writer \in {p, Nobody}
    BY DEF MayWrite
  <1>3. CASE Readers(p) # {}
    <2> DEFINE d == [databases[programs[p].conn] EXCEPT !.draft = rows, !.writer = p, !.spilled = TRUE]
               o == Over(p, "commit")
    <2>1. databases' = [databases EXCEPT ![programs[p].conn] = d] /\ Become(p, o)
      BY <1>1, <1>3 DEF Commit, Raises, Drafted
    <2>2. HasLocks(d) /\ d.writer = p /\ d.spilled
      BY <1>1 DEF HasLocks
    <2>3. DOMAIN o = ProgramFields /\ o.conn = programs[p].conn /\ o.pc = "idle" /\ o.raised = "commit"
      BY DEF Over, Off, ProgramFields
    <2> HIDE DEF d, o
    <2>4. programs'[p] = o /\ DOMAIN programs' = Programs /\ \A r \in Programs \ {p} : programs'[r] = programs[r]
      BY <1>1, <2>1 DEF Become
    <2>5. HoldsNow(p, d) /\ programs'[p].pc # "off" /\ programs'[p].conn = programs[p].conn
      BY <2>2, <2>3, <2>4 DEF HoldsNow
    <2>6. ASSUME NEW r \in Programs \ {p}
          PROVE  /\ DOMAIN programs'[r] = ProgramFields
                 /\ programs'[r].pc = programs[r].pc /\ programs'[r].conn = programs[r].conn
                 /\ programs'[r].raised = programs[r].raised
      BY <1>1, <2>4
    <2>7. DOMAIN programs'[p] = ProgramFields /\ (programs'[p].pc # "off" => programs'[p].conn = programs[p].conn)
      BY <2>3, <2>4, <2>5
    <2>8. d.writer = p /\ programs'[p].pc # "off" /\ HoldsNow(p, d)
      BY <2>2, <2>5
    <2>9. Shape' /\ WritersHold'
      BY ZenonT(30), <1>2, <2>1, <2>2, <2>4, <2>6, <2>7, <2>8, DatabaseChanged
    <2> QED
      BY <2>4, <2>9 DEF o
  <1>4. CASE Readers(p) = {}
    <2> DEFINE d == [rows |-> rows, draft |-> {}, writer |-> Nobody, spilled |-> FALSE]
    <2>1. databases' = [databases EXCEPT ![programs[p].conn] = d]
      BY <1>4 DEF Commit, CommittedRows
    <2>2. HasLocks(d) /\ d.writer = Nobody
      BY DEF HasLocks
    <2> HIDE DEF d
    <2>3. DOMAIN programs' = Programs /\ programs'[p] = q
      BY <1>4 DEF Commit
    <2>4. ASSUME NEW r \in Programs \ {p}
          PROVE  /\ DOMAIN programs'[r] = ProgramFields
                 /\ programs'[r].pc = programs[r].pc /\ programs'[r].conn = programs[r].conn
                 /\ programs'[r].raised = programs[r].raised
      <3>1. programs'[r] = programs[r] \/ programs'[r] = [programs[r] EXCEPT !.disturbed = TRUE]
        BY <1>4 DEF Commit
      <3> QED
        BY <1>1, <3>1 DEF ProgramFields
    <2>5. Shape' /\ WritersHold'
      BY <1>2, <2>1, <2>2, <2>3, <2>4, DatabaseChanged
    <2> QED
      BY <2>3, <2>4, <2>5
  <1> QED
    BY <1>3, <1>4

\* An exception over a locked database: another program holds it.
LEMMA LockedKeeps ==
  ASSUME DatabaseInv, NEW p \in Programs, Raises(p, "locked"), fetches' = fetches, databases' = databases,
         ~MayRead(p) \/ ~MayWrite(p), programs[p].pc \in {"listed", "compared"}
  PROVE  DatabaseInv'
  <1> DEFINE q == Over(p, "locked")
  <1>1. DOMAIN q = ProgramFields /\ q.conn = programs[p].conn /\ q.pc = "idle"
    BY DEF Over, Off, ProgramFields
  <1>2. \A i \in DOMAIN databases : databases[i].writer # p
    BY DEF DatabaseInv, WritersHold, MayHold, MayRead, MayWrite, Db
  <1> QED
    BY <1>1, <1>2, UpdateKeeps DEF Raises

LEMMA ListKeeps ==
  ASSUME DatabaseInv, NEW p \in Programs, List(p)
  PROVE  DatabaseInv'
  <1> DEFINE q == [programs[p] EXCEPT !.pc = "listed", !.listed = DOMAIN disk, !.since = clock,
                                      !.disturbed = FALSE, !.raised = ""]
  <1>1. DOMAIN q = ProgramFields /\ q.conn = programs[p].conn /\ q.pc = "listed"
    BY DEF DatabaseInv, Shape, ProgramFields
  <1>2. Become(p, q) /\ fetches' = fetches /\ databases' = databases /\ programs[p].pc = "idle"
    BY DEF List, resourceVars
  <1> HIDE DEF q
  <1> QED
    BY <1>1, <1>2, UpdateKeeps

LEMMA CompareKeeps ==
  ASSUME DatabaseInv, NEW p \in Programs, Compare(p)
  PROVE  DatabaseInv'
  <1> DEFINE todo == programs[p].listed \ {r.location : r \in LocalRows(View(p))}
             missing == {r.location : r \in LocalRows(View(p))} \ programs[p].listed
             kept == Delete(View(p), missing)
             ready == [programs[p] EXCEPT !.pc = "compared", !.todo = todo]
  <1>1. DOMAIN ready = ProgramFields /\ ready.conn = programs[p].conn /\ ready.pc = "compared"
    BY DEF DatabaseInv, Shape, ProgramFields
  <1>2. fetches' = fetches /\ programs[p].pc = "listed"
    BY DEF Compare, resourceVars
  <1>3. \/ (~MayRead(p) \/ ~MayWrite(p)) /\ Raises(p, "locked") /\ databases' = databases
        \/ Become(p, ready) /\ databases' = databases
        \/ MayWrite(p) /\ Commit(p, kept, ready)
    BY DEF Compare
  <1> HIDE DEF ready, kept
  <1>4. CASE (~MayRead(p) \/ ~MayWrite(p)) /\ Raises(p, "locked") /\ databases' = databases
    BY <1>2, <1>4, LockedKeeps
  <1>5. CASE Become(p, ready) /\ databases' = databases
    BY <1>1, <1>2, <1>5, UpdateKeeps
  <1>6. CASE MayWrite(p) /\ Commit(p, kept, ready)
    <2>1. Shape' /\ WritersHold' /\ \A r \in Programs \ {p} : programs'[r].pc = programs[r].pc
      BY <1>1, <1>2, <1>6, CommitKeeps
    <2>2. FetchesAreRemote'
      BY <1>2, <2>1, FetchesStay
    <2> QED
      BY <2>1, <2>2 DEF DatabaseInv
  <1> QED
    BY <1>3, <1>4, <1>5, <1>6

LEMMA CheckKeeps ==
  ASSUME DatabaseInv, NEW p \in Programs, Check(p)
  PROVE  DatabaseInv'
  <1> DEFINE again == {r.location : r \in {x \in LocalRows(View(p)) :
                         x.location \in programs[p].listed \ programs[p].todo /\ Outdated(x)}}
             q == [programs[p] EXCEPT !.pc = "files", !.todo = @ \cup again]
  <1>1. DOMAIN q = ProgramFields /\ q.conn = programs[p].conn /\ q.pc = "files"
    BY DEF DatabaseInv, Shape, ProgramFields
  <1>2. fetches' = fetches /\ databases' = databases /\ programs[p].pc = "compared"
    BY DEF Check, resourceVars
  <1>3. (~MayRead(p) /\ Raises(p, "locked")) \/ Become(p, q)
    BY DEF Check
  <1> HIDE DEF q
  <1> QED
    BY <1>1, <1>2, <1>3, UpdateKeeps, LockedKeeps

LEMMA ReadKeeps ==
  ASSUME DatabaseInv, NEW p \in Programs, NEW l \in Locations, Read(p, l)
  PROVE  DatabaseInv'
  <1> DEFINE hand == <<[location |-> l, identifier |-> disk[l].content, local |-> TRUE, cached |-> 0, read |-> clock]>>
             q1 == [programs[p] EXCEPT !.pc = "read", !.hand = hand]
             q2 == [programs[p] EXCEPT !.todo = @ \ {l}]
  <1>1. /\ DOMAIN q1 = ProgramFields /\ q1.conn = programs[p].conn /\ q1.pc = "read"
        /\ DOMAIN q2 = ProgramFields /\ q2.conn = programs[p].conn /\ q2.pc = programs[p].pc
    BY DEF DatabaseInv, Shape, ProgramFields
  <1>2. fetches' = fetches /\ databases' = databases /\ programs[p].pc = "files"
    BY DEF Read, resourceVars
  <1>3. Become(p, q1) \/ Become(p, q2)
    BY DEF Read
  <1> HIDE DEF q1, q2
  <1> QED
    BY <1>1, <1>2, <1>3, UpdateKeeps

LEMMA StoreKeeps ==
  ASSUME DatabaseInv, NEW p \in Programs, Store(p)
  PROVE  DatabaseInv'
  <1> DEFINE row == [programs[p].hand[1] EXCEPT !.cached = clock]
             stored == [programs[p] EXCEPT !.pc = "files", !.todo = @ \ {row.location}, !.hand = <<>>]
             q == [stored EXCEPT !.disturbed = TRUE]
             rows == Replace(View(p), row)
             c == programs[p].conn
  <1>1. /\ DOMAIN stored = ProgramFields /\ stored.conn = programs[p].conn /\ stored.pc = "files"
        /\ DOMAIN q = ProgramFields /\ q.conn = programs[p].conn /\ q.pc = "files"
    BY DEF DatabaseInv, Shape, ProgramFields
  <1>2. fetches' = fetches /\ programs[p].pc = "read"
    BY DEF Store, resourceVars
  <1>3. \/ MayWrite(p) /\ Changes(p, rows) /\ Become(p, stored)
        \/ databases' = databases /\ Become(p, q)
    BY DEF Store
  <1> HIDE DEF stored, q, rows
  <1>4. CASE MayWrite(p) /\ Changes(p, rows) /\ Become(p, stored)
    <2>1. PICK spilled \in BOOLEAN :
            databases' = [databases EXCEPT ![c] = [@ EXCEPT !.draft = rows, !.writer = p, !.spilled = spilled]]
      BY <1>4 DEF Changes, Drafted
    <2> DEFINE d == [databases[c] EXCEPT !.draft = rows, !.writer = p, !.spilled = spilled]
    <2>2. c \in DOMAIN databases
      BY <1>2 DEF DatabaseInv, Shape
    <2>3. HasLocks(d) /\ d.writer = p /\ databases' = [databases EXCEPT ![c] = d]
      BY <2>1, <2>2 DEF DatabaseInv, Shape, HasLocks
    <2>4. DOMAIN programs' = Programs /\ programs'[p] = stored /\ \A r \in Programs \ {p} : programs'[r] = programs[r]
      BY <1>4 DEF Become, DatabaseInv, Shape
    <2>5. \A r \in Programs : DOMAIN programs[r] = ProgramFields
      BY DEF DatabaseInv, Shape
    <2> HIDE DEF d
    <2> QED
      BY <1>1, <1>2, <1>4, <2>3, <2>4, <2>5, WritingKeeps
  <1>5. CASE databases' = databases /\ Become(p, q)
    BY <1>1, <1>2, <1>5, UpdateKeeps
  <1> QED
    BY <1>3, <1>4, <1>5

\* What was stored is committed: the program holds nothing when it goes on to the remote list.
LEMMA EndOfFilesKeeps ==
  ASSUME DatabaseInv, NEW p \in Programs, EndOfFiles(p)
  PROVE  DatabaseInv'
  <1> DEFINE q == IF offline THEN Over(p, "") ELSE [Over(p, "") EXCEPT !.pc = "remote"]
  <1>1. DOMAIN q = ProgramFields /\ q.conn = programs[p].conn /\ q.pc \in {"idle", "remote"}
    BY DEF Over, Off, ProgramFields
  <1>2. fetches' = fetches /\ programs[p].pc = "files" /\ CommitChanges(p, q)
    BY DEF EndOfFiles, resourceVars, FilesCommitted
  <1> HIDE DEF q
  <1>3. CASE Db(p).writer = p
    <2>1. Commit(p, View(p), q) /\ MayWrite(p)
      BY <1>2, <1>3 DEF CommitChanges, MayWrite
    <2>2. PICK rows : rows = View(p)
      OBVIOUS
    <2>3. Shape' /\ WritersHold' /\ \A r \in Programs \ {p} : programs'[r].pc = programs[r].pc
      BY <1>1, <1>2, <2>1, <2>2, CommitKeeps
    <2>4. FetchesAreRemote'
      BY <1>2, <2>3, FetchesStay
    <2> QED
      BY <2>3, <2>4 DEF DatabaseInv
  <1>4. CASE Db(p).writer # p
    <2>1. /\ databases' = databases /\ Become(p, q)
          /\ \A i \in DOMAIN databases : databases[i].writer # p
      BY <1>2, <1>4 DEF CommitChanges, Db, DatabaseInv, WritersHold, MayHold
    <2> QED
      BY <1>1, <1>2, <2>1, UpdateKeeps
  <1> QED
    BY <1>3, <1>4

\* What happens to the list happens to programs that hold nothing.
LEMMA RemoteHoldsNothing ==
  ASSUME DatabaseInv, NEW p \in Programs, fetches[p].state # "none"
  PROVE  programs[p].pc = "remote" /\ \A i \in DOMAIN databases : databases[i].writer # p
  BY DEF DatabaseInv, FetchesAreRemote, WritersHold, MayHold

LEMMA FetchingKeeps ==
  ASSUME DatabaseInv, NEW p \in Programs, ResourceInv, FetchList(p)
  PROVE  DatabaseInv'
  <1>1. programs[p].pc = "remote" /\ programs' = programs /\ databases' = databases
    BY DEF FetchList
  <1>2. \A r \in Programs \ {p} : fetches'[r] = fetches[r]
    BY DEF FetchList, Fetch, Unreachable, AlreadyCached, NotCached, Create, Write, Ends, Finish,
           Breaks, Reopen, Kill, To, ResourceInv, ResourceTypes
  <1>3. Shape' /\ WritersHold'
    BY <1>1 DEF DatabaseInv, Shape, WritersHold, MayHold
  <1>4. FetchesAreRemote'
    BY <1>1, <1>2 DEF DatabaseInv, FetchesAreRemote
  <1> QED
    BY <1>3, <1>4 DEF DatabaseInv

\* Whether it is reading or not, the program holds nothing while the list is fetched.
LEMMA AskForListKeeps ==
  ASSUME DatabaseInv, NEW p \in Programs, ResourceInv, AskForList(p)
  PROVE  DatabaseInv'
  <1> DEFINE read == [programs[p] EXCEPT !.reading = \E r \in View(p) : ~r.local /\ r.cached < clock - Period]
             over == Over(p, "locked")
  <1>1. /\ programs[p].pc = "remote" /\ fetches[p].state = "none" /\ databases' = databases
        /\ Become(p, read) \/ (Become(p, over) /\ fetches' = fetches)
        /\ \A r \in Programs \ {p} : fetches'[r] = fetches[r]
    BY DEF AskForList, Raises, To, ResourceInv, ResourceTypes
  <1>2. /\ DOMAIN read = ProgramFields /\ read.conn = programs[p].conn /\ read.pc = "remote"
        /\ DOMAIN over = ProgramFields /\ over.conn = programs[p].conn /\ over.pc = "idle"
    BY <1>1 DEF Over, Off, ProgramFields, DatabaseInv, Shape
  <1> HIDE DEF read, over
  <1>3. PICK q : Become(p, q) /\ (q = read \/ (q = over /\ fetches' = fetches))
    BY <1>1
  <1>4. DOMAIN q = ProgramFields /\ q.conn \in DOMAIN databases
    BY <1>1, <1>2, <1>3 DEF DatabaseInv, Shape
  <1>5. \A i \in DOMAIN databases : databases[i].writer # p
    BY <1>1 DEF DatabaseInv, WritersHold, MayHold
  <1>6. Shape' /\ WritersHold'
    BY <1>1, <1>3, <1>4, <1>5, DatabaseUntouched
  <1>7. programs'[p] = q /\ \A r \in Programs \ {p} : programs'[r] = programs[r]
    BY <1>3 DEF Become, DatabaseInv, Shape
  <1>8. FetchesAreRemote'
    BY <1>1, <1>2, <1>3, <1>7 DEF DatabaseInv, FetchesAreRemote
  <1> QED
    BY <1>6, <1>8 DEF DatabaseInv

LEMMA NoListKeeps ==
  ASSUME DatabaseInv, ResourceInv, NEW p \in Programs, NoList(p)
  PROVE  DatabaseInv'
  <1> DEFINE q == Over(p, "no list")
  <1>1. DOMAIN q = ProgramFields /\ q.conn = programs[p].conn /\ q.pc = "idle"
    BY DEF Over, Off, ProgramFields
  <1>2. /\ programs[p].pc = "remote" /\ \A i \in DOMAIN databases : databases[i].writer # p
        /\ Become(p, q) /\ databases' = databases
    BY RemoteHoldsNothing DEF NoList, Raises
  <1>3. q.conn \in DOMAIN databases
    BY <1>1, <1>2 DEF DatabaseInv, Shape
  <1>4. Shape' /\ WritersHold'
    BY <1>1, <1>2, <1>3, DatabaseUntouched
  <1>5. fetches'[p].state = "none" /\ \A r \in Programs \ {p} : fetches'[r] = fetches[r]
    BY DEF NoList, Idle, ResourceInv, ResourceTypes
  <1>6. \A r \in Programs \ {p} : programs'[r] = programs[r]
    BY <1>2 DEF Become, DatabaseInv, Shape
  <1>7. FetchesAreRemote'
    BY <1>5, <1>6 DEF DatabaseInv, FetchesAreRemote
  <1> QED
    BY <1>4, <1>7 DEF DatabaseInv

\* Only a list that cannot be used makes a program the writer and lets it go idle.
LEMMA EnterListKeeps ==
  ASSUME DatabaseInv, ResourceInv, NEW p \in Programs, EnterList(p)
  PROVE  DatabaseInv'
  <1> DEFINE c == programs[p].conn
  <1>1. /\ programs[p].pc = "remote" /\ \A i \in DOMAIN databases : databases[i].writer # p
        /\ c \in DOMAIN databases
    <2>1. fetches[p].state # "none"
      BY DEF EnterList
    <2>2. programs[p].pc = "remote" /\ \A i \in DOMAIN databases : databases[i].writer # p
      BY <2>1, RemoteHoldsNothing
    <2> QED
      BY <2>2 DEF DatabaseInv, Shape
  <1>2. Db(p).writer # p
    BY <1>1 DEF Db
  <1>3. \/ \E why : Become(p, Over(p, why)) /\ databases' = databases
        \/ \E rows : MayWrite(p) /\ Commit(p, rows, Over(p, ""))
        \/ \E rows : MayWrite(p) /\ Become(p, Over(p, "list")) /\ Changes(p, rows)
    <2>1. PICK list \in RemoteLists :
            IF list.entries # <<>> /\ ~MayWrite(p) THEN Raises(p, "locked") /\ UNCHANGED databases
            ELSE IF list.raises
              THEN /\ Raises(p, "list")
                   /\ IF list.entries = <<>> THEN UNCHANGED databases ELSE Changes(p, Stored(p, list.entries))
            ELSE IF list.entries = <<>> THEN CommitChanges(p, Over(p, ""))
            ELSE Commit(p, Stored(p, list.entries), Over(p, ""))
      BY DEF EnterList
    <2>2. CASE list.entries # <<>> /\ ~MayWrite(p)
      BY <2>1, <2>2 DEF Raises
    <2>3. CASE list.entries = <<>>
      BY <1>2, <2>1, <2>3 DEF Raises, CommitChanges
    <2>4. CASE list.entries # <<>> /\ MayWrite(p) /\ list.raises
      BY <2>1, <2>4 DEF Raises
    <2>5. CASE list.entries # <<>> /\ MayWrite(p) /\ ~list.raises
      BY <2>1, <2>5
    <2> QED
      BY <2>2, <2>3, <2>4, <2>5
  <1>4. \A w : /\ DOMAIN Over(p, w) = ProgramFields /\ Over(p, w).conn = c
               /\ Over(p, w).pc = "idle" /\ Over(p, w).raised = w
    BY DEF Over, Off, ProgramFields
  <1>5. DOMAIN programs = Programs /\ \A r \in Programs : DOMAIN programs[r] = ProgramFields
    BY DEF DatabaseInv, Shape
  <1>6. Shape' /\ WritersHold' /\ \A r \in Programs \ {p} : programs'[r].pc = programs[r].pc
    <2>1. CASE \E why : Become(p, Over(p, why)) /\ databases' = databases
      <3>1. PICK why : Become(p, Over(p, why)) /\ databases' = databases
        BY <2>1
      <3>2. Shape' /\ WritersHold'
        BY <1>1, <1>4, <3>1, DatabaseUntouched
      <3>3. \A r \in Programs \ {p} : programs'[r] = programs[r]
        BY <1>5, <3>1 DEF Become
      <3> QED
        BY <3>2, <3>3
    <2>2. CASE \E rows : MayWrite(p) /\ Commit(p, rows, Over(p, ""))
      <3>1. PICK rows, q : q = Over(p, "") /\ MayWrite(p) /\ Commit(p, rows, q)
        BY <2>2
      <3>2. DOMAIN q = ProgramFields /\ q.conn = programs[p].conn /\ programs[p].pc # "off"
        BY <1>1, <1>4, <3>1
      <3> QED
        BY <3>1, <3>2, CommitKeeps
    <2>3. CASE \E rows : MayWrite(p) /\ Become(p, Over(p, "list")) /\ Changes(p, rows)
      <3>1. PICK rows : MayWrite(p) /\ Become(p, Over(p, "list")) /\ Changes(p, rows)
        BY <2>3
      <3>2. PICK spilled \in BOOLEAN :
              databases' = [databases EXCEPT ![c] = [@ EXCEPT !.draft = rows, !.writer = p, !.spilled = spilled]]
        BY <3>1 DEF Changes, Drafted
      <3> DEFINE d == [databases[c] EXCEPT !.draft = rows, !.writer = p, !.spilled = spilled]
      <3>3. HasLocks(d) /\ d.writer = p /\ databases' = [databases EXCEPT ![c] = d]
        BY <1>1, <3>2 DEF DatabaseInv, Shape, HasLocks
      <3>4. /\ DOMAIN programs' = Programs /\ programs'[p] = Over(p, "list")
            /\ \A r \in Programs \ {p} : programs'[r] = programs[r]
        BY <1>5, <3>1 DEF Become
      <3>5. HoldsNow(p, d) /\ programs'[p].pc # "off"
        BY <1>4, <3>4 DEF HoldsNow
      <3> HIDE DEF d
      <3>6. /\ programs[p].pc # "off" /\ Db(p).writer \in {p, Nobody} /\ DOMAIN programs'[p] = ProgramFields
            /\ programs'[p].conn = programs[p].conn /\ databases' = [databases EXCEPT ![programs[p].conn] = d]
        BY <1>1, <1>4, <3>1, <3>3, <3>4 DEF MayWrite
      <3>7. \A r \in Programs \ {p} : DOMAIN programs'[r] = ProgramFields /\ programs'[r] = programs[r]
        BY <1>5, <3>4
      <3> HIDE DEF c
      <3>8. Shape' /\ WritersHold'
        BY ZenonT(30), <3>3, <3>4, <3>5, <3>6, <3>7, DatabaseChanged
      <3> QED
        BY <3>4, <3>8
    <2> QED
      BY <1>3, <2>1, <2>2, <2>3
  <1>7. fetches'[p].state = "none" /\ \A r \in Programs \ {p} : fetches'[r] = fetches[r]
    BY DEF EnterList, Idle, ResourceInv, ResourceTypes
  <1>8. FetchesAreRemote'
    BY <1>6, <1>7 DEF DatabaseInv, FetchesAreRemote
  <1> QED
    BY <1>6, <1>8 DEF DatabaseInv

-----------------------------------------------------------------------------
(* Every step *)

\* A step that has nothing to do with the programs: a file changes, or time passes.
LEMMA OthersKeep ==
  ASSUME ResourceInv, DatabaseInv, UNCHANGED <<resourceVars, databases, programs>>
  PROVE  ResourceInv' /\ DatabaseInv'
  <1>1. ResourceInv'
    BY DEF ResourceInv, ResourceTypes, SomebodyCompletes, KeepsWhatItWrote, Whole, resourceVars
  <1>2. DatabaseInv'
    BY DEF DatabaseInv, Shape, WritersHold, MayHold, FetchesAreRemote, resourceVars
  <1> QED
    BY <1>1, <1>2

\* The steps that have nothing to do with the directory of downloads.
LEMMA DirectoryUntouched ==
  ASSUME ResourceInv, UNCHANGED resourceVars
  PROVE  ResourceInv'
  BY DEF ResourceInv, ResourceTypes, SomebodyCompletes, KeepsWhatItWrote, Whole, resourceVars

\* The steps of a program around its download: it does not write.
LEMMA AroundTheFetch ==
  ASSUME ResourceInv, NEW p \in Programs, AskForList(p) \/ NoList(p) \/ EnterList(p) \/ Exit(p)
  PROVE  ResourceInv'
  <1>1. UNCHANGED <<hasLength, path, files>> /\ fetches[p].state # "writing"
    BY DEF AskForList, NoList, EnterList, Exit
  <1>2. PICK f \in [state : States \ {"writing"}, file : Nat, count : 0 .. Blocks] : fetches' = [fetches EXCEPT ![p] = f]
    <2>0. CASE fetches' = fetches
      <3>1. fetches[p] \in [state : States \ {"writing"}, file : Nat, count : 0 .. Blocks]
        BY <1>1 DEF ResourceInv, ResourceTypes
      <3>2. fetches' = [fetches EXCEPT ![p] = fetches[p]]
        BY <2>0 DEF ResourceInv, ResourceTypes
      <3> QED
        BY <3>1, <3>2
    <2>1. CASE fetches' = To(p, "asking")
      <3> DEFINE f == [fetches[p] EXCEPT !.state = "asking"]
      <3>1. f \in [state : States \ {"writing"}, file : Nat, count : 0 .. Blocks]
        BY DEF ResourceInv, ResourceTypes, States
      <3>2. fetches' = [fetches EXCEPT ![p] = f]
        BY <2>1 DEF To
      <3> QED
        BY <3>1, <3>2
    <2>2. CASE NoList(p) \/ EnterList(p) \/ Exit(p)
      <3>1. Idle \in [state : States \ {"writing"}, file : Nat, count : 0 .. Blocks]
        BY BlocksAssumption DEF Idle, States
      <3> QED
        BY <2>2, <3>1 DEF NoList, EnterList, Exit
    <2> QED
      BY <2>0, <2>1, <2>2 DEF AskForList
  <1> QED
    BY <1>1, <1>2, IdlePrograms

\* At first there is no file, and no program is connected.
LEMMA InitialCache ==
  ASSUME Init
  PROVE  ResourceInv /\ DatabaseInv
  <1>1. ResourceInv
    BY BlocksAssumption
    DEF Init, ResourceInit, ResourceInv, ResourceTypes, SomebodyCompletes, Idle, States
  <1>2. DOMAIN Off = ProgramFields /\ Off.pc = "off" /\ NewDatabase.writer = Nobody /\ HasLocks(NewDatabase)
    BY DEF Off, ProgramFields, NewDatabase, HasLocks
  <1>3. databases \in Seq({NewDatabase}) /\ databases # <<>> /\ \A i \in DOMAIN databases : databases[i] = NewDatabase
    BY DEF Init
  <1>4. DOMAIN programs = Programs /\ \A p \in Programs : programs[p] = Off /\ fetches[p].state = "none"
    BY DEF Init, ResourceInit, Idle
  <1>5. Shape
    BY <1>2, <1>3, <1>4 DEF Shape
  <1>6. WritersHold /\ FetchesAreRemote
    BY <1>2, <1>3, <1>4, NobodyIsNoProgram DEF WritersHold, FetchesAreRemote
  <1> QED
    BY <1>1, <1>5, <1>6 DEF DatabaseInv

\* Whatever the programs, the server and the files do, in the order the code does it, both
\* invariants hold: of the file at the path the last program to create it has written a prefix,
\* and a program holds its database only within update(), after an exception over a list, or after a
\* commit that failed.
THEOREM CacheInductive == Spec => [](ResourceInv /\ DatabaseInv)
  <1>1. Init => ResourceInv /\ DatabaseInv
    BY InitialCache
  <1>2. ResourceInv /\ DatabaseInv /\ [Next]_symbolVars => (ResourceInv /\ DatabaseInv)'
    <2> SUFFICES ASSUME ResourceInv, DatabaseInv, [Next]_symbolVars
                 PROVE  ResourceInv' /\ DatabaseInv'
      OBVIOUS
    <2>1. ASSUME NEW p \in Programs, Connect(p)
          PROVE  ResourceInv' /\ DatabaseInv'
      BY <2>1, ConnectKeeps, DirectoryUntouched DEF Connect
    <2>2. ASSUME NEW p \in Programs, Exit(p)
          PROVE  ResourceInv' /\ DatabaseInv'
      BY <2>2, ExitKeeps, AroundTheFetch
    <2>3. ASSUME NEW p \in Programs, List(p)
          PROVE  ResourceInv' /\ DatabaseInv'
      BY <2>3, ListKeeps, DirectoryUntouched DEF List
    <2>4. ASSUME NEW p \in Programs, Compare(p)
          PROVE  ResourceInv' /\ DatabaseInv'
      BY <2>4, CompareKeeps, DirectoryUntouched DEF Compare
    <2>5. ASSUME NEW p \in Programs, Check(p)
          PROVE  ResourceInv' /\ DatabaseInv'
      BY <2>5, CheckKeeps, DirectoryUntouched DEF Check
    <2>6. ASSUME NEW p \in Programs, Store(p)
          PROVE  ResourceInv' /\ DatabaseInv'
      BY <2>6, StoreKeeps, DirectoryUntouched DEF Store
    <2>7. ASSUME NEW p \in Programs, EndOfFiles(p)
          PROVE  ResourceInv' /\ DatabaseInv'
      BY <2>7, EndOfFilesKeeps, DirectoryUntouched DEF EndOfFiles
    <2>8. ASSUME NEW p \in Programs, AskForList(p)
          PROVE  ResourceInv' /\ DatabaseInv'
      BY <2>8, AskForListKeeps, AroundTheFetch
    <2>9. ASSUME NEW p \in Programs, FetchList(p)
          PROVE  ResourceInv' /\ DatabaseInv'
      BY <2>9, FetchingKeeps, FetchKeeps DEF FetchList
    <2>10. ASSUME NEW p \in Programs, NoList(p)
           PROVE  ResourceInv' /\ DatabaseInv'
      BY <2>10, NoListKeeps, AroundTheFetch
    <2>11. ASSUME NEW p \in Programs, EnterList(p)
           PROVE  ResourceInv' /\ DatabaseInv'
      BY <2>11, EnterListKeeps, AroundTheFetch
    <2>12. ASSUME NEW p \in Programs, NEW l \in Locations, Read(p, l)
           PROVE  ResourceInv' /\ DatabaseInv'
      BY <2>12, ReadKeeps, DirectoryUntouched DEF Read
    <2>13. ASSUME (\E l \in Locations : ChangeFile(l)) \/ Tick \/ UNCHANGED symbolVars
           PROVE  ResourceInv' /\ DatabaseInv'
      BY <2>13, OthersKeep DEF ChangeFile, Tick, symbolVars
    <2> QED
      BY <2>1, <2>2, <2>3, <2>4, <2>5, <2>6, <2>7, <2>8, <2>9, <2>10, <2>11, <2>12, <2>13 DEF Next
  <1> QED
    BY <1>1, <1>2, PTL DEF Spec

\* Programs that share the cache directory without a lock: what is found there is whole, or
\* still being downloaded, unless a download of it was killed or ended early unnoticed.
THEOREM PartsHaveCause == Spec => []PartsForCause
  <1>1. ResourceInv /\ DatabaseInv => PartsForCause
    BY PartsFollow
  <1> QED
    BY <1>1, CacheInductive, PTL

\* update() leaves no transaction open, however it ends, except over a list of the remote list, or
\* because others read and so kept it from committing.
THEOREM HoldersHaveCause == Spec => []LockHeldForCause
  <1>1. ResourceInv /\ DatabaseInv => LockHeldForCause
    BY HoldersFollow
  <1> QED
    BY <1>1, CacheInductive, PTL

-----------------------------------------------------------------------------
(* The rows *)

DatabaseFields == {"rows", "draft", "writer", "spilled"}
RowFields == {"location", "identifier", "local", "cached", "read"}
Updating == {"listed", "compared", "files", "read"}

Times ==
  /\ clock \in Nat /\ skew \in Int
  /\ DOMAIN disk \subseteq Locations
  /\ \A l \in DOMAIN disk : disk[l].mtime \in Int /\ disk[l].mtime <= clock

\* Files that were changed after a time have another time
NamesContent(r) ==
  r.location \in DOMAIN disk /\ disk[r.location].mtime <= r.read => r.identifier = disk[r.location].content

\* The row of a file names what is in it, if the file has not changed since it was read
RowTrue(r) ==
  r.local =>
    /\ r.location \in Locations /\ r.cached \in Int /\ r.cached <= clock
    /\ r.read \in Int /\ r.read <= clock
    /\ NamesContent(r)

RowsTrue ==
  \A i \in DOMAIN databases :
    /\ DOMAIN databases[i] = DatabaseFields
    /\ \A r \in databases[i].rows \cup databases[i].draft : RowTrue(r)

\* Each file of the old rows has a row in the new ones that is not older
Supersedes(new, old) ==
  \A r \in LocalRows(old) : \E s \in LocalRows(new) : s.location = r.location /\ s.cached >= r.cached

\* No file has only older rows than before: but it may have none
NoOlder(new, old) ==
  \A r \in LocalRows(old) : Row(new, r.location) # {} => \E s \in Row(new, r.location) : s.cached >= r.cached

\* What is not committed is younger than what is; what is deleted may wait for its commit.
DraftsNoOlder ==
  \A i \in DOMAIN databases :
    databases[i].writer # Nobody => NoOlder(databases[i].draft, databases[i].rows)

\* The file is as it was when p listed it
AsListed(p, l) ==
  l \in DOMAIN disk /\ disk[l].content # Broken /\ disk[l].mtime <= programs[p].since

\* p need not look at the file: a row that takes the place of this one is no worse, or it
\* is p's own, which nobody can replace
Stands(p, l, r) ==
  \/ r.cached >= Midnight(programs[p].since - Period)
  \/ disk[l].mtime + skew <= r.cached
  \/ Db(p).writer = p /\ r.identifier = disk[l].content

\* What p has in its hand is what it has read since it listed the files
HandRight(p) ==
  LET hand == programs[p].hand[1]
  IN /\ DOMAIN hand = RowFields
     /\ hand.local = TRUE /\ hand.location \in Locations
     /\ hand.read \in Int /\ programs[p].since <= hand.read /\ hand.read <= clock
     /\ NamesContent(hand)

UpdateRight(p) ==
  /\ programs[p].pc \in Updating =>
       programs[p].listed \subseteq Locations /\ programs[p].since \in Int /\ programs[p].since <= clock
  /\ programs[p].pc = "compared" /\ ~programs[p].disturbed =>
       \A l \in programs[p].listed \ programs[p].todo : Row(View(p), l) # {}
  /\ programs[p].pc \in {"files", "read"} /\ ~programs[p].disturbed =>
       \A l \in programs[p].listed \ programs[p].todo :
         AsListed(p, l) => \E r \in Row(View(p), l) : Stands(p, l, r)
  /\ programs[p].pc = "read" => HandRight(p)

RowsInv == Times /\ RowsTrue /\ DraftsNoOlder /\ \A p \in Programs : UpdateRight(p)

LEMMA SupersedesItself ==
  ASSUME NEW rows, \A r \in rows : RowTrue(r)
  PROVE  Supersedes(rows, rows)
  BY DEF Supersedes, LocalRows, RowTrue

\* Of whole numbers of days.
LEMMA Multiples ==
  ASSUME NEW x \in Int, NEW y \in Int, NEW d \in Nat, y + 1 <= x
  PROVE  d * y + d <= d * x
  <1>1. PICK z \in Nat : x = y + 1 + z
    <2>1. x - y - 1 \in Nat
      OBVIOUS
    <2> QED
      BY <2>1
  <1>2. d * x = d * y + d + d * z
    BY <1>1, Z3
  <1>3. d * z \in Nat /\ d * y \in Int
    BY <1>1, Z3
  <1> QED
    BY <1>2, <1>3

LEMMA DivBounds ==
  ASSUME NEW a \in Int
  PROVE  a \div Day \in Int /\ Day * (a \div Day) <= a /\ a < Day * (a \div Day) + Day
  BY PeriodAssumption

\* Days begin in the order of the times in them.
LEMMA MidnightsGoOn ==
  ASSUME NEW a \in Int, NEW b \in Int, a <= b
  PROVE  Midnight(a) \in Int /\ Midnight(b) \in Int /\ Midnight(a) <= Midnight(b)
  <1>1. PICK x \in Int : x = a \div Day /\ Day * x <= a /\ a < Day * x + Day
    BY DivBounds
  <1>2. PICK y \in Int : y = b \div Day /\ Day * y <= b /\ b < Day * y + Day
    BY DivBounds
  <1>3. Day * x \in Int /\ Day * y \in Int
    BY PeriodAssumption
  <1>4. x <= y
    <2> SUFFICES ASSUME y + 1 <= x
                 PROVE  FALSE
      OBVIOUS
    <2>1. Day * y + Day <= Day * x
      BY PeriodAssumption, Multiples
    <2> QED
      BY <1>1, <1>2, <1>3, <2>1, PeriodAssumption
  <1>5. Day * x <= Day * y
    <2>1. CASE x = y
      BY <2>1, <1>3
    <2>2. CASE x + 1 <= y
      <3>1. Day * x + Day <= Day * y
        BY <2>2, PeriodAssumption, Multiples
      <3> QED
        BY <3>1, <1>3, PeriodAssumption
    <2> QED
      BY <1>4, <2>1, <2>2
  <1> QED
    BY <1>1, <1>2, <1>3, <1>5 DEF Midnight
LEMMA NoOlderThanItself ==
  ASSUME NEW rows, \A r \in rows : RowTrue(r)
  PROVE  NoOlder(rows, rows)
  BY DEF NoOlder, Row, LocalRows, RowTrue

\* If nothing is deleted either, each file keeps a row.
LEMMA NothingDeleted ==
  ASSUME NEW new, NEW old, NoOlder(new, old),
         {r.location : r \in LocalRows(old)} \subseteq {r.location : r \in LocalRows(new)}
  PROVE  Supersedes(new, old)
  <1> SUFFICES ASSUME NEW r \in LocalRows(old)
               PROVE  \E s \in LocalRows(new) : s.location = r.location /\ s.cached >= r.cached
    BY DEF Supersedes
  <1>1. PICK t \in LocalRows(new) : t.location = r.location
    OBVIOUS
  <1>2. t \in Row(new, r.location)
    BY <1>1 DEF Row
  <1>3. PICK s \in Row(new, r.location) : s.cached >= r.cached
    BY <1>2 DEF NoOlder
  <1> QED
    BY <1>3 DEF Row

LEMMA DeleteNoOlder ==
  ASSUME NEW rows, NEW old, NoOlder(rows, old), NEW locations
  PROVE  NoOlder(Delete(rows, locations), old)
  <1>1. \A l : Row(Delete(rows, locations), l) \in {{}, Row(rows, l)}
    BY DEF Row, LocalRows, Delete
  <1> QED
    BY <1>1 DEF NoOlder

\* A row of now takes the place of any row of its file.
LEMMA ReplaceNoOlder ==
  ASSUME NEW rows, NEW old, NoOlder(rows, old), \A r \in rows \cup old : RowTrue(r),
         NEW row, row.local, RowTrue(row), row.cached = clock
  PROVE  /\ NoOlder(Replace(rows, row), old)
         /\ \A r \in Replace(rows, row) : RowTrue(r)
         /\ row \in Row(Replace(rows, row), row.location)
         /\ \A l : l # row.location => Row(Replace(rows, row), l) = Row(rows, l)
  <1>1. Replace(rows, row) = {r \in rows : r.location # row.location} \cup {row}
    BY DEF Replace, Delete
  <1>2. row \in Row(Replace(rows, row), row.location)
    BY <1>1 DEF Row, LocalRows
  <1>3. \A l : l # row.location => Row(Replace(rows, row), l) = Row(rows, l)
    BY <1>1 DEF Row, LocalRows
  <1>4. NoOlder(Replace(rows, row), old)
    <2> SUFFICES ASSUME NEW r \in LocalRows(old), Row(Replace(rows, row), r.location) # {}
                 PROVE  \E s \in Row(Replace(rows, row), r.location) : s.cached >= r.cached
      BY DEF NoOlder
    <2>1. CASE r.location = row.location
      <3>1. row.cached \in Int /\ row.cached >= r.cached
        BY DEF LocalRows, RowTrue
      <3> QED
        BY <1>2, <2>1, <3>1
    <2>2. CASE r.location # row.location
      BY <1>3, <2>2 DEF NoOlder
    <2> QED
      BY <2>1, <2>2
  <1> QED
    BY <1>1, <1>2, <1>3, <1>4

\* The entries of a list have nothing to do with the rows of files.
LEMMA EntriesAreElsewhere ==
  ASSUME NEW p, NEW list \in RemoteLists, \A r \in View(p) : RowTrue(r)
  PROVE  LocalRows(Stored(p, list.entries)) = LocalRows(View(p))
         /\ \A r \in Stored(p, list.entries) : RowTrue(r)
  <1> DEFINE entries == list.entries
             named == {entries[i].location : i \in DOMAIN entries}
             ones == {Entered(entries[i]) : i \in {j \in DOMAIN entries :
                       \A k \in DOMAIN entries : k > j => entries[k].location # entries[j].location}}
  <1>1. Stored(p, list.entries) = {r \in View(p) : r.location \notin named} \cup ones
    BY DEF Stored, Delete
  <1>2. \A r \in ones : ~r.local
    BY DEF Entered
  <1>3. named \cap Locations = {}
    BY ListsAssumption
  <1>4. \A r \in View(p) : r.local => r.location \notin named
    BY <1>3 DEF RowTrue
  <1> HIDE DEF ones, named
  <1> QED
    BY <1>1, <1>2, <1>4 DEF LocalRows, RowTrue

\* What p sees is in the database it is connected to.
LEMMA ViewsTrue ==
  ASSUME DatabaseInv, RowsInv, NEW p \in Programs, programs[p].pc # "off"
  PROVE  /\ programs[p].conn \in DOMAIN databases
         /\ \A r \in View(p) : RowTrue(r)
         /\ \A r \in Db(p).rows \cup Db(p).draft : RowTrue(r)
         /\ Db(p).writer \in {p, Nobody} => NoOlder(View(p), Db(p).rows)
  <1>1. programs[p].conn \in DOMAIN databases
    BY DEF DatabaseInv, Shape
  <1>2. \A r \in Db(p).rows \cup Db(p).draft : RowTrue(r)
    BY <1>1 DEF RowsInv, RowsTrue, Db
  <1>3. CASE Db(p).writer = p
    <2>1. p # Nobody
      BY NobodyIsNoProgram
    <2>2. View(p) = Db(p).draft
      BY <1>3 DEF View
    <2>3. NoOlder(Db(p).draft, Db(p).rows)
      BY <1>1, <1>3, <2>1 DEF RowsInv, DraftsNoOlder, Db
    <2> QED
      BY <1>1, <1>2, <2>2, <2>3
  <1>4. CASE Db(p).writer # p
    <2>1. View(p) = Db(p).rows
      BY <1>4 DEF View
    <2> QED
      BY <1>1, <1>2, <2>1, NoOlderThanItself
  <1> QED
    BY <1>3, <1>4

\* What another program sees, when p changes the database it is connected to: the same, or
\* rows that take the place of those before.  Its own changes stay.
ViewGoesOn(q) ==
  \/ View(q)' = View(q) /\ (Db(q).writer = q => Db(q)'.writer = q)
  \/ Supersedes(View(q)', View(q)) /\ Db(q).writer # q /\ \A r \in View(q)' : RowTrue(r)

\* How a program may change a database: it changes rows, or it commits or drops what it has changed.
ChangesDatabase(p, d) ==
  \/ d.writer = p /\ d.rows = Db(p).rows /\ NoOlder(d.draft, Db(p).rows)
  \/ d.writer = Nobody

LEMMA OthersSee ==
  ASSUME DatabaseInv, RowsInv, NEW p \in Programs, programs[p].pc # "off", MayWrite(p), NEW d,
         \A r \in d.rows \cup d.draft : RowTrue(r), ChangesDatabase(p, d),
         databases' = [databases EXCEPT ![programs[p].conn] = d],
         NEW q \in Programs \ {p}, programs[q].pc # "off", programs'[q].conn = programs[q].conn,
         programs[q].conn = programs[p].conn => Supersedes(d.rows, Db(p).rows)
  PROVE  ViewGoesOn(q)
  <1> DEFINE c == programs[p].conn
  <1>1. /\ c \in DOMAIN databases /\ programs[q].conn \in DOMAIN databases
    BY ViewsTrue
  <1>2. CASE programs[q].conn # c
    <2>1. Db(q)' = Db(q)
      BY <1>1, <1>2 DEF Db, DatabaseInv, Shape
    <2> QED
      BY <2>1 DEF ViewGoesOn, View
  <1>3. CASE programs[q].conn = c
    <2>1. Db(q) = Db(p) /\ Db(q)' = d
      BY <1>1, <1>3 DEF Db, DatabaseInv, Shape
    <2>2. Db(q).writer # q /\ d.writer # q
      BY <2>1, NobodyIsNoProgram DEF MayWrite, ChangesDatabase
    <2>3. View(q) = Db(p).rows /\ View(q)' = d.rows
      BY <2>1, <2>2 DEF View
    <2> QED
      BY <1>3, <2>2, <2>3 DEF ViewGoesOn
  <1> QED
    BY <1>2, <1>3

\* Times and files are the same.
SameTime == clock' = clock /\ skew' = skew /\ disk' = disk

LEMMA SameTruth ==
  ASSUME SameTime, NEW r
  PROVE  RowTrue(r)' <=> RowTrue(r)
  BY DEF SameTime, RowTrue, NamesContent

\* The database is still in order.
LEMMA DatabaseStaysTrue ==
  ASSUME DatabaseInv, RowsInv, SameTime, NEW p \in Programs, programs[p].pc # "off", MayWrite(p), NEW d,
         DOMAIN d = DatabaseFields, \A r \in d.rows \cup d.draft : RowTrue(r),
         ChangesDatabase(p, d), databases' = [databases EXCEPT ![programs[p].conn] = d]
  PROVE  Times' /\ RowsTrue' /\ DraftsNoOlder'
  <1> DEFINE c == programs[p].conn
  <1>1. /\ c \in DOMAIN databases /\ DOMAIN databases' = DOMAIN databases /\ databases'[c] = d
        /\ \A i \in DOMAIN databases \ {c} : databases'[i] = databases[i]
    BY DEF DatabaseInv, Shape
  <1>2. Times'
    BY DEF RowsInv, Times, SameTime
  <1>3. RowsTrue'
    <2>1. ASSUME NEW i \in DOMAIN databases
          PROVE  DOMAIN databases'[i] = DatabaseFields
                 /\ \A r \in databases'[i].rows \cup databases'[i].draft : RowTrue(r)
      BY <1>1 DEF RowsInv, RowsTrue
    <2> QED
      BY <1>1, <2>1, SameTruth DEF RowsTrue
  <1>4. d.writer # Nobody => NoOlder(d.draft, d.rows)
    BY DEF ChangesDatabase
  <1>5. DraftsNoOlder'
    BY <1>1, <1>4 DEF RowsInv, DraftsNoOlder, NoOlder, Row, LocalRows
  <1> QED
    BY <1>2, <1>3, <1>5

LEMMA DatabasesStay ==
  ASSUME RowsInv, SameTime, databases' = databases
  PROVE  Times' /\ RowsTrue' /\ DraftsNoOlder'
  <1>1. Times'
    BY DEF RowsInv, Times, SameTime
  <1>2. RowsTrue'
    BY SameTruth DEF RowsInv, RowsTrue
  <1>3. DraftsNoOlder'
    BY DEF RowsInv, DraftsNoOlder, NoOlder, Row, LocalRows
  <1> QED
    BY <1>1, <1>2, <1>3

\* A program that does nothing itself has what it had.
LEMMA UpdateGoesOn ==
  ASSUME DatabaseInv, RowsInv, SameTime, NEW q \in Programs, programs'[q] = programs[q],
         programs[q].pc # "off" => ViewGoesOn(q)
  PROVE  UpdateRight(q)'
  <1>1. UpdateRight(q)
    BY DEF RowsInv
  <1>2. /\ programs[q].pc \in Updating =>
             programs[q].listed \subseteq Locations /\ programs[q].since \in Int /\ programs[q].since <= clock
        /\ programs[q].pc = "read" => HandRight(q)
    BY <1>1 DEF UpdateRight
  <1>3. programs[q].pc = "read" => HandRight(q)'
    BY <1>2 DEF HandRight, NamesContent, SameTime
  <1>4. ASSUME programs[q].pc = "compared", ~programs[q].disturbed, NEW l \in programs[q].listed \ programs[q].todo
        PROVE  Row(View(q)', l) # {}
    <2>1. PICK r \in Row(View(q), l) : TRUE
      BY <1>1, <1>4 DEF UpdateRight
    <2>2. CASE Supersedes(View(q)', View(q))
      BY <2>1, <2>2 DEF Supersedes, Row
    <2> QED
      BY <1>4, <2>1, <2>2 DEF ViewGoesOn
  <1>5. ASSUME programs[q].pc \in {"files", "read"}, ~programs[q].disturbed,
               NEW l \in programs[q].listed \ programs[q].todo, AsListed(q, l)'
        PROVE  \E r \in Row(View(q)', l) : Stands(q, l, r)'
    <2>1. AsListed(q, l)
      BY <1>5 DEF AsListed, SameTime
    <2>2. PICK r \in Row(View(q), l) : Stands(q, l, r)
      BY <1>1, <1>5, <2>1 DEF UpdateRight
    <2>3. CASE View(q)' = View(q) /\ (Db(q).writer = q => Db(q)'.writer = q)
      BY <2>2, <2>3 DEF Stands, SameTime
    <2>4. CASE Supersedes(View(q)', View(q)) /\ Db(q).writer # q /\ \A x \in View(q)' : RowTrue(x)
      <3>1. r \in LocalRows(View(q)) /\ r.location = l
        BY <2>2 DEF Row
      <3>2. PICK s \in LocalRows(View(q)') : s.location = l /\ s.cached >= r.cached
        BY <2>4, <3>1 DEF Supersedes
      <3>3. \A x \in View(q) : RowTrue(x)
        BY <1>5, ViewsTrue
      <3>4. r.cached \in Int /\ s.cached \in Int
        BY <2>4, <3>1, <3>2, <3>3 DEF LocalRows, RowTrue
      <3>5. programs[q].since - Period \in Int /\ skew \in Int /\ disk[l].mtime \in Int
        BY <1>2, <1>5, <2>1, PeriodAssumption DEF AsListed, RowsInv, Times, Updating
      <3>6. PICK m \in Int : m = Midnight(programs[q].since - Period)
        BY <3>5, MidnightsGoOn
      <3>7. r.cached >= m \/ disk[l].mtime + skew <= r.cached
        BY <2>2, <2>4, <3>6 DEF Stands
      <3>8. s.cached >= m \/ disk[l].mtime + skew <= s.cached
        BY <3>2, <3>4, <3>5, <3>7
      <3>9. Stands(q, l, s)'
        BY <3>6, <3>8 DEF Stands, SameTime
      <3> QED
        BY <3>2, <3>9 DEF Row
    <2> QED
      BY <1>5, <2>3, <2>4 DEF ViewGoesOn
  <1> QED
    BY <1>2, <1>3, <1>4, <1>5 DEF UpdateRight, SameTime, Updating

\* Nor does one that learns that rows were deleted.
LEMMA DisturbedRight ==
  ASSUME DatabaseInv, RowsInv, SameTime, NEW q \in Programs,
         programs'[q] = [programs[q] EXCEPT !.disturbed = TRUE]
  PROVE  UpdateRight(q)'
  <1>1. /\ programs'[q].pc = programs[q].pc /\ programs'[q].listed = programs[q].listed
        /\ programs'[q].since = programs[q].since /\ programs'[q].hand = programs[q].hand
        /\ programs'[q].disturbed
    BY DEF DatabaseInv, Shape, ProgramFields
  <1>2. /\ programs[q].pc \in Updating =>
             programs[q].listed \subseteq Locations /\ programs[q].since \in Int /\ programs[q].since <= clock
        /\ programs[q].pc = "read" => HandRight(q)
    BY DEF RowsInv, UpdateRight
  <1>3. HandRight(q) => HandRight(q)'
    BY <1>1 DEF HandRight, NamesContent, SameTime
  <1> QED
    BY <1>1, <1>2, <1>3 DEF UpdateRight, SameTime

\* A step of a program that commits nothing is right if it is so for this program.
LEMMA StepOfOne ==
  ASSUME DatabaseInv, RowsInv, SameTime, NEW p \in Programs,
         \A q \in Programs \ {p} : programs'[q] = programs[q],
         \/ databases' = databases
         \/ /\ programs[p].pc # "off" /\ MayWrite(p)
            /\ \E d : /\ DOMAIN d = DatabaseFields /\ \A r \in d.rows \cup d.draft : RowTrue(r)
                      /\ ChangesDatabase(p, d) /\ d.rows = Db(p).rows
                      /\ databases' = [databases EXCEPT ![programs[p].conn] = d],
         UpdateRight(p)'
  PROVE  RowsInv'
  <1>1. Times' /\ RowsTrue' /\ DraftsNoOlder'
        /\ \A q \in Programs \ {p} : programs[q].pc # "off" => ViewGoesOn(q)
    <2>1. CASE databases' = databases
      <3>1. \A q \in Programs \ {p} : Db(q)' = Db(q) /\ View(q)' = View(q)
        BY <2>1 DEF Db, View
      <3> QED
        BY <2>1, <3>1, DatabasesStay DEF ViewGoesOn
    <2>2. CASE /\ programs[p].pc # "off" /\ MayWrite(p)
               /\ \E d : /\ DOMAIN d = DatabaseFields /\ \A r \in d.rows \cup d.draft : RowTrue(r)
                         /\ ChangesDatabase(p, d) /\ d.rows = Db(p).rows
                         /\ databases' = [databases EXCEPT ![programs[p].conn] = d]
      <3>1. PICK d : /\ DOMAIN d = DatabaseFields /\ \A r \in d.rows \cup d.draft : RowTrue(r)
                     /\ ChangesDatabase(p, d) /\ d.rows = Db(p).rows
                     /\ databases' = [databases EXCEPT ![programs[p].conn] = d]
        BY <2>2
      <3>2. Times' /\ RowsTrue' /\ DraftsNoOlder'
        BY <2>2, <3>1, DatabaseStaysTrue
      <3>3. Supersedes(d.rows, Db(p).rows)
        BY <3>1, SupersedesItself
      <3> QED
        BY <2>2, <3>1, <3>2, <3>3, OthersSee
    <2> QED
      BY <2>1, <2>2
  <1>2. \A q \in Programs \ {p} : UpdateRight(q)'
    BY <1>1, UpdateGoesOn
  <1> QED
    BY <1>1, <1>2 DEF RowsInv

\* Nothing is said of a program that is not updating.
LEMMA NotUpdating ==
  ASSUME NEW p, programs'[p].pc \notin Updating
  PROVE  UpdateRight(p)'
  BY DEF UpdateRight, Updating

\* What Become does, to p and to the others.
LEMMA OnlyOneBecomes ==
  ASSUME DatabaseInv, NEW p \in Programs, NEW q, Become(p, q)
  PROVE  programs'[p] = q /\ \A r \in Programs \ {p} : programs'[r] = programs[r]
  BY DEF Become, DatabaseInv, Shape

LEMMA RaisesRight ==
  ASSUME DatabaseInv, RowsInv, SameTime, NEW p \in Programs, NEW why, Raises(p, why), databases' = databases
  PROVE  RowsInv'
  <1>1. Over(p, why).pc = "idle"
    BY DEF Over, Off
  <1>2. programs'[p] = Over(p, why) /\ \A r \in Programs \ {p} : programs'[r] = programs[r]
    BY OnlyOneBecomes DEF Raises
  <1>3. UpdateRight(p)'
    BY <1>1, <1>2, NotUpdating DEF Updating
  <1> QED
    BY <1>2, <1>3, StepOfOne

LEMMA ListRight ==
  ASSUME DatabaseInv, RowsInv, NEW p \in Programs, List(p)
  PROVE  RowsInv'
  <1> DEFINE q == [programs[p] EXCEPT !.pc = "listed", !.listed = DOMAIN disk, !.since = clock,
                                      !.disturbed = FALSE, !.raised = ""]
  <1>1. q.pc = "listed" /\ q.listed = DOMAIN disk /\ q.since = clock
    BY DEF DatabaseInv, Shape, ProgramFields
  <1>2. Become(p, q) /\ SameTime /\ databases' = databases
    BY DEF List, SameTime
  <1> HIDE DEF q
  <1>3. programs'[p] = q /\ \A r \in Programs \ {p} : programs'[r] = programs[r]
    BY <1>2, OnlyOneBecomes
  <1>4. UpdateRight(p)'
    BY <1>1, <1>2, <1>3 DEF UpdateRight, RowsInv, Times, SameTime, Updating
  <1> QED
    BY <1>2, <1>3, <1>4, StepOfOne

LEMMA CheckRight ==
  ASSUME DatabaseInv, RowsInv, NEW p \in Programs, Check(p)
  PROVE  RowsInv'
  <1> DEFINE known == programs[p].listed \ programs[p].todo
             again == {r.location : r \in {x \in LocalRows(View(p)) : x.location \in known /\ Outdated(x)}}
             q == [programs[p] EXCEPT !.pc = "files", !.todo = @ \cup again]
  <1>1. /\ q.pc = "files" /\ q.listed = programs[p].listed /\ q.since = programs[p].since
        /\ q.todo = programs[p].todo \cup again /\ q.conn = programs[p].conn /\ q.disturbed = programs[p].disturbed
    BY DEF DatabaseInv, Shape, ProgramFields
  <1>2. SameTime /\ databases' = databases /\ programs[p].pc = "compared"
    BY DEF Check, SameTime
  <1>3. Raises(p, "locked") \/ Become(p, q)
    BY DEF Check
  <1>4. CASE Raises(p, "locked")
    BY <1>2, <1>4, RaisesRight
  <1>5. CASE Become(p, q)
    <2> HIDE DEF q
    <2>1. programs'[p] = q /\ \A r \in Programs \ {p} : programs'[r] = programs[r]
      BY <1>5, OnlyOneBecomes
    <2>2. Db(p)' = Db(p) /\ View(p)' = View(p)
      BY <1>1, <1>2, <2>1 DEF Db, View
    <2>3. /\ programs[p].listed \subseteq Locations /\ programs[p].since \in Int /\ programs[p].since <= clock
          /\ ~programs[p].disturbed => \A l \in known : Row(View(p), l) # {}
      BY <1>2 DEF RowsInv, UpdateRight, Updating
    <2>4. ASSUME ~q.disturbed, NEW l \in q.listed \ q.todo, AsListed(p, l)'
          PROVE  \E r \in Row(View(p), l) : Stands(p, l, r)'
      <3>1. l \in known /\ l \notin again
        BY <1>1, <2>4
      <3>2. PICK r \in Row(View(p), l) : TRUE
        BY <1>1, <2>3, <2>4, <3>1
      <3>3. r \in LocalRows(View(p)) /\ r.location = l
        BY DEF Row
      <3>4. ~Outdated(r)
        BY <3>1, <3>3
      <3>5. l \in DOMAIN disk /\ disk[l].mtime \in Int /\ skew \in Int /\ clock \in Int
        BY <1>2, <2>4 DEF AsListed, SameTime, RowsInv, Times
      <3>6. r.cached \in Int
        BY <1>2, <3>3, ViewsTrue DEF LocalRows, RowTrue
      <3>7. PICK a \in Int, b \in Int : a = programs[p].since - Period /\ b = clock - Period /\ a <= b
        BY <2>3, <3>5, PeriodAssumption
      <3>8. PICK m \in Int, n \in Int : m = Midnight(a) /\ n = Midnight(b) /\ m <= n
        <4>1. Midnight(a) \in Int /\ Midnight(b) \in Int /\ Midnight(a) <= Midnight(b)
          BY <3>7, MidnightsGoOn
        <4> QED
          BY <4>1
      <3>9. r.cached >= n \/ disk[l].mtime + skew <= r.cached
        BY <3>3, <3>4, <3>5, <3>6, <3>7, <3>8 DEF Outdated
      <3>10. r.cached >= m \/ disk[l].mtime + skew <= r.cached
        BY <3>6, <3>8, <3>9
      <3>11. Stands(p, l, r)'
        BY <1>1, <1>2, <2>1, <3>7, <3>8, <3>10 DEF Stands, SameTime
      <3> QED
        BY <3>11
    <2>5. UpdateRight(p)'
      BY <1>1, <1>2, <2>1, <2>2, <2>3, <2>4 DEF UpdateRight, SameTime, Updating
    <2> QED
      BY <1>2, <2>1, <2>5, StepOfOne
  <1> QED
    BY <1>3, <1>4, <1>5

\* A commit, of a program that goes on as q; if it fails, nobody learns of it.
LEMMA CommitRight ==
  ASSUME DatabaseInv, RowsInv, SameTime, NEW p \in Programs, programs[p].pc # "off", MayWrite(p),
         NEW rows, \A r \in rows : RowTrue(r), NoOlder(rows, Db(p).rows),
         NEW q, q.conn = programs[p].conn, Commit(p, rows, q),
         /\ programs'[p] = q /\ View(p)' = rows
         => UpdateRight(p)'
  PROVE  RowsInv' /\ View(p)' = rows
  <1> DEFINE c == programs[p].conn
  <1>1. /\ c \in DOMAIN databases /\ DOMAIN databases[c] = DatabaseFields
        /\ \A r \in databases[c].rows : RowTrue(r)
        /\ DOMAIN databases' = DOMAIN databases
    BY DEF DatabaseInv, Shape, RowsInv, RowsTrue, Commit, Drafted, CommittedRows
  <1>2. CASE Readers(p) # {}
    <2> DEFINE d == [databases[c] EXCEPT !.draft = rows, !.writer = p, !.spilled = TRUE]
               o == Over(p, "commit")
    <2>1. databases' = [databases EXCEPT ![c] = d] /\ Become(p, o)
      BY <1>1, <1>2 DEF Commit, Raises, Drafted
    <2>2. DOMAIN d = DatabaseFields /\ d.draft = rows /\ d.rows = Db(p).rows /\ d.writer = p
      BY <1>1 DEF Db, DatabaseFields
    <2>3. o.pc = "idle" /\ o.conn = c
      BY DEF Over, Off
    <2> HIDE DEF d, o
    <2>4. programs'[p] = o /\ \A r \in Programs \ {p} : programs'[r] = programs[r]
      BY <2>1, OnlyOneBecomes
    <2>5. ChangesDatabase(p, d) /\ \A r \in d.rows \cup d.draft : RowTrue(r)
      BY <1>1, <2>2 DEF ChangesDatabase, Db
    <2>6. UpdateRight(p)'
      BY <2>3, <2>4, NotUpdating DEF Updating
    <2>7. RowsInv'
      BY <2>1, <2>2, <2>4, <2>5, <2>6, StepOfOne
    <2>8. Db(p)' = d
      BY <1>1, <2>1, <2>3, <2>4 DEF Db
    <2> QED
      BY <2>2, <2>7, <2>8 DEF View
  <1>3. CASE Readers(p) = {}
    <2> DEFINE d == [rows |-> rows, draft |-> {}, writer |-> Nobody, spilled |-> FALSE]
    <2>1. databases' = [databases EXCEPT ![c] = d]
      BY <1>3 DEF Commit, CommittedRows
    <2>2. DOMAIN d = DatabaseFields /\ d.writer = Nobody /\ d.rows = rows /\ d.draft = {}
      BY DEF DatabaseFields
    <2> HIDE DEF d
    <2>3. programs'[p] = q
      BY <1>3 DEF Commit
    <2>4. ChangesDatabase(p, d) /\ \A r \in d.rows \cup d.draft : RowTrue(r)
      BY <2>2 DEF ChangesDatabase
    <2>5. Times' /\ RowsTrue' /\ DraftsNoOlder'
      BY <2>1, <2>2, <2>4, DatabaseStaysTrue
    <2>6. Db(p)' = d
      BY <1>1, <2>1, <2>3 DEF Db
    <2>7. View(p)' = rows
      BY <2>2, <2>6, NobodyIsNoProgram DEF View
    <2>8. ASSUME NEW r \in Programs \ {p}
          PROVE  UpdateRight(r)'
      <3>1. CASE programs[r].conn = c /\ Deletes(p, rows) # {}
        <4>1. programs'[r] = [programs[r] EXCEPT !.disturbed = TRUE]
          BY <1>3, <3>1 DEF Commit
        <4> QED
          BY <4>1, DisturbedRight
      <3>2. CASE programs[r].conn # c \/ Deletes(p, rows) = {}
        <4>1. programs'[r] = programs[r]
          BY <1>3, <3>2 DEF Commit
        <4>2. programs[r].conn = c => Supersedes(d.rows, Db(p).rows)
          <5> SUFFICES ASSUME Deletes(p, rows) = {}
                       PROVE  Supersedes(rows, Db(p).rows)
            BY <2>2, <3>2
          <5>1. {x.location : x \in LocalRows(Db(p).rows)} \subseteq {x.location : x \in LocalRows(rows)}
            BY DEF Deletes
          <5> QED
            BY <5>1, NothingDeleted
        <4>3. programs[r].pc # "off" => ViewGoesOn(r)
          BY <2>1, <2>4, <4>1, <4>2, OthersSee
        <4> QED
          BY <4>1, <4>3, UpdateGoesOn
      <3> QED
        BY <3>1, <3>2
    <2> QED
      BY <2>3, <2>5, <2>7, <2>8 DEF RowsInv
  <1> QED
    BY <1>2, <1>3

\* Only here rows are deleted.
LEMMA CompareRight ==
  ASSUME DatabaseInv, RowsInv, NEW p \in Programs, Compare(p)
  PROVE  RowsInv'
  <1> DEFINE cached == {r.location : r \in LocalRows(View(p))}
             missing == cached \ programs[p].listed
             kept == Delete(View(p), missing)
             todo == programs[p].listed \ cached
             ready == [programs[p] EXCEPT !.pc = "compared", !.todo = todo]
  <1>1. /\ ready.pc = "compared" /\ ready.listed = programs[p].listed /\ ready.since = programs[p].since
        /\ ready.todo = todo /\ ready.conn = programs[p].conn
    BY DEF DatabaseInv, Shape, ProgramFields
  <1>2. SameTime /\ programs[p].pc = "listed"
    BY DEF Compare, SameTime
  <1>3. \/ Raises(p, "locked") /\ databases' = databases
        \/ Become(p, ready) /\ databases' = databases
        \/ MayWrite(p) /\ Commit(p, kept, ready)
    BY DEF Compare
  <1>4. programs[p].listed \subseteq Locations /\ programs[p].since \in Int /\ programs[p].since <= clock
    BY <1>2 DEF RowsInv, UpdateRight, Updating
  <1>5. \A l \in programs[p].listed \ todo : Row(View(p), l) # {} /\ Row(kept, l) # {}
    <2> SUFFICES ASSUME NEW l \in programs[p].listed \ todo
                 PROVE  Row(View(p), l) # {} /\ Row(kept, l) # {}
      OBVIOUS
    <2>1. PICK r \in LocalRows(View(p)) : r.location = l
      OBVIOUS
    <2>2. r \in View(p) /\ r.local /\ r \in kept
      BY <2>1 DEF LocalRows, Delete
    <2> QED
      BY <2>1, <2>2 DEF Row, LocalRows
  <1>6. \A r \in View(p) : RowTrue(r)
    BY <1>2, ViewsTrue
  <1> HIDE DEF ready, kept, todo
  <1>7. CASE Raises(p, "locked") /\ databases' = databases
    BY <1>2, <1>7, RaisesRight
  <1>8. CASE Become(p, ready) /\ databases' = databases
    <2>1. programs'[p] = ready /\ \A r \in Programs \ {p} : programs'[r] = programs[r]
      BY <1>8, OnlyOneBecomes
    <2>2. Db(p)' = Db(p) /\ View(p)' = View(p)
      BY <1>1, <1>8, <2>1 DEF Db, View
    <2>3. UpdateRight(p)'
      BY <1>1, <1>2, <1>4, <1>5, <2>1, <2>2 DEF UpdateRight, SameTime, Updating
    <2> QED
      BY <1>2, <1>8, <2>1, <2>3, StepOfOne
  <1>9. CASE MayWrite(p) /\ Commit(p, kept, ready)
    <2>1. NoOlder(kept, Db(p).rows) /\ \A r \in kept : RowTrue(r)
      <3>1. NoOlder(View(p), Db(p).rows)
        BY <1>2, <1>9, ViewsTrue DEF MayWrite
      <3> QED
        BY <1>6, <3>1, DeleteNoOlder DEF kept, Delete
    <2>2. ASSUME programs'[p] = ready, View(p)' = kept
          PROVE  UpdateRight(p)'
      BY <1>1, <1>2, <1>4, <1>5, <2>2 DEF UpdateRight, SameTime, Updating
    <2>3. programs[p].pc # "off"
      BY <1>2
    <2> QED
      BY <1>1, <1>2, <1>9, <2>1, <2>2, <2>3, CommitRight
  <1> QED
    BY <1>3, <1>7, <1>8, <1>9

LEMMA ReadRight ==
  ASSUME DatabaseInv, RowsInv, NEW p \in Programs, NEW l \in Locations, Read(p, l)
  PROVE  RowsInv'
  <1> DEFINE hand == [location |-> l, identifier |-> disk[l].content, local |-> TRUE, cached |-> 0, read |-> clock]
             q1 == [programs[p] EXCEPT !.pc = "read", !.hand = <<hand>>]
             q2 == [programs[p] EXCEPT !.todo = @ \ {l}]
  <1>1. /\ q1.pc = "read" /\ q1.hand[1] = hand /\ q1.todo = programs[p].todo
        /\ q2.pc = programs[p].pc /\ q2.todo = programs[p].todo \ {l}
        /\ \A q \in {q1, q2} : /\ q.listed = programs[p].listed /\ q.since = programs[p].since
                               /\ q.conn = programs[p].conn /\ q.disturbed = programs[p].disturbed
    BY DEF DatabaseInv, Shape, ProgramFields
  <1>2. SameTime /\ databases' = databases /\ programs[p].pc = "files"
    BY DEF Read, SameTime
  <1>3. \/ Become(p, q1)
        \/ Become(p, q2) /\ (l \notin DOMAIN disk \/ disk[l].content = Broken)
    BY DEF Read
  <1>4. /\ programs[p].listed \subseteq Locations /\ programs[p].since \in Int /\ programs[p].since <= clock
        /\ ~programs[p].disturbed =>
             \A x \in programs[p].listed \ programs[p].todo :
               AsListed(p, x) => \E r \in Row(View(p), x) : Stands(p, x, r)
    BY <1>2 DEF RowsInv, UpdateRight, Updating
  <1>5. DOMAIN hand = RowFields /\ hand.location = l /\ hand.local = TRUE /\ hand.read = clock /\ NamesContent(hand)
    BY DEF RowFields, NamesContent
  <1> HIDE DEF q1, q2, hand
  <1>6. PICK q \in {q1, q2} : Become(p, q) /\ (q = q2 => l \notin DOMAIN disk \/ disk[l].content = Broken \/ q = q1)
    BY <1>3
  <1>7. programs'[p] = q /\ \A r \in Programs \ {p} : programs'[r] = programs[r]
    BY <1>6, OnlyOneBecomes
  <1>8. Db(p)' = Db(p) /\ View(p)' = View(p)
    BY <1>1, <1>2, <1>7 DEF Db, View
  <1>9. ASSUME ~q.disturbed, NEW x \in q.listed \ q.todo, AsListed(p, x)'
        PROVE  \E r \in Row(View(p), x) : Stands(p, x, r)'
    <2>1. AsListed(p, x) /\ x \in programs[p].listed
      BY <1>1, <1>2, <1>7, <1>9 DEF AsListed, SameTime
    <2>2. x \notin programs[p].todo
      BY <1>1, <1>6, <1>9, <2>1 DEF AsListed
    <2>3. PICK r \in Row(View(p), x) : Stands(p, x, r)
      BY <1>1, <1>4, <1>9, <2>1, <2>2
    <2> QED
      BY <1>1, <1>2, <1>7, <1>8, <2>3 DEF Stands, SameTime
  <1>10. q.pc = "read" => HandRight(p)'
    <2> SUFFICES ASSUME q.pc = "read"
                 PROVE  HandRight(p)'
      OBVIOUS
    <2>1. q = q1
      BY <1>1, <1>2
    <2>2. programs'[p].hand[1] = hand /\ programs'[p].since = programs[p].since
      BY <1>1, <1>7, <2>1
    <2> QED
      BY <1>2, <1>4, <1>5, <2>2 DEF HandRight, NamesContent, SameTime, RowsInv, Times
  <1>11. UpdateRight(p)'
    BY <1>1, <1>2, <1>4, <1>7, <1>8, <1>9, <1>10 DEF UpdateRight, SameTime, Updating
  <1> QED
    BY <1>2, <1>7, <1>11, StepOfOne

LEMMA StoreRight ==
  ASSUME DatabaseInv, RowsInv, NEW p \in Programs, Store(p)
  PROVE  RowsInv'
  <1> DEFINE hand == programs[p].hand[1]
             row == [hand EXCEPT !.cached = clock]
             stored == [programs[p] EXCEPT !.pc = "files", !.todo = @ \ {row.location}, !.hand = <<>>]
             q == [stored EXCEPT !.disturbed = TRUE]
             rows == Replace(View(p), row)
             c == programs[p].conn
  <1>1. SameTime /\ programs[p].pc = "read"
    BY DEF Store, SameTime
  <1>2. /\ programs[p].listed \subseteq Locations /\ programs[p].since \in Int /\ programs[p].since <= clock
        /\ HandRight(p)
        /\ ~programs[p].disturbed =>
             \A x \in programs[p].listed \ programs[p].todo :
               AsListed(p, x) => \E r \in Row(View(p), x) : Stands(p, x, r)
    BY <1>1 DEF RowsInv, UpdateRight, Updating
  <1>3. /\ row.local = TRUE /\ row.location = hand.location /\ row.identifier = hand.identifier
        /\ row.read = hand.read /\ row.cached = clock
    BY <1>2 DEF HandRight, RowFields
  <1>4. RowTrue(row)
    BY <1>2, <1>3 DEF RowTrue, HandRight, NamesContent, RowsInv, Times
  <1>5. /\ \A s \in {stored, q} : s.pc = "files" /\ s.listed = programs[p].listed /\ s.since = programs[p].since
                                  /\ s.todo = programs[p].todo \ {row.location} /\ s.conn = c
        /\ stored.disturbed = programs[p].disturbed /\ q.disturbed
    BY DEF DatabaseInv, Shape, ProgramFields
  <1>6. \/ MayWrite(p) /\ Changes(p, rows) /\ Become(p, stored)
        \/ databases' = databases /\ Become(p, q)
    BY DEF Store
  <1> HIDE DEF stored, q, row, hand
  <1>7. CASE databases' = databases /\ Become(p, q)
    <2>1. programs'[p] = q /\ \A r \in Programs \ {p} : programs'[r] = programs[r]
      BY <1>7, OnlyOneBecomes
    <2>2. UpdateRight(p)'
      BY <1>1, <1>2, <1>5, <2>1 DEF UpdateRight, SameTime
    <2> QED
      BY <1>1, <1>7, <2>1, <2>2, StepOfOne
  <1>8. CASE MayWrite(p) /\ Changes(p, rows) /\ Become(p, stored)
    <2>1. programs'[p] = stored /\ \A r \in Programs \ {p} : programs'[r] = programs[r]
      BY <1>8, OnlyOneBecomes
    <2>2. /\ NoOlder(rows, Db(p).rows) /\ \A r \in rows : RowTrue(r)
          /\ row \in Row(rows, row.location)
          /\ \A l : l # row.location => Row(rows, l) = Row(View(p), l)
      <3>1. /\ \A r \in View(p) \cup Db(p).rows : RowTrue(r)
            /\ NoOlder(View(p), Db(p).rows)
        BY <1>1, <1>8, ViewsTrue DEF MayWrite
      <3>2. PICK view, old : view = View(p) /\ old = Db(p).rows
        OBVIOUS
      <3>3. NoOlder(view, old) /\ \A r \in view \cup old : RowTrue(r)
        BY <3>1, <3>2
      <3>4. /\ NoOlder(Replace(view, row), old) /\ \A r \in Replace(view, row) : RowTrue(r)
            /\ row \in Row(Replace(view, row), row.location)
            /\ \A l : l # row.location => Row(Replace(view, row), l) = Row(view, l)
        BY <1>3, <1>4, <3>3, ReplaceNoOlder
      <3> QED
        BY <3>2, <3>4
    <2> HIDE DEF rows
    <2>3. PICK spilled \in BOOLEAN :
            databases' = [databases EXCEPT ![c] = [@ EXCEPT !.draft = rows, !.writer = p, !.spilled = spilled]]
      BY <1>8 DEF Changes, Drafted
    <2> DEFINE d == [databases[c] EXCEPT !.draft = rows, !.writer = p, !.spilled = spilled]
    <2>4. c \in DOMAIN databases /\ DOMAIN databases[c] = DatabaseFields
          /\ \A r \in databases[c].rows : RowTrue(r)
      BY <1>1 DEF DatabaseInv, Shape, RowsInv, RowsTrue
    <2>5. /\ DOMAIN d = DatabaseFields /\ d.draft = rows /\ d.rows = Db(p).rows /\ d.writer = p
          /\ databases' = [databases EXCEPT ![c] = d]
      BY <2>3, <2>4 DEF Db, DatabaseFields
    <2> HIDE DEF d
    <2>6. ChangesDatabase(p, d) /\ \A r \in d.rows \cup d.draft : RowTrue(r)
      BY <2>2, <2>4, <2>5 DEF ChangesDatabase, Db
    <2>7. Db(p)' = d /\ View(p)' = rows
      BY <1>5, <2>1, <2>4, <2>5 DEF Db, View
    <2>8. ASSUME ~stored.disturbed, NEW x \in stored.listed \ stored.todo, AsListed(p, x)'
          PROVE  \E r \in Row(rows, x) : Stands(p, x, r)'
      <3>1. AsListed(p, x)
        BY <1>1, <1>5, <2>1, <2>8 DEF AsListed, SameTime
      <3>2. CASE x = row.location
        <4>1. disk[x].mtime <= hand.read
          <5>1. disk[x].mtime \in Int /\ disk[x].mtime <= programs[p].since /\ programs[p].since \in Int
            BY <1>2, <3>1 DEF AsListed, RowsInv, Times
          <5>2. hand.read \in Int /\ programs[p].since <= hand.read
            BY <1>2 DEF HandRight, hand
          <5> QED
            BY <5>1, <5>2
        <4>2. row.identifier = disk[x].content
          BY <1>3, <1>4, <3>1, <3>2, <4>1 DEF RowTrue, NamesContent, AsListed
        <4>3. PICK r : r = row
          OBVIOUS
        <4>4. Stands(p, x, r)'
          BY <1>1, <2>5, <2>7, <4>2, <4>3 DEF Stands, SameTime
        <4> QED
          BY <2>2, <3>2, <4>3, <4>4
      <3>3. CASE x # row.location
        <4>1. PICK r \in Row(View(p), x) : Stands(p, x, r)
          BY <1>2, <1>5, <2>8, <3>1, <3>3
        <4>2. Stands(p, x, r)'
          BY <1>1, <1>5, <2>1, <2>5, <2>7, <4>1 DEF Stands, SameTime
        <4> QED
          BY <2>2, <3>3, <4>1, <4>2
      <3> QED
        BY <3>2, <3>3
    <2>9. UpdateRight(p)'
      BY <1>1, <1>2, <1>5, <2>1, <2>7, <2>8 DEF UpdateRight, SameTime
    <2>10. programs[p].pc # "off"
      BY <1>1
    <2> QED
      BY <1>1, <1>8, <2>1, <2>5, <2>6, <2>9, <2>10, StepOfOne
  <1> QED
    BY <1>6, <1>7, <1>8

LEMMA EndOfFilesRight ==
  ASSUME DatabaseInv, RowsInv, NEW p \in Programs, EndOfFiles(p)
  PROVE  RowsInv' /\ View(p)' = View(p)
  <1> DEFINE q == IF offline THEN Over(p, "") ELSE [Over(p, "") EXCEPT !.pc = "remote"]
  <1>1. q.pc \in {"idle", "remote"} /\ q.conn = programs[p].conn
    BY DEF Over, Off
  <1>2. SameTime /\ programs[p].pc = "files" /\ CommitChanges(p, q)
    BY DEF EndOfFiles, SameTime, FilesCommitted
  <1> HIDE DEF q
  <1>3. CASE Db(p).writer = p /\ Commit(p, View(p), q)
    <2>1. MayWrite(p)
      BY <1>3 DEF MayWrite
    <2>2. NoOlder(View(p), Db(p).rows) /\ \A r \in View(p) : RowTrue(r)
      BY <1>2, <1>3, ViewsTrue
    <2>3. programs'[p] = q => UpdateRight(p)'
      BY <1>1, NotUpdating DEF Updating
    <2>4. PICK view : view = View(p)
      OBVIOUS
    <2>5. RowsInv' /\ View(p)' = view
      BY <1>1, <1>2, <1>3, <2>1, <2>2, <2>3, <2>4, CommitRight
    <2> QED
      BY <2>4, <2>5
  <1>4. CASE Become(p, q) /\ databases' = databases
    <2>1. programs'[p] = q /\ \A r \in Programs \ {p} : programs'[r] = programs[r]
      BY <1>4, OnlyOneBecomes
    <2>2. UpdateRight(p)'
      BY <1>1, <2>1, NotUpdating DEF Updating
    <2>3. RowsInv'
      BY <1>2, <1>4, <2>1, <2>2, StepOfOne
    <2> QED
      BY <1>1, <1>4, <2>1, <2>3 DEF View, Db
  <1> QED
    BY <1>2, <1>3, <1>4 DEF CommitChanges

LEMMA ExitRight ==
  ASSUME DatabaseInv, RowsInv, NEW p \in Programs, Exit(p)
  PROVE  RowsInv'
  <1> DEFINE c == programs[p].conn
             d == [databases[c] EXCEPT !.writer = Nobody, !.draft = {}, !.spilled = FALSE]
  <1>1. SameTime /\ programs[p].pc # "off" /\ Become(p, Off)
    BY DEF Exit, SameTime
  <1>2. programs'[p] = Off /\ \A r \in Programs \ {p} : programs'[r] = programs[r]
    BY <1>1, OnlyOneBecomes
  <1>3. UpdateRight(p)'
    <2>1. Off.pc \notin Updating
      BY DEF Off, Updating
    <2> QED
      BY <1>2, <2>1, NotUpdating
  <1>4. /\ c \in DOMAIN databases /\ DOMAIN databases[c] = DatabaseFields
        /\ \A r \in databases[c].rows : RowTrue(r)
    BY <1>1 DEF DatabaseInv, Shape, RowsInv, RowsTrue
  <1>5. databases' = [databases EXCEPT ![c] = IF databases[c].writer = p THEN d ELSE databases[c]]
    BY <1>4 DEF Exit
  <1>6. CASE databases[c].writer = p
    <2>1. /\ DOMAIN d = DatabaseFields /\ d.draft = {} /\ d.rows = Db(p).rows /\ d.writer = Nobody
          /\ databases' = [databases EXCEPT ![c] = d] /\ MayWrite(p)
      BY <1>4, <1>5, <1>6 DEF Db, DatabaseFields, MayWrite
    <2> HIDE DEF d
    <2>2. ChangesDatabase(p, d) /\ \A r \in d.rows \cup d.draft : RowTrue(r)
      BY <1>4, <2>1 DEF ChangesDatabase, Db
    <2> QED
      BY <1>1, <1>2, <1>3, <2>1, <2>2, StepOfOne
  <1>7. CASE databases[c].writer # p
    <2>1. databases' = databases
      <3>1. PICK D : databases \in Seq(D)
        BY DEF DatabaseInv, Shape
      <3>2. databases \in [1 .. Len(databases) -> D]
        BY <3>1
      <3> QED
        BY <1>4, <1>5, <1>7, <3>2
    <2> QED
      BY <1>1, <1>2, <1>3, <2>1, StepOfOne
  <1> QED
    BY <1>6, <1>7

LEMMA ConnectRight ==
  ASSUME DatabaseInv, RowsInv, NEW p \in Programs, Connect(p)
  PROVE  RowsInv'
  <1>1. SameTime /\ programs[p].pc = "off"
    BY DEF Connect, SameTime
  <1>2. PICK q : Become(p, q) /\ q.pc = "idle" /\ (databases' = databases \/ databases' = Append(databases, NewDatabase))
    <2>1. [Off EXCEPT !.pc = "idle", !.conn = Current].pc = "idle"
          /\ [Off EXCEPT !.pc = "idle", !.conn = Current + 1].pc = "idle"
      BY DEF Off
    <2> QED
      BY <2>1 DEF Connect
  <1>3. programs'[p] = q /\ \A r \in Programs \ {p} : programs'[r] = programs[r]
    BY <1>2, OnlyOneBecomes
  <1>4. UpdateRight(p)'
    BY <1>2, <1>3, NotUpdating DEF Updating
  <1>5. CASE databases' = databases
    BY <1>1, <1>3, <1>4, <1>5, StepOfOne
  <1>6. CASE databases' = Append(databases, NewDatabase)
    <2>1. /\ DOMAIN databases' = DOMAIN databases \cup {Len(databases) + 1}
          /\ databases'[Len(databases) + 1] = NewDatabase
          /\ \A i \in DOMAIN databases : databases'[i] = databases[i]
      <3>1. PICK D : databases \in Seq(D)
        BY DEF DatabaseInv, Shape
      <3>2. databases \in Seq(D \cup {NewDatabase})
        BY <3>1
      <3> QED
        BY <1>6, <3>2
    <2>2. DOMAIN NewDatabase = DatabaseFields /\ NewDatabase.rows = {} /\ NewDatabase.draft = {} /\ NewDatabase.writer = Nobody
      BY DEF NewDatabase, DatabaseFields
    <2>3. Times'
      BY <1>1 DEF RowsInv, Times, SameTime
    <2>4. RowsTrue'
      BY <1>1, <2>1, <2>2, SameTruth DEF RowsInv, RowsTrue
    <2>5. DraftsNoOlder'
      BY <2>1, <2>2 DEF RowsInv, DraftsNoOlder, NoOlder, Row, LocalRows
    <2>6. ASSUME NEW r \in Programs \ {p}
          PROVE  UpdateRight(r)'
      <3>1. programs[r].pc # "off" => Db(r)' = Db(r)
        BY <1>3, <2>1 DEF Db, DatabaseInv, Shape
      <3>2. programs[r].pc # "off" => ViewGoesOn(r)
        BY <3>1 DEF ViewGoesOn, View
      <3> QED
        BY <1>1, <1>3, <3>2, UpdateGoesOn
    <2> QED
      BY <1>4, <2>3, <2>4, <2>5, <2>6 DEF RowsInv
  <1> QED
    BY <1>2, <1>5, <1>6

LEMMA EnterListRight ==
  ASSUME DatabaseInv, RowsInv, NEW p \in Programs, EnterList(p)
  PROVE  RowsInv'
  <1> DEFINE c == programs[p].conn
  <1>1. fetches[p].state # "none" /\ SameTime
    BY DEF EnterList, SameTime
  <1>2. programs[p].pc = "remote" /\ \A i \in DOMAIN databases : databases[i].writer # p
    BY <1>1, RemoteHoldsNothing
  <1>3. /\ c \in DOMAIN databases /\ Db(p).writer # p
        /\ \A r \in View(p) : RowTrue(r)
        /\ DOMAIN databases[c] = DatabaseFields
        /\ \A r \in databases[c].rows : RowTrue(r)
    BY <1>2, ViewsTrue DEF Db, RowsInv, RowsTrue
  <1>5. PICK list \in RemoteLists :
          IF list.entries # <<>> /\ ~MayWrite(p) THEN Raises(p, "locked") /\ UNCHANGED databases
          ELSE IF list.raises
            THEN /\ Raises(p, "list")
                 /\ IF list.entries = <<>> THEN UNCHANGED databases ELSE Changes(p, Stored(p, list.entries))
          ELSE IF list.entries = <<>> THEN CommitChanges(p, Over(p, ""))
          ELSE Commit(p, Stored(p, list.entries), Over(p, ""))
    BY DEF EnterList
  <1>6. PICK rows : /\ rows = Stored(p, list.entries)
                    /\ \A r \in rows : RowTrue(r)
                    /\ LocalRows(rows) = LocalRows(View(p))
    BY <1>3, EntriesAreElsewhere
  <1>7. \A why : Over(p, why).pc = "idle" /\ Over(p, why).conn = c
    BY DEF Over, Off
  <1>8. CASE databases' = databases /\ \E why : Become(p, Over(p, why))
    BY <1>1, <1>8, RaisesRight DEF Raises
  <1>9. MayWrite(p) => NoOlder(rows, Db(p).rows)
    <2> SUFFICES ASSUME MayWrite(p)
                 PROVE  NoOlder(rows, Db(p).rows)
      OBVIOUS
    <2>1. NoOlder(View(p), Db(p).rows)
      BY <1>2, ViewsTrue DEF MayWrite
    <2> QED
      BY <1>6, <2>1 DEF NoOlder, Row
  <1>10. CASE MayWrite(p) /\ Changes(p, rows) /\ Raises(p, "list")
    <2>1. PICK spilled \in BOOLEAN :
            databases' = [databases EXCEPT ![c] = [@ EXCEPT !.draft = rows, !.writer = p, !.spilled = spilled]]
      BY <1>10 DEF Changes, Drafted
    <2> DEFINE d == [databases[c] EXCEPT !.draft = rows, !.writer = p, !.spilled = spilled]
    <2>2. /\ DOMAIN d = DatabaseFields /\ d.draft = rows /\ d.rows = Db(p).rows /\ d.writer = p
          /\ databases' = [databases EXCEPT ![c] = d]
      BY <1>3, <2>1 DEF Db, DatabaseFields
    <2> HIDE DEF d
    <2>3. ChangesDatabase(p, d) /\ \A r \in d.rows \cup d.draft : RowTrue(r)
      BY <1>3, <1>6, <1>9, <1>10, <2>2 DEF ChangesDatabase, Db
    <2>4. programs'[p] = Over(p, "list") /\ \A r \in Programs \ {p} : programs'[r] = programs[r]
      BY <1>10, OnlyOneBecomes DEF Raises
    <2>5. UpdateRight(p)'
      BY <1>7, <2>4, NotUpdating DEF Updating
    <2>6. programs[p].pc # "off"
      BY <1>2
    <2> QED
      BY <1>1, <1>10, <2>2, <2>3, <2>4, <2>5, <2>6, StepOfOne
  <1>11. CASE MayWrite(p) /\ Commit(p, rows, Over(p, ""))
    <2>1. programs[p].pc # "off"
      BY <1>2
    <2>2. PICK q : q = Over(p, "")
      OBVIOUS
    <2>3. q.conn = programs[p].conn /\ q.pc = "idle" /\ Commit(p, rows, q)
      BY <1>7, <1>11, <2>2
    <2>4. programs'[p] = q => UpdateRight(p)'
      BY <2>3, NotUpdating DEF Updating
    <2> QED
      BY <1>1, <1>6, <1>9, <1>11, <2>1, <2>3, <2>4, CommitRight
  <1> QED
    BY <1>3, <1>5, <1>6, <1>8, <1>10, <1>11 DEF Raises, CommitChanges

\* The steps around the list.
LEMMA FetchingRight ==
  ASSUME DatabaseInv, RowsInv, NEW p \in Programs, AskForList(p) \/ FetchList(p)
  PROVE  RowsInv'
  <1>1. SameTime /\ databases' = databases
    BY DEF AskForList, FetchList, SameTime
  <1>2. CASE programs' = programs
    <2>1. \A q \in Programs : ViewGoesOn(q)
      BY <1>1, <1>2 DEF ViewGoesOn, View, Db
    <2>2. UpdateRight(p)'
      BY <1>1, <1>2, <2>1, UpdateGoesOn
    <2> QED
      BY <1>1, <1>2, <2>2, StepOfOne
  <1>3. CASE Raises(p, "locked")
    BY <1>1, <1>3, RaisesRight
  <1>4. CASE \E reading : Become(p, [programs[p] EXCEPT !.reading = reading]) /\ programs[p].pc = "remote"
    <2>1. PICK q : Become(p, q) /\ q.pc = "remote"
      <3>1. PICK reading : Become(p, [programs[p] EXCEPT !.reading = reading]) /\ programs[p].pc = "remote"
        BY <1>4
      <3>2. [programs[p] EXCEPT !.reading = reading].pc = "remote"
        BY <3>1 DEF DatabaseInv, Shape, ProgramFields
      <3> QED
        BY <3>1, <3>2
    <2>2. programs'[p] = q /\ \A r \in Programs \ {p} : programs'[r] = programs[r]
      BY <2>1, OnlyOneBecomes
    <2>3. UpdateRight(p)'
      BY <2>1, <2>2, NotUpdating DEF Updating
    <2> QED
      BY <1>1, <2>2, <2>3, StepOfOne
  <1> QED
    BY <1>2, <1>3, <1>4 DEF AskForList, FetchList

\* A file that changes has a time behind all others; time goes on.
LEMMA TimeGoesOn ==
  ASSUME DatabaseInv, RowsInv, (\E l \in Locations : ChangeFile(l)) \/ Tick \/ UNCHANGED symbolVars
  PROVE  RowsInv'
  <1>1. /\ databases' = databases /\ programs' = programs /\ skew' = skew
        /\ clock' \in {clock, clock + 1} /\ clock \in Nat
    BY DEF ChangeFile, Tick, symbolVars, RowsInv, Times
  <1>2. /\ DOMAIN disk' \subseteq Locations
        /\ \A l \in DOMAIN disk' : \/ l \in DOMAIN disk /\ disk'[l] = disk[l]
                                   \/ disk'[l].mtime = clock + 1 /\ clock' = clock + 1
    <2>1. CASE disk' = disk
      BY <2>1 DEF RowsInv, Times
    <2>2. CASE \E l \in Locations : ChangeFile(l)
      <3>1. PICK l \in Locations : ChangeFile(l)
        BY <2>2
      <3>2. CASE \E c \in Identifiers \cup {Broken} :
                   disk' = [x \in DOMAIN disk \cup {l} |-> IF x = l THEN [content |-> c, mtime |-> clock + 1] ELSE disk[x]]
        BY <3>1, <3>2 DEF ChangeFile, RowsInv, Times
      <3>3. CASE l \in DOMAIN disk /\ disk' = [x \in DOMAIN disk \ {l} |-> disk[x]]
        BY <3>3 DEF RowsInv, Times
      <3> QED
        BY <3>1, <3>2, <3>3 DEF ChangeFile
    <2> QED
      BY <2>1, <2>2 DEF Tick, symbolVars
  <1>3. Times'
    BY <1>1, <1>2 DEF RowsInv, Times
  <1>4. ASSUME NEW r, r.read \in Int, r.read <= clock, NamesContent(r)
        PROVE  NamesContent(r)'
    BY <1>1, <1>2, <1>4 DEF NamesContent
  <1>5. \A r : RowTrue(r) => RowTrue(r)'
    BY <1>1, <1>4 DEF RowTrue
  <1>6. RowsTrue' /\ DraftsNoOlder'
    BY <1>1, <1>5 DEF RowsInv, RowsTrue, DraftsNoOlder, NoOlder, Row, LocalRows
  <1>7. ASSUME NEW p \in Programs
        PROVE  UpdateRight(p)'
    <2>1. UpdateRight(p)
      BY DEF RowsInv
    <2>2. View(p)' = View(p) /\ Db(p)' = Db(p)
      BY <1>1 DEF View, Db
    <2>3. programs[p].pc = "read" => HandRight(p)'
      <3> SUFFICES ASSUME programs[p].pc = "read"
                   PROVE  HandRight(p)'
        OBVIOUS
      <3>1. HandRight(p)
        BY <2>1 DEF UpdateRight
      <3>2. PICK hand : hand = programs[p].hand[1]
        OBVIOUS
      <3>3. NamesContent(hand)'
        BY <1>4, <3>1, <3>2 DEF HandRight
      <3> QED
        BY <1>1, <3>1, <3>2, <3>3 DEF HandRight
    <2>4. ASSUME programs[p].pc \in Updating, NEW l, AsListed(p, l)'
          PROVE  AsListed(p, l) /\ disk'[l] = disk[l]
      <3>1. programs[p].since \in Int /\ programs[p].since <= clock
        BY <2>1, <2>4 DEF UpdateRight
      <3> QED
        BY <1>1, <1>2, <2>4, <3>1 DEF AsListed
    <2>5. ASSUME programs[p].pc \in {"files", "read"}, ~programs[p].disturbed,
                 NEW l \in programs[p].listed \ programs[p].todo, AsListed(p, l)'
          PROVE  \E r \in Row(View(p), l) : Stands(p, l, r)'
      <3>1. AsListed(p, l) /\ disk'[l] = disk[l]
        BY <2>4, <2>5 DEF Updating
      <3>2. PICK r \in Row(View(p), l) : Stands(p, l, r)
        BY <2>1, <2>5, <3>1 DEF UpdateRight
      <3> QED
        BY <1>1, <2>2, <3>1, <3>2 DEF Stands
    <2> QED
      BY <1>1, <2>1, <2>2, <2>3, <2>5 DEF UpdateRight, Updating
  <1> QED
    BY <1>3, <1>6, <1>7 DEF RowsInv

LEMMA RowsAtFirst ==
  ASSUME Init
  PROVE  RowsInv
  <1>1. DOMAIN NewDatabase = DatabaseFields /\ NewDatabase.rows = {} /\ NewDatabase.draft = {} /\ NewDatabase.writer = Nobody
    BY DEF NewDatabase, DatabaseFields
  <1>2. \A i \in DOMAIN databases : databases[i] = NewDatabase
    BY DEF Init
  <1>3. Times
    <2>1. PICK S \in SUBSET Locations : disk \in [S -> [content : Identifiers, mtime : {0}]]
      BY DEF Init
    <2> QED
      BY <2>1 DEF Init, Times
  <1>4. RowsTrue /\ DraftsNoOlder
    BY <1>1, <1>2 DEF RowsTrue, DraftsNoOlder
  <1>5. \A p \in Programs : programs[p] = Off
    BY DEF Init
  <1>6. Off.pc \notin Updating
    BY DEF Off, Updating
  <1>7. \A p \in Programs : UpdateRight(p)
    BY <1>5, <1>6 DEF UpdateRight, Updating
  <1> QED
    BY <1>3, <1>4, <1>7 DEF RowsInv

\* Whatever other programs do to the database, a row names what its file held when it was read,
\* and a program that updates has looked at every file whose row does not stand.
THEOREM RowsInductive == Spec => []RowsInv
  <1>1. Init => RowsInv
    BY RowsAtFirst
  <1>2. DatabaseInv /\ RowsInv /\ [Next]_symbolVars => RowsInv'
    <2> SUFFICES ASSUME DatabaseInv, RowsInv, [Next]_symbolVars
                 PROVE  RowsInv'
      OBVIOUS
    <2>1. ASSUME NEW p \in Programs,
                 \/ Connect(p) \/ Exit(p) \/ List(p) \/ Compare(p) \/ Check(p) \/ Store(p) \/ EndOfFiles(p)
                 \/ AskForList(p) \/ FetchList(p) \/ EnterList(p)
                 \/ \E l \in Locations : Read(p, l)
          PROVE  RowsInv'
      BY <2>1, ConnectRight, ExitRight, ListRight, CompareRight, CheckRight, StoreRight, EndOfFilesRight,
         FetchingRight, EnterListRight, ReadRight
    <2>2. ASSUME NEW p \in Programs, NoList(p)
          PROVE  RowsInv'
      BY <2>2, RaisesRight DEF NoList, SameTime
    <2>3. CASE (\E l \in Locations : ChangeFile(l)) \/ Tick \/ UNCHANGED symbolVars
      BY <2>3, TimeGoesOn
    <2> QED
      BY <2>1, <2>2, <2>3 DEF Next
  <1>3. Spec => []DatabaseInv
    BY CacheInductive, PTL
  <1> QED
    BY <1>1, <1>2, <1>3, PTL DEF Spec

\* When update() has come to the end of the files, the row of each file that was left alone
\* names what is in it, or is from a time at which no look was due, or from before a change
\* that cannot be noticed.
LEMMA EndWithRowsRight ==
  ASSUME DatabaseInv, RowsInv, NEW p \in Programs, EndOfFiles(p), ~programs[p].disturbed,
         NEW l \in programs[p].listed \cap DOMAIN disk,
         disk[l].content # Broken, disk[l].mtime <= programs[p].since
  PROVE  \E r \in Row(View(p)', l) :
           \/ r.identifier = disk[l].content
           \/ r.cached >= Midnight(programs[p].since - Period)
           \/ r.read < disk[l].mtime /\ disk[l].mtime + skew <= r.cached
  <1>1. programs[p].pc = "files" /\ programs[p].todo = {}
    BY DEF EndOfFiles
  <1>2. PICK r \in Row(View(p), l) : Stands(p, l, r)
    BY <1>1 DEF RowsInv, UpdateRight, AsListed
  <1>3. View(p)' = View(p)
    BY EndOfFilesRight
  <1>4. r \in View(p) /\ r.local /\ r.location = l
    BY DEF Row, LocalRows
  <1>5. RowTrue(r)
    BY <1>1, <1>4, ViewsTrue
  <1>6. r.read < disk[l].mtime \/ r.identifier = disk[l].content
    BY <1>4, <1>5 DEF RowTrue, NamesContent, RowsInv, Times
  <1> QED
    BY <1>2, <1>3, <1>6 DEF Stands

\* The rows find_location answers from after an update are right, for any number of programs
\* that update one database at the same time or are killed while they do, and any changes of files.
THEOREM RowsAreRight == Spec => RowsRight
  <1>1. DatabaseInv /\ RowsInv /\ [Next]_symbolVars =>
          [\A p \in Programs : EndOfFiles(p) /\ ~programs[p].disturbed =>
             \A l \in programs[p].listed \cap DOMAIN disk :
               disk[l].content # Broken /\ disk[l].mtime <= programs[p].since =>
                 \E r \in Row(View(p)', l) :
                   \/ r.identifier = disk[l].content
                   \/ r.cached >= Midnight(programs[p].since - Period)
                   \/ r.read < disk[l].mtime /\ disk[l].mtime + skew <= r.cached]_symbolVars
    BY EndWithRowsRight
  <1>2. Spec => []DatabaseInv
    BY CacheInductive, PTL
  <1> QED
    BY <1>1, <1>2, RowsInductive, PTL DEF Spec, RowsRight
=============================================================================
