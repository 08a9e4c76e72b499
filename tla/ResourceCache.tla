--------------------------- MODULE ResourceCache ---------------------------
(***************************************************************************)
(* layers/resources.py: ResourceAccessor.open for a remote URL.  What is   *)
(* downloaded is kept in the cache directory under the hash of its URL,    *)
(* and never asked for again; programs that run at the same time share the *)
(* directory, and nothing locks it.                                        *)
(*                                                                         *)
(* One URL is modelled: a path in the directory, and the files that have   *)
(* been created there.  A file is the set of its blocks that are right: a  *)
(* program that writes to a file that was truncated leaves a hole.         *)
(***************************************************************************)
EXTENDS Integers, Sequences, FiniteSets

CONSTANTS
  Programs,   \* that run at the same time, with one cache directory
  Blocks,     \* how many blocks the resource has
  MaxInodes   \* bound: how often the file is created

ASSUME BlocksAssumption == Blocks \in Nat \ {0}

VARIABLES
  hasLength,  \* does the server send a Content-Length; never changes
  path,       \* the file at temp_filename, 0 for none
  files,      \* [blocks, size, abandoned] for each file that was created; abandoned (not in
              \* the code): a download of it was killed, or broke off and was taken for complete
  fetches     \* of each program: [state, file, count]

resourceVars == <<hasLength, path, files, fetches>>

File(blocks, size, abandoned) == [blocks |-> blocks, size |-> size, abandoned |-> abandoned]
Idle == [state |-> "none", file |-> 0, count |-> 0]
Whole(i) == files[i].blocks = 1 .. Blocks
Downloading(i) == {p \in Programs : fetches[p].state = "writing" /\ fetches[p].file = i}

To(p, state) == [fetches EXCEPT ![p].state = state]

-----------------------------------------------------------------------------
(* Deviations a bug could introduce; only the mutants of PROJECT.json use them. *)

\* Only an exception is noticed, not a file that is too short
TooShortOnError(p, size) == size < 0

-----------------------------------------------------------------------------

\* cache_file_size < content_length; a length that is not told is -1, and so is a size
\* that an exception came before
TooShort(p, size) == size < (IF hasLength THEN Blocks ELSE -1)

\* os.remove: of whatever lies at the path by now; what is raised afterwards is all the same
RemoveFile == path' = 0

\* The URL cannot be opened, or the program is not online
Unreachable(p) ==
  /\ fetches[p].state = "asking" /\ fetches' = To(p, "failed")
  /\ UNCHANGED <<hasLength, path, files>>

\* The file exists: it is taken as it is
AlreadyCached(p) ==
  /\ fetches[p].state = "asking" /\ path # 0
  /\ fetches' = To(p, "cached")
  /\ UNCHANGED <<hasLength, path, files>>

\* It does not: it will be created
NotCached(p) ==
  /\ fetches[p].state = "asking" /\ path = 0
  /\ fetches' = To(p, "creating")
  /\ UNCHANGED <<hasLength, path, files>>

\* open(temp_filename, "wb"): truncates a file that was created meanwhile
Create(p) ==
  /\ fetches[p].state = "creating"
  /\ IF path = 0
       THEN /\ Len(files) < MaxInodes
            /\ files' = Append(files, File({}, 0, FALSE))
            /\ path' = Len(files) + 1
       ELSE /\ files' = [files EXCEPT ![path] = File({}, 0, @.abandoned)]
            /\ UNCHANGED path
  /\ fetches' = [fetches EXCEPT ![p] = [state |-> "writing", file |-> path', count |-> 0]]
  /\ UNCHANGED hasLength

\* The next block, written where this program is in the file
Write(p) ==
  LET b == fetches[p].count + 1
      i == fetches[p].file
  IN /\ fetches[p].state = "writing" /\ b <= Blocks
     /\ files' = [files EXCEPT ![i] = File(@.blocks \cup {b}, IF @.size < b THEN b ELSE @.size, @.abandoned)]
     /\ fetches' = [fetches EXCEPT ![p].count = b]
     /\ UNCHANGED <<hasLength, path>>

\* The download ends with size bytes in the file: it is opened again from the path, or removed
Finish(p, size) ==
  IF TooShort(p, size) THEN RemoveFile /\ fetches' = To(p, "failed")
  ELSE UNCHANGED path /\ fetches' = To(p, "cached")

\* All has come, or the connection was closed: then the loop ends like at the end of the file
Ends(p) ==
  LET i == fetches[p].file
  IN /\ fetches[p].state = "writing"
     /\ Finish(p, files[i].size)
     /\ files' = [files EXCEPT ![i].abandoned =
                  @ \/ (fetches[p].count < Blocks /\ (~hasLength \/ files[i].size = Blocks))]
     /\ UNCHANGED hasLength

\* An exception; without a length the file stays
Breaks(p) ==
  LET i == fetches[p].file
  IN /\ fetches[p].state = "writing" /\ fetches[p].count < Blocks
     /\ IF TooShort(p, -1) THEN RemoveFile ELSE UNCHANGED path
     /\ fetches' = To(p, "failed")
     /\ files' = [files EXCEPT ![i].abandoned = @ \/ ~hasLength]
     /\ UNCHANGED hasLength

\* open(temp_filename, "rb"), and what is read from it
Reopen(p) ==
  /\ fetches[p].state = "cached"
  /\ fetches' = [fetches EXCEPT ![p] = [Idle EXCEPT !.state =
                  IF path = 0 THEN "failed" ELSE IF Whole(path) THEN "whole" ELSE "part"]]
  /\ UNCHANGED <<hasLength, path, files>>

\* A program is killed while it downloads: no finally clause runs
Kill(p) ==
  /\ fetches[p].state = "writing"
  /\ files' = [files EXCEPT ![fetches[p].file].abandoned = TRUE]
  /\ fetches' = To(p, "killed")
  /\ UNCHANGED <<hasLength, path>>

ResourceInit ==
  /\ hasLength \in BOOLEAN
  /\ path = 0 /\ files = <<>>
  /\ fetches = [p \in Programs |-> Idle]

Fetch(p) ==
  \/ Unreachable(p) \/ AlreadyCached(p) \/ NotCached(p) \/ Create(p) \/ Write(p)
  \/ Ends(p) \/ Breaks(p) \/ Reopen(p) \/ Kill(p)

-----------------------------------------------------------------------------
(* Properties *)

\* What lies in the cache, and will be taken for the resource by every program from then on,
\* is whole or is being downloaded, unless the download was killed or broke off unnoticed:
\* because the server had told no length, or another program had made the file long enough.
PartsForCause ==
  path # 0 => Whole(path) \/ Downloading(path) # {} \/ files[path].abandoned
=============================================================================
