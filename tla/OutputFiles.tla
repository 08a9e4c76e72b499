---------------------------- MODULE OutputFiles ----------------------------
(***************************************************************************)
(* The files that plugins dump memory to, by FileHandlerInterface and the  *)
(* file handlers of the command line, and the plugins that use them.       *)
(* Several programs may write to one directory.                            *)
(*                                                                         *)
(* A file is written under a temporary name, or in memory, and gets its    *)
(* name when it is closed: the preferred one, or a numbered one if there   *)
(* is a file of that name.  A handler that is dropped without being closed *)
(* is closed by its finalizer.                                             *)
(***************************************************************************)
EXTENDS Integers, Sequences, SequencesExt, FiniteSetsExt

CONSTANTS
  Programs,
  JobLists,    \* program -> the sequences of dumps it may have to make, which are
               \* [producer, name, size]
  FilesBefore, \* the names that are in the directory already
  ChunkSize    \* bytes written at a time by those who write chunks

Exceptions == {"address", "os", "value"}

\* A name is a sequence: <<stem>>, and <<stem, 1>> for the name with "-1" put to it
Numbered(name, n) == Append(name, n)

\* A name with a path separator in it
Refused(name) == name[1] = "sep"

None == 0
Error == <<>>   \* what a row says in place of a name

VARIABLES
  files,       \* the directory: name -> [job, bytes]
  temps,       \* the temporary files: those who write them, which are [program, job]
  program,     \* program -> [jobs, direct, job, step, done, bytes, outcome, chosen]
  rows,        \* what the rows of the plugins say: [by, says]
  committed,   \* history: who has given a file its name: [program, job] -> name
  failed,      \* history: who has met an exception while writing
  spoiled,     \* history: who has met one while opening or closing
  killed,      \* history: the programs killed
  clashed      \* history: names chosen by two programs before either used it

outputVars == <<files, temps, program, rows, committed, failed, spoiled, killed, clashed>>

-----------------------------------------------------------------------------
(***************************************************************************)
(* Who writes files.                                                       *)
(*   opening, guarded, closing: which exceptions of open_method(), of what *)
(*     is done with the file and of close() are taken for a failed dump;   *)
(*     any other ends the program, the file being closed on the way        *)
(*   skips: those after which the next piece is written                    *)
(*   raises: those that can occur while the file is open                   *)
(*   failure: what comes of a failed dump                                  *)
(*   drops: when the file is left to its finalizer                         *)
(*   says: when the name in the row is looked at, before or after the file *)
(*     is closed, or with each piece                                       *)
(***************************************************************************)
VadDump ==
  [opening |-> Exceptions, guarded |-> Exceptions, closing |-> {}, skips |-> {}, raises |-> Exceptions,
   failure |-> "error", drops |-> {"error"}, says |-> "after"]
VmaDump == VadDump
MacVmaDump == VadDump

\* The generator takes an OSError of write_layer() for a failure, says so, and goes on
WriteLayer ==
  [VadDump EXCEPT !.opening = {"os"}, !.guarded = {"os"}, !.closing = {"os"},
                  !.failure = "both", !.drops = {"both"}]

DumpFileProducer == [VadDump EXCEPT !.opening = {}, !.guarded = {"address"}]

\* The name is returned from within the with block
DumpPE == [VadDump EXCEPT !.opening = {}, !.drops = {}, !.says = "before"]

\* Whatever happens after open_method(), the handle is returned
ProcessDump == [VadDump EXCEPT !.failure = "written", !.drops = {}]

DumpHive == [VadDump EXCEPT !.opening = {}, !.guarded = {}, !.drops = {}]

MemMap == [DumpHive EXCEPT !.skips = {"address"}, !.says = "each"]

\* The data is complete before the file is opened
ElfDump == [DumpHive EXCEPT !.raises = {"os"}]

ModuleDump == ElfDump

\* The plugin that lists processes looks at the name of an ELF before it closes the file
ElfOfTask == [ElfDump EXCEPT !.says = "before"]

\* An OSError, or an exception of the page cache, is logged, and the name said that was asked for
DumpInode ==
  [DumpHive EXCEPT !.opening = {"os"}, !.guarded = {"cache", "os"}, !.closing = {"os"},
                   !.raises = Exceptions \cup {"cache"}, !.failure = "written", !.says = "before"]

Producers ==
  [vad |-> VadDump, vma |-> VmaDump, mac |-> MacVmaDump, layer |-> WriteLayer,
   cache |-> DumpFileProducer, pe |-> DumpPE, process |-> ProcessDump, map |-> MemMap,
   elf |-> ElfDump, module |-> ModuleDump, task |-> ElfOfTask, hive |-> DumpHive, inode |-> DumpInode]

Least(a, b) == IF a < b THEN a ELSE b

\* "to_read = min(chunk_size, vad_start + vad_size - offset)", as long as there is more
Chunks(size) ==
  [i \in 1 .. (size + ChunkSize - 1) \div ChunkSize |-> Least(ChunkSize, size - (i - 1) * ChunkSize)]

\* A deviation a bug could introduce: the last chunk is cut to the maximum address.
LayerChunksShort(size) ==
  LET maximum == size - 1
  IN [i \in 1 .. (maximum + ChunkSize - 1) \div ChunkSize |->
        Least(ChunkSize, maximum - (i - 1) * ChunkSize)]

\* "range(0, layer.maximum_address, chunk_size)"
LayerChunks(size) ==
  LET maximum == size - 1
  IN [i \in 1 .. (maximum + ChunkSize - 1) \div ChunkSize |->
        Least(ChunkSize, maximum + 1 - (i - 1) * ChunkSize)]

\* What is written at a time: pages, sections of an executable, or all of an ELF file
Pieces(job) ==
  IF job.producer = "layer" THEN LayerChunks(job.size)
  ELSE IF job.producer \in {"vad", "vma", "mac", "hive"} THEN Chunks(job.size)
  ELSE IF job.producer \in {"elf", "module", "task"} THEN <<job.size>>
  ELSE [i \in 1 .. job.size |-> 1]

-----------------------------------------------------------------------------
Job(p) == program[p].jobs[program[p].job]

Producer(p) == Producers[Job(p).producer]

Self(p) == [program |-> p, job |-> program[p].job]

At(p, step) == program[p].step = step /\ program[p].job <= Len(program[p].jobs)

\* dictionary[key] = value
With(dictionary, key, value) ==
  [k \in DOMAIN dictionary \cup {key} |-> IF k = key THEN value ELSE dictionary[k]]

Saying(p, names) == rows \cup {[by |-> Self(p), says |-> name] : name \in names}

-----------------------------------------------------------------------------
(* Deviations a bug could introduce; only the mutants of PROJECT.json use them. *)

\* Only the first number is tried.
FirstNumber(name) == IF name \in DOMAIN files THEN Numbered(name, 1) ELSE name

\* The handler keeps the name that was preferred.
KeepsPreferred(p) == Job(p).name

-----------------------------------------------------------------------------
OfOthers == [job |-> [program |-> None, job |-> 0], bytes |-> 0]

NoProgram ==
  [jobs |-> <<>>, direct |-> FALSE, job |-> 1, step |-> "idle", done |-> 0, bytes |-> 0,
   outcome |-> "none", chosen |-> Error]

OutputBegins ==
  /\ files = [name \in FilesBefore |-> OfOthers]
  /\ temps = {} /\ rows = {}
  /\ committed = <<>> /\ failed = {} /\ spoiled = {} /\ killed = {} /\ clashed = {}

OutputInit ==
  /\ OutputBegins
  /\ \E jobs \in [Programs -> UNION {JobLists[p] : p \in Programs}], direct \in [Programs -> BOOLEAN] :
       /\ \A p \in Programs : jobs[p] \in JobLists[p]
       /\ program = [p \in Programs |-> [NoProgram EXCEPT !.jobs = jobs[p], !.direct = direct[p]]]

NextJob(p) ==
  program' = [program EXCEPT ![p].job = @ + 1, ![p].step = "idle", ![p].done = 0, ![p].bytes = 0]

\* An exception nobody catches ends the program
Ends(p) == program' = [program EXCEPT ![p].job = Len(program[p].jobs) + 1]

\* What the row of a dump says that failed before there was a file
SaidUnopened(p) ==
  IF Producer(p).failure = "both" THEN {Error, Job(p).name}
  ELSE IF Job(p).producer = "inode" THEN {Job(p).name} ELSE {Error}

Unopened(p, exception) ==
  IF exception \in Producer(p).opening THEN rows' = Saying(p, SaidUnopened(p)) /\ NextJob(p)
  ELSE UNCHANGED rows /\ Ends(p)

\* open_method(name): the temporary file is there before the name is looked at
Open(p) ==
  /\ At(p, "idle")
  /\ temps' = IF program[p].direct THEN temps \cup {Self(p)} ELSE temps
  /\ \/ /\ ~Refused(Job(p).name)
        /\ program' = [program EXCEPT ![p].step = "write"]
        /\ UNCHANGED <<rows, spoiled>>
     \/ /\ Refused(Job(p).name)
        /\ Unopened(p, "value")
        /\ spoiled' = spoiled \cup {Self(p)}
  /\ UNCHANGED <<files, committed, failed, killed, clashed>>

\* mkstemp() raises
OpenFails(p) ==
  /\ At(p, "idle") /\ program[p].direct
  /\ Unopened(p, "os")
  /\ spoiled' = spoiled \cup {Self(p)}
  /\ UNCHANGED <<files, temps, committed, failed, killed, clashed>>

More(p) == program[p].done < Len(Pieces(Job(p)))

Write(p) ==
  /\ At(p, "write") /\ More(p)
  /\ program' = [program EXCEPT ![p].done = @ + 1, ![p].bytes = @ + Pieces(Job(p))[program[p].done + 1]]
  /\ rows' = IF Producer(p).says = "each" THEN Saying(p, {Job(p).name}) ELSE rows
  /\ UNCHANGED <<files, temps, committed, failed, spoiled, killed, clashed>>

\* Closing, or being dropped, comes next, whatever the outcome is
ToClose(p, outcome) == program' = [program EXCEPT ![p].step = "close", ![p].outcome = outcome]

\* A read or a write raises
Raised(p, exception) ==
  /\ More(p)
  /\ failed' = failed \cup {Self(p)}
  /\ IF exception \in Producer(p).skips
     THEN /\ program' = [program EXCEPT ![p].done = @ + 1]
          /\ rows' = Saying(p, {Error})
     ELSE /\ ToClose(p, IF exception \in Producer(p).guarded THEN Producer(p).failure ELSE "raised")
          /\ UNCHANGED rows
  /\ UNCHANGED <<files, temps, committed, spoiled, killed, clashed>>

\* Nothing has been written for a file of the cache: None is returned
NothingCached(p) == Job(p).producer = "cache" /\ program[p].bytes = 0

WriteFails(p) ==
  /\ At(p, "write")
  /\ \E exception \in Producer(p).raises : Raised(p, exception)

Written(p) ==
  /\ At(p, "write") /\ ~More(p)
  /\ ToClose(p, IF NothingCached(p) THEN "error" ELSE "written")
  /\ UNCHANGED <<files, temps, rows, committed, failed, spoiled, killed, clashed>>

-----------------------------------------------------------------------------
(* Closing *)

\* _get_final_filename(): "while os.path.exists(output_filename)"
FinalName(name) ==
  IF name \notin DOMAIN files THEN name
  ELSE Numbered(name, Min({n \in 1 .. Cardinality(DOMAIN files) + 1 : Numbered(name, n) \notin DOMAIN files}))

ChooseName(p) ==
  /\ At(p, "close")
  /\ LET name == FinalName(Job(p).name)
     IN /\ program' = [program EXCEPT ![p].step = "chosen", ![p].chosen = name]
        /\ clashed' = IF \E q \in Programs \ killed :
                            q # p /\ program[q].step \in {"chosen", "copy"} /\ program[q].chosen = name
                      THEN clashed \cup {name} ELSE clashed
  /\ UNCHANGED <<files, temps, rows, committed, failed, spoiled, killed>>

Commit(p, bytes, step) ==
  /\ files' = With(files, program[p].chosen, [job |-> Self(p), bytes |-> bytes])
  /\ committed' = With(committed, Self(p), program[p].chosen)
  /\ program' = [program EXCEPT ![p].step = step]
  /\ UNCHANGED <<rows, failed, spoiled, killed, clashed>>

\* CLIDirectFileHandler: "os.rename(self._name, output_filename)"
Rename(p) ==
  /\ At(p, "chosen") /\ program[p].direct
  /\ Commit(p, program[p].bytes, "report")
  /\ temps' = temps \ {Self(p)}

\* CLIMemFileHandler: the file is created or cut, and then written
Create(p) ==
  /\ At(p, "chosen") /\ ~program[p].direct
  /\ Commit(p, 0, "copy")
  /\ UNCHANGED temps

Copy(p) ==
  /\ At(p, "copy")
  /\ Commit(p, program[p].bytes, "report")
  /\ UNCHANGED temps

\* What is buffered cannot be written: the temporary file is closed, and stays. A
\* finalizer's exceptions are ignored.
CloseFails(p) ==
  /\ At(p, "chosen") /\ program[p].direct /\ program[p].bytes > 0
  /\ spoiled' = spoiled \cup {Self(p)}
  /\ program' = [program EXCEPT ![p].step = "report",
                   ![p].outcome = IF @ \in Producer(p).drops THEN @
                                  ELSE IF @ # "raised" /\ "os" \in Producer(p).closing THEN Producer(p).failure
                                  ELSE "raised"]
  /\ UNCHANGED <<files, temps, rows, committed, failed, killed, clashed>>

\* preferred_filename, once the file is closed
NameAfter(p) == IF program[p].direct THEN program[p].chosen ELSE Job(p).name

Said(p) ==
  CASE program[p].outcome = "raised" -> {}
    [] program[p].outcome = "error" -> {Error}
    [] program[p].outcome = "both" -> {Error, Job(p).name}
    [] program[p].outcome = "written" ->
         IF Producer(p).says = "each" THEN {} ELSE {IF Producer(p).says = "before" THEN Job(p).name ELSE NameAfter(p)}

\* The row of the dump
Report(p) ==
  /\ At(p, "report")
  /\ IF program[p].outcome = "raised" THEN Ends(p) ELSE NextJob(p)
  /\ rows' = Saying(p, Said(p))
  /\ UNCHANGED <<files, temps, committed, failed, spoiled, killed, clashed>>

Kill(p) ==
  /\ p \notin killed /\ program[p].job <= Len(program[p].jobs)
  /\ killed' = killed \cup {p}
  /\ UNCHANGED <<files, temps, program, rows, committed, failed, spoiled, clashed>>

OutputNext ==
  \E p \in Programs \ killed :
    \/ Open(p) \/ OpenFails(p) \/ Write(p) \/ Written(p) \/ WriteFails(p)
    \/ ChooseName(p) \/ Rename(p) \/ Create(p) \/ Copy(p) \/ CloseFails(p) \/ Report(p) \/ Kill(p)

OutputSpec == OutputInit /\ [][OutputNext]_outputVars

-----------------------------------------------------------------------------
(* Properties *)

JobOf(by) == program[by.program].jobs[by.job]

\* Still at it
Writing(by) ==
  by.program \notin killed /\ by.job = program[by.program].job
    /\ program[by.program].step \in {"write", "close", "chosen", "copy"}

\* Whatever several programs write to a directory, under names that others want too:
\* no file that was there is written to, each dump gets a file of its own, unless two
\* programs have found the same name free at the same time, and no temporary file
\* is left behind, unless its writer is killed, is refused the name, or fails to close it.
OutputsKept ==
  /\ \A name \in FilesBefore : files[name] = OfOthers
  /\ \A by \in DOMAIN committed : committed[by] \in clashed \/ files[committed[by]].job = by
  /\ \A by \in temps : Writing(by) \/ by \in spoiled \/ by.program \in killed

\* The name in a row is that of the file of its dump -- unless it was looked at before
\* the file was closed, or is one of a file kept in memory, or was said after a failure:
\* then it may be the name of somebody else's file.  No file comes of a dump for which a
\* row names one only if an exception came when it was opened or closed, or the program
\* ended.  A dump that a row calls an error has left a file too.
RowsNameFiles ==
  \A row \in rows :
    LET by == row.by
        says == Producers[JobOf(by).producer].says
    IN IF by \in DOMAIN committed
       THEN \/ row.says \in {Error, committed[by]}
            \/ /\ row.says = JobOf(by).name
               /\ \/ says # "after" \/ ~program[by.program].direct
                  \/ JobOf(by).producer = "layer" /\ by \in failed
       ELSE \/ by \in spoiled \/ by.program \in killed
            \/ Writing(by) /\ says = "each"

\* A file is cut short only by an exception, which is all the same given its name, by a
\* program that is killed or still writing, or if it is that of a layer whose maximum
\* address is a multiple of the size of chunks: its last byte is missing.
FilesWhole ==
  \A name \in DOMAIN files \ FilesBefore :
    LET by == files[name].job
    IN \/ files[name].bytes = JobOf(by).size
       \/ by \in failed
       \/ ~program[by.program].direct /\ (Writing(by) \/ by.program \in killed)
       \/ JobOf(by).producer = "layer" /\ (JobOf(by).size - 1) % ChunkSize = 0
=============================================================================
