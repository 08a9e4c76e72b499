---------------------------- MODULE MCTimeliner ----------------------------
(***************************************************************************)
(* Rows of three levels, some of which a filter lets through, the          *)
(* timeliner over three plugins, and the files that plugins write.         *)
(***************************************************************************)
EXTENDS Timeliner, OutputFiles

CONSTANTS MaxRows  \* bound: number of rows a plugin yields

Row1 == <<7, 0, 0, 0>>
Row2 == <<0, 0, 7, 0>>

MCRows ==
  [level : {0, 2}, cells : {Row1}] \cup [level : {1}, cells : {Row2}]
\* Two levels up at a time take four rows
UpAndDown == {[i \in 1..4 |-> [level |-> IF i = 4 THEN last ELSE i - 1, cells |-> Row1]] : last \in {0, 1}}

MCSources ==
  [rows : UNION {[1..n -> MCRows] : n \in 0..MaxRows}, fails : BOOLEAN]
    \cup [rows : UpAndDown, fails : {FALSE}]
MCNewRow == [level |-> 0, cells |-> Row1]

Options(renderers, column, hidden) ==
  {[renderer |-> r, column |-> column, hidden |-> hidden] : r \in renderers}

MCRenderings ==
  Options({"quick", "pretty", "json", "arrow", "mermaid"}, 3, {})
    \cup Options({"quick", "pretty"}, 3, {1})
    \cup Options({"json", "pretty"}, 3, {1, 2})
    \cup Options({"json"}, AnyColumn, {3})

Time(item, type, timestamp) == [item |-> item, type |-> type, timestamp |-> timestamp]

MCYields ==
  {<<>>, <<Time(2, 2, 4)>>, <<Time(1, 1, 3), Time(1, 2, 7)>>, <<Time(1, 1, 5), Time(2, 1, 2)>>}

Dump(producer, name, size) == [producer |-> producer, name |-> name, size |-> size]

\* A program for each producer, and some of two dumps; sizes on both sides of a chunk
Sizes(producer) ==
  IF producer = "layer" THEN {3, 4} ELSE IF producer \in {"hive", "module"} THEN {3} ELSE {0, 3}
\* The names of processes and those that users give have separators
Names(producer) ==
  {<<"a">>, <<"b">>} \cup (IF producer \in {"layer", "elf", "task"} THEN {<<"sep">>} ELSE {})

MCJobLists ==
  [p \in {1, 2} |->
     IF p = 1
     THEN UNION {{<<Dump(producer, name, size)>> : name \in Names(producer), size \in Sizes(producer)} :
                   producer \in DOMAIN Producers}
            \cup {<<Dump("pe", <<"a">>, 1), Dump("vad", <<"b">>, 2)>>, <<Dump("layer", <<"b">>, 1), Dump("pe", <<"b">>, 1)>>}
     ELSE {<<>>, <<Dump("vad", <<"b">>, 1)>>, <<Dump("vad", <<"a", 1>>, 1)>>}]

MCFilesBefore == {<<"a">>}

\* No plugin writes files, or that is all they do
NoOutput == program = [p \in Programs |-> [NoProgram EXCEPT !.direct = TRUE]] /\ OutputBegins
GridIdle == RenderInit /\ generator = [rows |-> <<>>, fails |-> FALSE] /\ NoTimeliner /\ calls = MaxCalls

MCInit == (Init /\ NoOutput) \/ (GridIdle /\ OutputInit)

MCNext ==
  \/ Next /\ UNCHANGED outputVars
  \/ GridIdle /\ OutputNext /\ UNCHANGED vars

MCSpec == MCInit /\ [][MCNext]_<<vars, outputVars>>

\* What plugins yield, in rows and in files, is what is listed and named
PluginsHeard == EntriesListed /\ OutputsKept /\ RowsNameFiles /\ FilesWhole
=============================================================================
