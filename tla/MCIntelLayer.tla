---------------------------- MODULE MCIntelLayer ----------------------------
(***************************************************************************)
(* Two levels of tables with two entries each over pages of four bytes:    *)
(* frame 0 is the root, 1 and 2 are tables, 3 holds data; frames 2 and 3   *)
(* are also taken for one large page.                                      *)
(***************************************************************************)
EXTENDS IntelLayer

Present(f) == Entry("present", FALSE, f)
Large(f) == Entry("present", TRUE, f)
Zero == Entry("zero", FALSE, 0)
Swap(p) == Entry("swap", TRUE, p)

MCStructure == <<[size |-> 1, large |-> TRUE], [size |-> 1, large |-> FALSE]>>

Memory == 0..15
MCValid == {Memory, Memory \ {14, 15}, Memory \ {8, 9}}

\* What one system adds to the entries all have
Special(system) ==
  CASE system = "intel" -> {Entry("transition", FALSE, 3)}
    [] system = "windows" -> {Swap(1), Entry("transition", FALSE, 3)}
    [] system = "linux" -> {Entry("protnone", FALSE, 0)}

MCLayers ==
  UNION {
    [system : {system},
     tables : {(0 :> (0 :> a @@ 1 :> b)) @@ (1 :> (0 :> c @@ 1 :> d)) @@ (2 :> (0 :> Present(1) @@ 1 :> Zero))
               @@ (3 :> (0 :> Zero @@ 1 :> Zero)) :
               a \in {Present(1), Large(2), Zero} \cup Special(system), b \in {Present(1), Present(2)},
               c \in {Present(2)} \cup Special(system), d \in {Present(3), Zero}},
     valid : MCValid,
     swap : IF system = "windows" THEN {<<>>, <<0..15>>} ELSE {<<>>}] : system \in {"intel", "windows", "linux"}}

MCCalls == {[offset |-> o, length |-> l, ignore_errors |-> i] : o \in {1, 6}, l \in {5, 13}, i \in BOOLEAN} \cup {[offset |-> 3, length |-> 0, ignore_errors |-> FALSE]}

MCDumps == {[offset |-> 2, length |-> 5], [offset |-> 1, length |-> 14]}

MCWrites == {[frame |-> 1, index |-> 0, entry |-> Present(3)]}
=============================================================================
