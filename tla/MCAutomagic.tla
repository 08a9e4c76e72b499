---------------------------- MODULE MCAutomagic ----------------------------
(* Two plugins that require a kernel module and one that requires any layer. *)
(* The image may be a dump format in a dump format with an Intel layer on    *)
(* top; "custom" is an Intel layer with other parameters, which a user has   *)
(* configured, alone or in a saved configuration.                            *)
EXTENDS Automagic

CONSTANTS pslist, modules_, banners

MCAccepts ==
  [p \in {pslist, modules_, banners} |->
     IF p = banners THEN {"file", "dump", "intel", "custom"} ELSE {"intel", "custom"}]

Custom == [Empty EXCEPT !.levels = Unbuilt(<<"file", "custom">>)]

Saved == [Custom EXCEPT !.levels[2].kernelOffset = "custom", !.offset = "custom", !.isf = "custom", !.class = TRUE]

MCProvided == [p \in {pslist, modules_, banners} |-> IF p = modules_ THEN {Empty, Custom, Saved} ELSE {Empty}]

\* The dump's stacker comes after the Intel one, and recognises a dump in a dump
MCStackers ==
  <<[over |-> {"dump"}, gives |-> "intel"],
    [over |-> {"file", "dump"}, gives |-> "dump"],
    [over |-> {"dump", "intel"}, gives |-> "swap"]>>
=============================================================================
