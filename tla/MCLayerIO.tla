------------------------------ MODULE MCLayerIO ------------------------------
(* A buffer of four bytes, a truncated image, under two segmented layers.   *)
(*   layer 1: [0 1] -> buffer [2 3], hole at 2, [3 4 5] -> buffer [1 2 3],  *)
(*            [6 7] -> buffer [3 4]: its first byte is the last of the      *)
(*            image, and 4 is past the end; [8] -> buffer [5], behind it    *)
(*   layer 2: [0 1] -> layer 1 [1 2], of which 2 is a hole of layer 1, hole *)
(*            at 2, [3 4] -> layer 1 [4 5], [5 6] -> layer 1 [6 7],         *)
(*            [7 8] -> layer 1 [8 9]: 8 is the last address of layer 1      *)
(* Reads and writes cross chunks, holes and the end of the image, addresses *)
(* of both layers share bytes of the buffer, and writes make it longer.     *)
EXTENDS LayerIO

Segment(a, m, l) == [address |-> a, mapped |-> m, length |-> l]

MCSegments ==
  << <<Segment(0, 2, 2), Segment(3, 1, 3), Segment(6, 3, 2), Segment(8, 5, 1)>>,
     <<Segment(0, 1, 2), Segment(3, 4, 2), Segment(5, 6, 2), Segment(7, 8, 2)>> >>

MCContents == <<1, 2, 3, 4>>

MCReads ==
  {<<1, 3, 4, FALSE, FALSE>>, <<1, 6, 1, FALSE, TRUE>>, <<1, 6, 1, TRUE, TRUE>>,
   <<1, 1, 2, TRUE, TRUE>>, <<1, 7, 1, TRUE, FALSE>>, <<1, 8, 1, FALSE, TRUE>>,
   <<2, 0, 2, TRUE, TRUE>>, <<2, 0, 2, FALSE, TRUE>>, <<2, 3, 3, FALSE, FALSE>>,
   <<2, 1, 5, TRUE, FALSE>>, <<2, 4, 1, FALSE, TRUE>>, <<2, 7, 1, FALSE, TRUE>>,
   <<2, 7, 1, TRUE, TRUE>>, <<0, 3, 2, TRUE, TRUE>>}

MCWriteSpots ==
  {<<1, 1, 3>>, <<2, 4, 3>>, <<2, 0, 2>>, <<0, 3, 2>>, <<1, 5, 2>>, <<0, 4, 3>>}
=============================================================================
