------------------------------ MODULE MCMedia ------------------------------
(* BadApple for TLC: a stream that pauses may stretch over several turns   *)
(* of the counter, with a note so near its end that it may be lost, and    *)
(* streams with an error, one for each check of validate_asset.            *)
EXTENDS BadApple

Note(t, hz, b) == [tick |-> t, hz |-> hz, beat |-> b]
Good == [header_ok |-> TRUE, duration |-> 3, frames |-> 2,
         video |-> <<2, 0, 9, 1, 9, 1, 1, 8>>, audio |-> <<Note(0, 2, FALSE), Note(2, 3, TRUE)>>]
Faulty == {
  [Good EXCEPT !.header_ok = FALSE],
  [Good EXCEPT !.video = <<2, 0, 9, 1, 9>>],
  [Good EXCEPT !.video = <<2, 0, 9, 1, 9, 1, 1>>],
  [Good EXCEPT !.video = <<2, 0, 9, 1, 9, 1, 2, 8>>],
  [Good EXCEPT !.video = <<2, 0, 9, 1, 9, 0, 1, 8>>],
  [Good EXCEPT !.audio = <<Note(1, 2, TRUE), Note(1, 3, FALSE)>>]}
MCAssets == {Good} \cup Faulty
=============================================================================
