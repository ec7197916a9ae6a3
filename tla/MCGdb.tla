------------------------------- MODULE MCGdb -------------------------------
(* GdbLink for TLC: a BRAM of 16 bytes and an SDRAM of 4 in a space of 32, *)
(* two breakpoints and an illegal instruction.                             *)
EXTENDS GdbLink, TLC

Plain == {"0", "1", "2", "3", "4", "5", "6", "7", "8", "9",
          "a", "b", "c", "d", "e", "f"}
MCChar == Plain \cup {"$", "#", "+", "-", "?", "S", "g", "H", "G", "m", "M", "q",
                      "OK", "E01", "pc8", "pc0", "@8", "@c6", "win", "mmio", "wrap", "~"}
MCWeight == [c \in MCChar |->
  CASE c = "-" -> 45 [] c = "1" -> 49 [] c = "0" -> 48 [] c = "c" -> 99 [] c = "S" -> 83
    [] c = "5" -> 53 [] c = "4" -> 52 [] c = "b" -> 98 [] c = "?" -> 63 [] c = "g" -> 103
    [] c = "H" -> 171 [] c = "G" -> 71 [] c = "m" -> 109 [] c = "M" -> 77
    [] c = "OK" -> 154 [] c = "E01" -> 166 [] c = "pc8" -> 408 [] c = "pc0" -> 400
    [] c = "@8" -> 56 [] c = "@c6" -> 153 [] c = "win" -> 290 [] c = "mmio" -> 310
    [] c = "wrap" -> 333 [] c = "~" -> 100 [] c = "q" -> 113 [] OTHER -> 50]

NoAddress == -1
Cmd(text, op, bad, addr, len, value) ==
  [text |-> text, op |-> op, bad |-> bad, addr |-> addr, len |-> len, value |-> value]
MCCommands == {
  Cmd(<<"H", "-", "1">>, "H", FALSE, NoAddress, 0, 0),
  Cmd(<<"?">>, "?", FALSE, NoAddress, 0, 0),
  Cmd(<<"g">>, "g", FALSE, NoAddress, 0, 0),
  Cmd(<<"G", "pc8">>, "G", FALSE, 8, 0, 7),
  Cmd(<<"G", "pc0">>, "G", FALSE, 0, 0, 9),
  Cmd(<<"G">>, "G", TRUE, 8, 0, 7),
  Cmd(<<"m", "win">>, "m", FALSE, 20, 2, 0),
  Cmd(<<"M", "win">>, "M", FALSE, 22, 2, 5),
  Cmd(<<"M", "mmio">>, "M", FALSE, 15, 2, 5),
  Cmd(<<"M", "wrap">>, "M", FALSE, 31, 2, 5),
  Cmd(<<"c">>, "c", FALSE, NoAddress, 0, 0),
  Cmd(<<"c", "@8">>, "c", FALSE, 8, 0, 0),
  Cmd(<<"c", "@c6">>, "c", TRUE, 6, 0, 0)}
(* Any first request, then those that matter for how the program resumes.  *)
MCScript == <<MCCommands, {k \in MCCommands : k.text \in {<<"H", "-", "1">>, <<"g">>, <<"c">>}}>>
MCCause == 0 :> 3 @@ 4 :> 3 @@ 8 :> 2

(* The run is one of those that ServesOnlyIntact, RunsOnceForEachContinue, *)
(* RepliesAreOfTheirRequests and FaultsAreSurvived speak of.               *)
ASSUME MCChecksum ==
  OneFault /\ ChecksumTells /\ ForeignJunk /\ TextsFit /\ MAX_TRIES >= 1
=============================================================================
