------------------------------- MODULE MCBoot -------------------------------
(***************************************************************************)
(* Runs of BootLink: integers of two bytes, a BRAM of two words, an SDRAM  *)
(* window of two words.  The payload begins like the magic.                *)
(***************************************************************************)
EXTENDS BootLink

MCFirmware == <<30, 7>>
MCAsset    == <<5, 6, 7, 8>>
NoAsset    == <<>>

Le(n) == <<n % 256, n \div 256>>

RunBody   == <<1, 1>> \o Le(2) \o MCFirmware
ImageBody == <<1, 2>> \o Le(2) \o Le(512) \o Le(4) \o MCFirmware \o MCAsset
Trailer   == <<256, 257>>

RunPacket   == Magic \o RunBody \o Trailer
ImagePacket == Magic \o ImageBody \o Trailer

(* The ideal checksum: no other sequence has the trailer of the body.      *)
MCCrc(s) == IF s = Body THEN Trailer ELSE <<>>

(* What the theorems on a clean line ask of the packet and of the SDRAM.   *)
ASSUME CleanLineParams == BuiltPacket /\ WordInTwoFrames
=============================================================================
