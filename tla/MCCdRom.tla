------------------------------ MODULE MCCdRom ------------------------------
(***************************************************************************)
(* A drive small enough to check: delays of a few cycles in the order and  *)
(* proportions of the real ones, a disc of two sectors.                    *)
(***************************************************************************)
EXTENDS CdRom

\* What software gives the mode register: nothing, sound, double speed.
NoModes == {}
SoundModes == {{"XA_ADPCM"}}
AllModes == {{}, {"XA_ADPCM"}, {"DOUBLE_SPEED"}}
=============================================================================
