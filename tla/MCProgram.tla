------------------------------ MODULE MCProgram ------------------------------
(***************************************************************************)
(* Three servers race for the two folders of main.  The sizes of the head  *)
(* are scaled down so that some heads fit to the byte and some do not.     *)
(***************************************************************************)
EXTENDS Program

CONSTANTS s1, s2, s3

MCServers == {s1, s2, s3}
MCLineSizes == {3, 4, 7}

=============================================================================
