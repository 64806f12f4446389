------------------------------ MODULE MCElkFrame ------------------------------
(***************************************************************************)
(* Small instances of ElkFrame for TLC.  A report is nine characters with  *)
(* its length, reserved digits and checksum, and MaxFrame is just enough    *)
(* for it; a character turns into a terminator, a blank, which int()       *)
(* accepts, or a digit.                                                    *)
(***************************************************************************)
EXTENDS ElkFrame

MCReports    == {<<86, 78, 49>>, <<65, 83, 57>>}    \* VN1, AS9
MCRequests   == {<<118, 110>>,                      \* vn
                 <<115, 100, 48, 48, 48, 48, 49>>,  \* sd00001
                 <<100, 109, 252>>}                 \* dm and a u with diaeresis
MCCommands   == {<<86, 78>>, <<65, 83>>}
MCNoiseChars == {13, 32, 57}
=============================================================================
