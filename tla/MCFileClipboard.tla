-------------------------- MODULE MCFileClipboard --------------------------
(***************************************************************************)
(* Small instances of FileClipboard: two directories, two files in the     *)
(* first of them.  The files are alike.                                    *)
(***************************************************************************)
EXTENDS FileClipboard, TLC

CONSTANTS home, away, f, g

FilesUp == {<<home, f>>, <<home, g>>}
Urls2 == [d \in Dirs |-> IF d = home THEN <<"a">> ELSE <<"b", "c", "a">>]
Alike == Permutations({f, g})
=============================================================================
