---------------------------- MODULE MCLiveFolders ----------------------------
(* Model checking of LiveFolders with a folder inside another; each holds  *)
(* one file.                                                               *)
EXTENDS LiveFolders

FolderOfFile == <<"outer", "inner">>
Nested       == {<<"inner", "outer">>}

SavedLayouts == {<<"inner", "inner">>, <<"inner", "outer">>}
=============================================================================
