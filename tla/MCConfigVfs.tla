----------------------------- MODULE MCConfigVfs -----------------------------
(* The configuration VFS with page values {0, 1, 2}, database images of   *)
(* one and two pages, and g_FileSz bounded by four pages: enough for a    *)
(* write to reach the end of the buffer twice and double it each time.    *)
EXTENDS ConfigVfs

MCVals == {0, 1, 2}
MCImages == {<<1>>, <<1, 2>>}
====
