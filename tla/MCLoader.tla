------------------------------ MODULE MCLoader ------------------------------
(***************************************************************************)
(* A program app that needs liba, libx (not on disk) and libb; liba and  *)
(* libb need each other; an LD_PRELOAD object pre that, like libb and     *)
(* the program, defines s1.  The program references s1, s5 (libb's) and  *)
(* a weak w, copies s2 out of liba, and calls s1 and s2 through its PLT;  *)
(* libb calls s3, which no object defines.  Libraries live in            *)
(* /libraries; LD_LIBRARY_PATH may be unset or /opt.                      *)
(***************************************************************************)
EXTENDS Loader

Img(pic, needed, defs, weak, refs, copies, plt) ==
    [elf |-> TRUE, pic |-> pic, needed |-> needed, defs |-> defs,
     weak |-> weak, refs |-> refs, copies |-> copies, plt |-> plt]

MCNames == {"app", "liba", "libb", "libx", "pre"}
MCDirs == {"/libraries", ".", "/opt"}
MCFiles == {"fapp", "fa", "fb", "fpre"}
MCSymbols == {"s1", "s2", "s3", "s5", "w"}

\* The images of the passing run.
MCImage ==
    [f \in MCFiles |->
        CASE f = "fapp" -> Img(FALSE, <<"liba", "libx", "libb">>, {"s1"}, {"w"},
                               {"s1", "s5", "w"}, {"s2"}, {"s1", "s2"})
          [] f = "fa"   -> Img(TRUE, <<"libb">>, {"s2"}, {}, {"s2"}, {}, {"s1"})
          [] f = "fb"   -> Img(TRUE, <<"liba">>, {"s1", "s5"}, {}, {}, {}, {"s3"})
          [] f = "fpre" -> Img(TRUE, <<>>, {"s1"}, {}, {"s2"}, {}, {})]

\* The program needs liba and libb, and liba needs nothing: the copy loop
\* of lines 545-554 keeps only liba.
MCImageDeps ==
    [MCImage EXCEPT !["fapp"].needed = <<"liba", "libb">>,
                    !["fa"].needed = <<>>]

\* liba calls s4, which only the program defines.
MCSymbolsScope == MCSymbols \cup {"s4"}
MCImageScope ==
    [MCImage EXCEPT !["fapp"].defs = {"s4"}, !["fa"].plt = {"s1", "s4"}]

MCLocated ==
    [p \in ((MCDirs \cup {AsGiven}) \X MCNames) |->
        CASE p = <<AsGiven, "app">> -> "fapp"
          [] p = <<"/libraries", "liba">> -> "fa"
          [] p = <<"/libraries", "libb">> -> "fb"
          [] p = <<"/libraries", "pre">> -> "fpre"
          [] OTHER -> NoFile]

MCPreloads == {None, "pre"}
MCLibPaths == {<<>>, <<"/opt">>}
MCLibPathSet == {<<"/opt", ":", "/libraries">>}
MCArches == {"i386", "x86_64"}
=============================================================================
