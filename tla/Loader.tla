------------------------------- MODULE Loader -------------------------------
(***************************************************************************)
(* libload (user/applications/libload/loader.cc), the dynamic loader.     *)
(* One thread runs main: it splits LD_LIBRARY_PATH into the search path,  *)
(* loads the program, the LD_PRELOAD object and the program's DT_NEEDED   *)
(* libraries (loadSharedObjectHelper follows each library's own needs),   *)
(* relocates the preloads, the libraries and the program in that order,   *)
(* and jumps to the entry point.  The program then calls through PLT      *)
(* slots; the first call of each enters _libload_dofixup, which resolves  *)
(* the slot with the same doThisRelocation.                               *)
(*                                                                         *)
(* An ELF image is abstracted to what the control reads from it: whether  *)
(* its header is valid, whether it is position independent (relocated),  *)
(* its DT_NEEDED names in order, the dynamic symbols it defines as        *)
(* GLOBAL with a section, those it has as WEAK, and the symbols its REL/  *)
(* RELA, COPY and JMPREL relocations name.  A resolved slot records the   *)
(* object whose definition it took, Weak (value ~0, written as 0), or   *)
(* Missing (the printf path, also written as 0).  Addresses, hashing    *)
(* and the relocation arithmetic are left out.                            *)
(***************************************************************************)
EXTENDS Naturals, Sequences, SequencesExt

CONSTANTS
    Names,      \* file names a program, DT_NEEDED or LD_PRELOAD may give
    Dirs,       \* directories a search path may hold
    Files,      \* ELF images on disk
    Symbols,    \* dynamic symbol names
    Image,      \* [Files -> record]: what loadObject reads from an image
    Located,    \* [(Dirs \cup {AsGiven}) \X Names -> Files \cup {NoFile}]: stat
    AsGiven,    \* the name itself, relative to the working directory
    NoFile, None, Unbound, Weak, Missing,
    Program,    \* argv[0]
    Preloads,   \* values of LD_PRELOAD: a subset of Names \cup {None}
    LibPaths,   \* values of LD_LIBRARY_PATH: strings over Dirs \cup {":", NUL}
    NUL,
    Arches,     \* builds: a subset of {"i386", "x86_64"}
    MayFail,    \* whether mmap/request_mem may fail for a valid image
    MaxPaths,   \* bound: search path entries the model lets the loop push
    MaxMetas    \* bound: object_meta_t records the model lets main create

MetaIds == 1..MaxMetas
MainId == 1
Resolved == MetaIds \cup {Weak, Missing}

VARIABLES
    arch,         \* the build
    preload,      \* getenv("LD_PRELOAD")
    libpath,      \* the LD_LIBRARY_PATH buffer strtok writes into
    searchPaths,  \* g_lSearchPaths
    loaded,       \* g_LoadedObjects
    metas,        \* every object_meta_t main created, in order; 1 is the program
    preloadList,  \* the program's preloads list
    objects,      \* the program's objects list (the libraries, in load order)
    di,           \* main's position in the program's needed list
    cur,          \* the name loadSharedObjectHelper is about to load, or None
    relocQ,       \* objects still to pass through doRelocation
    binding,      \* per object, per symbol: the slot's resolution, or Unbound
    pc            \* main: "paths", "main", "preload", "deps", "reloc", "run",
                  \*       "exit" (ENOEXEC) or "crashed"

vars == <<arch, preload, libpath, searchPaths, loaded, metas, preloadList,
          objects, di, cur, relocQ, binding, pc>>

FileOf(m) == metas[m].file
PreloadsOf(m) == IF m = MainId THEN preloadList ELSE <<>>

-----------------------------------------------------------------------------
(* Lines 150-156: strtok(ld_libpath, ":") is handed the buffer again on   *)
(* every call, so it returns the first token each time; the first call    *)
(* writes NUL over the ':' after it.  Tokens here are single elements.    *)

Token(str) ==
    LET i == SelectInSeq(str, LAMBDA c : c # ":") IN
    IF i = 0 \/ str[i] = NUL THEN None ELSE str[i]

Strtok(str) ==
    LET i == SelectInSeq(str, LAMBDA c : c # ":") IN
    IF i < Len(str) /\ str[i + 1] = ":" THEN [str EXCEPT ![i + 1] = NUL] ELSE str

\* findObject, lines 238-254: the name as given, then each search path but
\* the last: the do-while computes the last candidate and then leaves.
Candidates == <<AsGiven>> \o SubSeq(searchPaths, 1, Len(searchPaths) - 1)

FindObject(n) ==
    LET i == SelectInSeq(Candidates, LAMBDA d : Located[<<d, n>>] # NoFile) IN
    IF i = 0 THEN NoFile ELSE Located[<<Candidates[i], n>>]

\* Lines 545-554: each DT_NEEDED offset is copied into meta->needed, then
\* erased, and the loop's ++it steps past the element erase returned: the
\* entry after each copied one is skipped.  Once erase returns end(), the
\* increment wraps to begin() in the build's std::list (whose end node links
\* back to the first), so a skipped entry is copied late, out of order; one
\* skipped when the increment lands on end() is lost.
RECURSIVE CopyNeeded(_, _, _)
CopyNeeded(tmp, p, out) ==
    IF p = 0 THEN out
    ELSE LET rest == RemoveAt(tmp, p)
             q == IF p > Len(rest) THEN 0 ELSE p
             r == IF q = 0 THEN (IF rest = <<>> THEN 0 ELSE 1)
                  ELSE IF q + 1 > Len(rest) THEN 0 ELSE q + 1
         IN CopyNeeded(rest, r, Append(out, tmp[p]))

RecordedNeeded(f) ==
    CopyNeeded(Image[f].needed, IF Image[f].needed = <<>> THEN 0 ELSE 1, <<>>)

\* loadObject, lines 279-583: open fails for a name findObject cannot place,
\* the header checks refuse an image that is not a valid ELF, and mmap or
\* pedigree_sys_request_mem may fail for one that is.
LoadOutcomes(n) ==
    IF FindObject(n) = NoFile \/ ~Image[FindObject(n)].elf THEN {FALSE}
    ELSE IF MayFail THEN BOOLEAN ELSE {TRUE}

NewMeta(n) == [name |-> n, file |-> FindObject(n),
               needed |-> RecordedNeeded(FindObject(n))]

-----------------------------------------------------------------------------
(* Symbol lookup.                                                          *)

RECURSIVE LookupSymbolOwnFirst(_, _, _)
LookupSymbolOwnFirst(s, m, bWeak) ==
    LET pl == PreloadsOf(m)
        i == SelectInSeq(pl, LAMBDA p : LookupSymbolOwnFirst(s, p, FALSE) # None)
    IN IF s \in Image[FileOf(m)].defs THEN m
       ELSE IF i # 0 THEN LookupSymbolOwnFirst(s, pl[i], FALSE)
       ELSE IF bWeak /\ s \in Image[FileOf(m)].weak THEN Weak
       ELSE None

\* lookupSymbol, lines 585-635: the object's preloads first, then its own
\* hash chain: a GLOBAL/LOCAL entry with a section, or with bWeak a WEAK one.
RECURSIVE LookupSymbol(_, _, _)
LookupSymbol(s, m, bWeak) ==
    LET pl == PreloadsOf(m)
        i == SelectInSeq(pl, LAMBDA p : LookupSymbol(s, p, FALSE) # None)
    IN IF i # 0 THEN LookupSymbol(s, pl[i], FALSE)
       ELSE IF s \in Image[FileOf(m)].defs THEN m
       ELSE IF bWeak /\ s \in Image[FileOf(m)].weak THEN Weak
       ELSE None

FindSymbolSkipLast(s, m) ==
    LET objs == SubSeq(objects, 1, Len(objects) - 1)
        i == SelectInSeq(PreloadsOf(m), LAMBDA p : LookupSymbol(s, p, FALSE) # None)
        j == SelectInSeq(objs, LAMBDA o : LookupSymbol(s, o, FALSE) # None)
    IN IF i # 0 THEN LookupSymbol(s, PreloadsOf(m)[i], FALSE)
       ELSE IF j # 0 THEN LookupSymbol(s, objs[j], FALSE)
       ELSE LookupSymbol(s, m, TRUE)

\* findSymbol, lines 637-666: the object's preloads, then the objects list
\* of the root (the program), then weak symbols of the object itself.
FindSymbol(s, m) ==
    LET i == SelectInSeq(PreloadsOf(m), LAMBDA p : LookupSymbol(s, p, FALSE) # None)
        j == SelectInSeq(objects, LAMBDA o : LookupSymbol(s, o, FALSE) # None)
    IN IF i # 0 THEN LookupSymbol(s, PreloadsOf(m)[i], FALSE)
       ELSE IF j # 0 THEN LookupSymbol(s, objects[j], FALSE)
       ELSE LookupSymbol(s, m, TRUE)

ResolveNoFallback(m, s, copy) ==
    IF copy THEN FindSymbol(s, m)
    ELSE IF LookupSymbol(s, m, FALSE) # None THEN LookupSymbol(s, m, FALSE)
    ELSE FindSymbol(s, m)

\* doThisRelocation, lines 758-811 (REL) and 839-904 (RELA): COPY searches
\* everything but a local lookup first; anything else tries the object
\* itself, then findSymbol.  A failed lookup sets ~0, which both variants
\* turn into S = 0.
Resolve(m, s, copy) ==
    LET r == IF copy THEN FindSymbol(s, m)
             ELSE IF LookupSymbol(s, m, FALSE) # None THEN LookupSymbol(s, m, FALSE)
             ELSE FindSymbol(s, m)
    IN IF r = None THEN Missing ELSE r

-----------------------------------------------------------------------------
(* main, lines 134-236, and the steps it calls.                          *)

\* Lines 150-156: the strtok loop pushes the same first token for ever.
ParsePath ==
    /\ pc = "paths"
    /\ Token(libpath) # None
    /\ Len(searchPaths) < MaxPaths
    /\ searchPaths' = Append(searchPaths, Token(libpath))
    /\ libpath' = Strtok(libpath)
    /\ UNCHANGED <<arch, preload, loaded, metas, preloadList, objects, di, cur,
                   relocQ, binding, pc>>

\* Lines 172-179: the program itself; a failure returns ENOEXEC.
LoadMain ==
    /\ pc = "paths"
    /\ Token(libpath) = None
    /\ \E ok \in LoadOutcomes(Program) :
          IF ok THEN /\ metas' = <<NewMeta(Program)>>
                     /\ loaded' = {Program}
                     /\ pc' = "preload"
                ELSE /\ pc' = "exit"
                     /\ UNCHANGED <<metas, loaded>>
    /\ UNCHANGED <<arch, preload, libpath, searchPaths, preloadList, objects, di,
                   cur, relocQ, binding>>

\* Lines 183-194: LD_PRELOAD; a failure is only printed.  The preload's own
\* DT_NEEDED list is never looked at.
LoadPreload ==
    /\ pc = "preload"
    /\ pc' = "deps"
    /\ IF preload = None THEN UNCHANGED <<metas, loaded, preloadList>>
       ELSE \E ok \in LoadOutcomes(preload) :
              IF ok THEN /\ metas' = Append(metas, NewMeta(preload))
                         /\ preloadList' = <<Len(metas) + 1>>
                         /\ loaded' = loaded \cup {preload}
                    ELSE UNCHANGED <<metas, loaded, preloadList>>
    /\ UNCHANGED <<arch, preload, libpath, searchPaths, objects, di, cur, relocQ,
                   binding>>

\* Lines 198-206: the next name the program needs, unless already loaded.
DepsNext ==
    /\ pc = "deps"
    /\ cur = None
    /\ di <= Len(metas[MainId].needed)
    /\ di' = di + 1
    /\ cur' = IF metas[MainId].needed[di] \in loaded THEN None
              ELSE metas[MainId].needed[di]
    /\ UNCHANGED <<arch, preload, libpath, searchPaths, loaded, metas,
                   preloadList, objects, relocQ, binding, pc>>

\* Lines 265-272: the first of an object's needs not yet loaded, if any.
FirstUnloadedAny(needed, ld) == IF needed = <<>> THEN None ELSE needed[1]
FirstUnloaded(needed, ld) ==
    LET i == SelectInSeq(needed, LAMBDA n : n \notin ld) IN
    IF i = 0 THEN None ELSE needed[i]

\* loadSharedObjectHelper, lines 256-276: load cur into the program's
\* objects list, then `return` into the first of its needs not loaded, so
\* the rest of its list is never visited.
HelperLoad ==
    /\ pc = "deps"
    /\ cur # None
    /\ Len(metas) < MaxMetas
    /\ \E ok \in LoadOutcomes(cur) :
          IF ok THEN LET m == NewMeta(cur) IN
                     /\ metas' = Append(metas, m)
                     /\ objects' = Append(objects, Len(metas) + 1)
                     /\ loaded' = loaded \cup {cur}
                     /\ cur' = FirstUnloaded(m.needed, loaded \cup {cur})
                ELSE /\ cur' = None
                     /\ UNCHANGED <<metas, objects, loaded>>
    /\ UNCHANGED <<arch, preload, libpath, searchPaths, preloadList, di, relocQ,
                   binding, pc>>

RelocOrderNoPreloads(pre, objs, m) == objs \o <<m>>
\* Lines 210-227: preloads, then the libraries, then the program.
RelocOrder(pre, objs, m) == pre \o objs \o <<m>>

DepsDone ==
    /\ pc = "deps"
    /\ cur = None
    /\ di > Len(metas[MainId].needed)
    /\ relocQ' = RelocOrder(preloadList, objects, MainId)
    /\ pc' = "reloc"
    /\ UNCHANGED <<arch, preload, libpath, searchPaths, loaded, metas,
                   preloadList, objects, di, cur, binding>>

\* doRelocation, lines 691-723: every REL/RELA entry of the object through
\* doThisRelocation; JMPREL slots are left for the first call.  On x86_64 a
\* relocated object's JMPREL fix-up (lines 716-719) indexes plt_rel, which
\* nothing set for a RELA object: the loader faults.  A COPY whose lookup
\* failed, or found only a weak symbol, reads *(S) with S = 0 (lines 828
\* and 916): the loader faults there too.
Relocate ==
    /\ pc = "reloc"
    /\ relocQ # <<>>
    /\ LET m == Head(relocQ)
           img == Image[FileOf(m)]
       IN /\ binding' = [binding EXCEPT ![m] =
                [s \in Symbols |->
                   IF s \in img.refs THEN Resolve(m, s, FALSE)
                   ELSE IF s \in img.copies THEN Resolve(m, s, TRUE)
                   ELSE binding[m][s]]]
          /\ IF \/ \E s \in img.copies : Resolve(m, s, TRUE) \in {Weak, Missing}
                \/ arch = "x86_64" /\ img.pic /\ img.plt # {}
             THEN pc' = "crashed" /\ relocQ' = relocQ
             ELSE relocQ' = Tail(relocQ) /\ UNCHANGED pc
    /\ UNCHANGED <<arch, preload, libpath, searchPaths, loaded, metas,
                   preloadList, objects, di, cur>>

\* Lines 231-233: meta->entry(argv, environ).
Enter ==
    /\ pc = "reloc"
    /\ relocQ = <<>>
    /\ pc' = "run"
    /\ UNCHANGED <<arch, preload, libpath, searchPaths, loaded, metas,
                   preloadList, objects, di, cur, relocQ, binding>>

\* _libload_dofixup, lines 934-959: the first call through a PLT slot.  An
\* unresolved or weak symbol yields S = 0, which is not ~0, so the abort at
\* 953-956 is not taken and the program jumps to address 0.
Call(m, s) ==
    /\ pc = "run"
    /\ s \in Image[FileOf(m)].plt
    /\ binding[m][s] = Unbound
    /\ binding' = [binding EXCEPT ![m][s] = Resolve(m, s, FALSE)]
    /\ pc' = IF Resolve(m, s, FALSE) \in {Weak, Missing} THEN "crashed" ELSE pc
    /\ UNCHANGED <<arch, preload, libpath, searchPaths, loaded, metas,
                   preloadList, objects, di, cur, relocQ>>

Init ==
    /\ arch \in Arches
    /\ preload \in Preloads
    /\ libpath \in LibPaths
    /\ searchPaths = <<"/libraries", ".">>
    /\ loaded = {}
    /\ metas = <<>>
    /\ preloadList = <<>>
    /\ objects = <<>>
    /\ di = 1
    /\ cur = None
    /\ relocQ = <<>>
    /\ binding = [m \in MetaIds |-> [s \in Symbols |-> Unbound]]
    /\ pc = "paths"

LoaderStep ==
    \/ ParsePath \/ LoadMain \/ LoadPreload \/ DepsNext \/ HelperLoad
    \/ DepsDone \/ Relocate \/ Enter

Next ==
    \/ LoaderStep
    \/ \E m \in 1..Len(metas), s \in Symbols : Call(m, s)

\* The loader is one thread the scheduler runs; the program's calls are its
\* own choice.
Spec == Init /\ [][Next]_vars /\ WF_vars(LoaderStep)

-----------------------------------------------------------------------------
(* Properties.                                                             *)

Done == pc \in {"run", "exit", "crashed"}
Metas == 1..Len(metas)
Definers(s) == {m \in Metas : s \in Image[FileOf(m)].defs}
Refs(m) == Image[FileOf(m)].refs \cup Image[FileOf(m)].copies \cup Image[FileOf(m)].plt

\* Every variable has its type; in particular every slot doThisRelocation
\* fills names a definer, Weak or Missing (lines 801-811, 886-904).
TypeOK ==
    /\ pc \in {"paths", "preload", "deps", "reloc", "run", "exit", "crashed"}
    /\ searchPaths \in Seq(Dirs)
    /\ loaded \subseteq Names
    /\ cur \in Names \cup {None}
    /\ Len(metas) <= MaxMetas
    /\ binding \in [MetaIds -> [Symbols -> Resolved \cup {Unbound}]]

\* The comment at line 590: a symbol the LD_PRELOAD object defines overrides
\* every other definition for the program's own relocations, eager, COPY and
\* lazy alike.
PreloadInterposesMain ==
    \A s \in Symbols :
        /\ preloadList # <<>>
        /\ binding[MainId][s] # Unbound
        /\ s \in Image[FileOf(preloadList[1])].defs
        => binding[MainId][s] = preloadList[1]

\* A reference of the program to a symbol that some loaded object defines
\* is bound to a definer of it, never left at 0 (lines 783-806 searching
\* the program, its preloads and every library in the objects list).
MainResolves ==
    \A s \in Symbols :
        /\ metas # <<>>
        /\ binding[MainId][s] # Unbound
        /\ Definers(s) # {}
        => /\ binding[MainId][s] \in Metas
           /\ s \in Image[FileOf(binding[MainId][s])].defs

\* The entry point runs only after every object main loaded, the preloads
\* and libraries included, has had each of its REL/RELA and COPY slots
\* resolved (lines 210-227 before 233).
BoundBeforeEntry ==
    pc = "run" =>
        \A m \in Metas : \A s \in Image[FileOf(m)].refs \cup Image[FileOf(m)].copies :
            binding[m][s] # Unbound

\* With LD_LIBRARY_PATH unset the loader always reaches the program's entry,
\* an ENOEXEC exit or a crash: dependency cycles end at g_LoadedObjects.
TerminatesWithoutLibPath == Token(libpath) = None => <>Done

\* The loader finishes whatever LD_LIBRARY_PATH holds.
Terminates == <>Done

\* Before relocation, each name in the DT_NEEDED list of every loaded
\* object that can be loaded has been (the ELF rule every loader keeps).
NeededLoaded ==
    pc = "reloc" =>
        \A m \in Metas : \A n \in ToSet(Image[FileOf(m)].needed) :
            FindObject(n) # NoFile /\ Image[FindObject(n)].elf => n \in loaded

\* The comments at lines 798 and 883: a lookup that fails locally searches the other
\* objects; so a reference of any object to a symbol some loaded object
\* defines is bound to a definer.
AllResolve ==
    \A m \in Metas, s \in Symbols :
        binding[m][s] # Unbound /\ Definers(s) # {} => binding[m][s] \in Definers(s)

=============================================================================
