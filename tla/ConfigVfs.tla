------------------------------ MODULE ConfigVfs ------------------------------
(***************************************************************************)
(* The configuration database module (modules/system/config/main.cc): an  *)
(* in-memory SQLite VFS over the database image that the boot loader      *)
(* handed to the kernel.  init() copies the image into g_pFile and opens   *)
(* it; SQLite's pager then reads and writes it through xRead and xWrite;  *)
(* every other file (the journal) gets xReadFail/xWriteFail.              *)
(*                                                                         *)
(* Data is abstracted to whole pages: the pager transfers one page at a   *)
(* time, so an offset or length of the code is a count of pages here, and *)
(* a page's contents are one of the values in Vals (0 is the zero page).  *)
(* The comparisons of the code are the same in either unit.               *)
(*                                                                         *)
(* `file` is not state of the program: it is the file SQLite believes it  *)
(* has, the image overwritten by every xWrite, against which each read is *)
(* judged.                                                                 *)
(***************************************************************************)
EXTENDS Naturals, Sequences, SequencesExt

CONSTANTS
    Vals,        \* page contents; 0 is the zero page
    Images,      \* database images the boot loader may hand over (non-empty)
    MaxPages     \* bound on g_FileSz, in pages

VARIABLES
    pc,          \* "boot" before init(), "ready", "fatal" (FATAL/panic)
    faults,      \* memory faults the code has made
    buf,         \* g_pFile; Len(buf) is the size of the allocation
    size,        \* g_FileSz
    file,        \* the file SQLite has written (see above)
    lastRead     \* the last page handed to SQLite: offset, data, from the db?

vars == <<pc, faults, buf, size, file, lastRead>>

NoRead == [ofs |-> 0, data |-> 0, db |-> FALSE]

Zeros(n) == [i \in 1..n |-> 0]

Faults == {"region", "stack", "overflow"}

(* The page SQLite expects at `ofs`: what it wrote there, or zero past    *)
(* the end of what it has written.                                        *)
AbstractPage(ofs) == IF ofs < Len(file) THEN file[ofs + 1] ELSE 0

(* init(): the early exits on the bootstrap information, then the copy of *)
(* the image into g_pFile.  When allocateRegion fails the code only logs  *)
(* an ERROR and goes on to memcpy from the region's virtual address, which *)
(* was never mapped.  sqlite3_open only opens the file here, and can fail *)
(* only for want of memory, which ends in FATAL as well.                  *)
ModuleInit ==
    /\ pc = "boot"
    /\ faults = {}
    /\ \E loaded, aligned, regionOk, openOk \in BOOLEAN, img \in Images :
         IF ~loaded \/ ~aligned
         THEN /\ pc' = "fatal"
              /\ UNCHANGED <<faults, buf, size, file>>
         ELSE IF ~regionOk
         THEN /\ faults' = faults \cup {"region"}
              /\ UNCHANGED <<pc, buf, size, file>>
         ELSE /\ pc' = IF openOk THEN "ready" ELSE "fatal"
              /\ buf' = img
              /\ size' = Len(img)
              /\ file' = img
              /\ UNCHANGED faults
    /\ UNCHANGED lastRead

Running == pc = "ready" /\ faults = {}

(* xRead.  A read that reaches the last byte of the buffer takes the      *)
(* short-read branch, whose memset clears iAmt bytes at &ptr, the address *)
(* of the parameter on the stack, not the caller's buffer: undefined      *)
(* behaviour the build turns into a clobbered frame.  Otherwise the page  *)
(* is copied out.  The pager only reads pages inside xFileSize.           *)
xRead(ofs) ==
    /\ Running
    /\ ofs + 1 <= size
    /\ IF ofs + 1 >= size
       THEN /\ faults' = faults \cup {"stack"}
            /\ UNCHANGED lastRead
       ELSE /\ lastRead' = [ofs |-> ofs, data |-> buf[ofs + 1], db |-> TRUE]
            /\ UNCHANGED faults
    /\ UNCHANGED <<pc, buf, size, file>>

(* The buffer xWrite allocates when the write reaches the end: twice the  *)
(* size, zeroed, with the old contents copied to its front.               *)
GrowNoCopy(b, sz) == Zeros(2 * sz)
GrowSame(b, sz) == b
Grow(b, sz) == b \o Zeros(sz)

(* xWrite.  The buffer is doubled once when the write reaches its end,    *)
(* then the page is copied in.  The pager writes page by page and extends *)
(* the file by at most one page at a time.                                *)
xWrite(ofs, v) ==
    /\ Running
    /\ ofs <= size
    /\ LET grows == ofs + 1 >= size
           nb    == IF grows THEN Grow(buf, size) ELSE buf
           nsz   == IF grows THEN 2 * size ELSE size
       IN /\ nsz <= MaxPages
          /\ size' = nsz
          /\ IF ofs < Len(nb)
             THEN /\ buf' = [nb EXCEPT ![ofs + 1] = v]
                  /\ UNCHANGED faults
             ELSE /\ buf' = nb
                  /\ faults' = faults \cup {"overflow"}
    /\ file' = IF ofs < Len(file) THEN [file EXCEPT ![ofs + 1] = v]
               ELSE file \o Zeros(ofs - Len(file)) \o <<v>>
    /\ UNCHANGED <<pc, lastRead>>

(* xReadFail: every file other than the database, the rollback journal   *)
(* among them, reads as zeroes with SQLITE_IOERR_SHORT_READ.  xWriteFail, *)
(* xTruncate, xSync and the lock methods return 0 and change nothing.     *)
xReadFail ==
    /\ Running
    /\ lastRead' = [ofs |-> 0, data |-> 0, db |-> FALSE]
    /\ UNCHANGED <<pc, faults, buf, size, file>>

Init ==
    /\ pc = "boot"
    /\ faults = {}
    /\ buf = <<>>
    /\ size = 0
    /\ file = <<>>
    /\ lastRead = NoRead

Next ==
    \/ ModuleInit
    \/ \E ofs \in 0..MaxPages : xRead(ofs)
    \/ \E ofs \in 0..MaxPages, v \in Vals : xWrite(ofs, v)
    \/ xReadFail

Spec == Init /\ [][Next]_vars

-----------------------------------------------------------------------------
(* Properties *)

TypeOK ==
    /\ pc \in {"boot", "ready", "fatal"}
    /\ faults \subseteq Faults
    /\ buf \in Seq(Vals)
    /\ size \in 0..MaxPages
    /\ file \in Seq(Vals)
    /\ lastRead \in [ofs : 0..MaxPages, data : Vals, db : BOOLEAN]

(* Every page xRead hands to SQLite is the page SQLite last wrote at that *)
(* offset, or zero if it never wrote there: xWrite's reallocation keeps   *)
(* the old contents and zero-fills the new half, and no write is lost.    *)
ReadsSeeWrites ==
    [][\A ofs \in 0..MaxPages :
         xRead(ofs) /\ "stack" \notin faults' => lastRead'.data = AbstractPage(ofs)]_vars

(* No xWrite stores past the end of g_pFile, for every sequence of page  *)
(* writes the pager can issue: one doubling per write is enough when the *)
(* file grows a page at a time from a non-empty image.                    *)
NoOverflow == "overflow" \notin faults

(* xRead returns to its caller for every read inside the file: the code's *)
(* comment and the short-read path say a read at the end is cut short,   *)
(* not that it clobbers the stack.                                        *)
ReadsReturn == "stack" \notin faults

=============================================================================
